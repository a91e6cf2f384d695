--------------------------- MODULE MCLockManager ---------------------------
(* Instances of LockManager for TLC: one task in each of two projects.         *)
EXTENDS LockManager

CONSTANTS p1, p2

OneEach == [t \in 1..2 |-> IF t = 1 THEN p1 ELSE p2]

=============================================================================
