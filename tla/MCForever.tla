----------------------------- MODULE MCForever -----------------------------
(* A task in each of two projects.                                           *)
EXTENDS Forever

CONSTANTS p1, p2

TwoTasks == [t \in 1..2 |-> IF t = 1 THEN p1 ELSE p2]

=============================================================================
