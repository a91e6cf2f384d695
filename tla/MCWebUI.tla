------------------------------ MODULE MCWebUI ------------------------------
(* Two projects with a task and a run each.                                    *)
EXTENDS WebUI

CONSTANTS p1, p2, t1, t2, r1, r2

OneEach == [x \in Tasks \cup Runs |-> IF x \in {t1, r1} THEN p1 ELSE p2]

=============================================================================
