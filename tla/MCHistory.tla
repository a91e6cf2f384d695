--------------------------- MODULE MCHistory -------------------------------
(* Instances of History for TLC: three tasks, two of them of one project. *)
EXTENDS History

CONSTANTS p1, p2

TwoTasks == [t \in 1..2 |-> IF t = 1 THEN p1 ELSE p2]
SameProject == [t \in 1..2 |-> p1]
ThreeTasks == [t \in 1..3 |-> IF t = 3 THEN p2 ELSE p1]

=============================================================================
