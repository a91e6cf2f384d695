------------------------------ MODULE RunLock ------------------------------
(***************************************************************************)
(* What the lock table promises its users, without tables, daemons or      *)
(* failures: a project is held by at most one run at a time; a run gets    *)
(* the project once, when it starts; and the only thing that ever frees    *)
(* the project is the end of the run that holds it, which settles that     *)
(* run's result for good.                                                  *)
(***************************************************************************)
CONSTANTS
    Projects,
    RunIds,
    Null         \* no run, no result

VARIABLES
    holder,      \* project -> the run that holds it
    result       \* run -> Null before it starts, "running", then its outcome

vars == <<holder, result>>

Outcome == {"success", "error"}

TypeOK ==
    /\ holder \in [Projects -> RunIds \cup {Null}]
    /\ result \in [RunIds -> Outcome \cup {"running", Null}]

Init ==
    /\ holder = [p \in Projects |-> Null]
    /\ result = [r \in RunIds |-> Null]

Start(p, r) ==
    /\ holder[p] = Null
    /\ result[r] = Null
    /\ holder' = [holder EXCEPT ![p] = r]
    /\ result' = [result EXCEPT ![r] = "running"]

End(p, outcome) ==
    /\ holder[p] # Null
    /\ result' = [result EXCEPT ![holder[p]] = outcome]
    /\ holder' = [holder EXCEPT ![p] = Null]

Next ==
    \/ \E p \in Projects, r \in RunIds : Start(p, r)
    \/ \E p \in Projects, outcome \in Outcome : End(p, outcome)

Spec == Init /\ [][Next]_vars

-----------------------------------------------------------------------------

\* The running runs are exactly the holders, and no run holds two projects.
HoldersRun ==
    /\ \A p \in Projects : holder[p] # Null => result[holder[p]] = "running"
    /\ \A r \in RunIds : result[r] = "running" => \E p \in Projects : holder[p] = r
    /\ \A p, q \in Projects : holder[p] # Null /\ holder[p] = holder[q] => p = q

=============================================================================
