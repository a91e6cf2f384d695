------------------------------ MODULE History ------------------------------
(***************************************************************************)
(* MasterAgent with history variables that count run starts, for the       *)
(* properties that compare what has happened with what was allowed when.   *)
(* They observe steps and constrain none.                                  *)
(***************************************************************************)
EXTENDS MasterAgent, FiniteSets

ASSUME HistoryAssumption == IsFiniteSet(Daemons)

VARIABLES
    passed,      \* passed[t][u]: runs of u started since t has been due, its row as it is
    lateRuns,    \* runs of t started since t or its project was disabled
    lateStarts   \* runs daemon d started since it received SIGTERM

histVars == <<passed, lateRuns, lateStarts>>

HInit ==
    /\ Init
    /\ passed = [t \in Tasks |-> [u \in Tasks |-> 0]]
    /\ lateRuns = [t \in Tasks |-> 0]
    /\ lateStarts = [d \in Daemons |-> 0]

\* This step inserts a run of t.
Started(t) == \E r \in RunIds : runs[r] = Null /\ runs'[r] # Null /\ runs'[r].task = t

Count(b) == IF b THEN 1 ELSE 0

Observe ==
    /\ passed' = [t \in Tasks |-> [u \in Tasks |->
           IF ~Due(t) \/ ~Due(t)' \/ tasks'[t] # tasks[t] \/ Started(t) THEN 0
           ELSE passed[t][u] + Count(Started(u))]]
    /\ lateRuns' = [t \in Tasks |->
           IF Enabled(t)' THEN 0 ELSE lateRuns[t] + Count(Started(t))]
    /\ lateStarts' = [d \in Daemons |->
           IF ~term'[d] THEN 0
           ELSE lateStarts[d] + Count(pc[d] = "acquire" /\ pc'[d] = "exec")]

HNext == Next /\ Observe

HSpec == HInit /\ [][HNext]_<<vars, histVars>>

-----------------------------------------------------------------------------

\* Bounded waiting: while a task stays due and nobody writes its row, another task is
\* run at most once before it.  This is what ordering by next_run_at buys, with one
\* daemon and no failed call.  A task that clients edit may get its old, earlier
\* next_run_at back and pass again; a write to the waiting task moves it in the order.
BoundedBypass ==
    \A t \in Tasks, u \in Tasks \ Editable : passed[t][u] <= 1

\* Disabling a task or its project takes effect within one run: a daemon may
\* still start the task from the list it read before, but no daemon does it twice.
DisableTakesEffect == \A t \in Tasks : lateRuns[t] <= Cardinality(Daemons)

\* SIGTERM stops the daemon from starting runs, but for one that the tick in
\* progress may still start.
AtMostOneLateStart == \A d \in Daemons : lateStarts[d] <= 1

=============================================================================
