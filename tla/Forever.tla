------------------------------ MODULE Forever ------------------------------
(***************************************************************************)
(* MasterAgent with a clock and a supply of run ids that do not end, for   *)
(* what takes a run that goes on for ever to go wrong: a due task that is  *)
(* passed over again and again while others come due.                      *)
(*                                                                         *)
(* The scheduler compares times and never looks further ahead than one     *)
(* interval; it never reads the row of a run that is over.  Rewind makes   *)
(* use of that: it renumbers the times there are, in their order, from 0,  *)
(* and drops the rows of finished runs.  What can happen next is the same  *)
(* before and after it, so the bounds on time and run ids are never met.   *)
(***************************************************************************)
EXTENDS MasterAgent, FiniteSets

\* With longer intervals the distances to come would have to be kept as well.
ASSUME ForeverAssumption == Intervals = {1}

\* The times that are compared: the clock, the schedules, and the copies of
\* schedules that a daemon has still to try or a client to write back, in their order.
Copies == UNION {due[d] : d \in Daemons} \cup {copy[c] : c \in {c \in Clients : copy[c] # Null}}

Marks ==
    ({now} \cup {tasks[t].next : t \in {t \in Tasks : tasks[t] # Null}}
           \cup {c.row.next : c \in Copies}) \ {Null}

Past(x) == Cardinality({y \in Marks : y < x})
Rank(x) == IF x = Null THEN Null ELSE IF x <= now THEN Past(x) ELSE Past(now) + x - now

Ranked(row) == [row EXCEPT !.last = Rank(@), !.next = Rank(@)]
RankedCopy(c) == IF c = Null THEN Null ELSE [c EXCEPT !.row = Ranked(@)]

\* Between runs: no daemon has one in its hands, and all rows of runs are over.
Rewind ==
    /\ \A d \in Daemons : run[d] = Null
    /\ \A p \in Projects : ~Locked(p)
    /\ now' = Rank(now)
    /\ tasks' = [t \in Tasks |-> IF tasks[t] = Null THEN Null ELSE Ranked(tasks[t])]
    /\ runs' = [r \in RunIds |-> Null]
    /\ due' = [d \in Daemons |-> {RankedCopy(c) : c \in due[d]}]
    /\ cur' = [d \in Daemons |-> RankedCopy(cur[d])]
    /\ copy' = [c \in Clients |-> RankedCopy(copy[c])]
    /\ UNCHANGED <<projects, locks, pc, term, run, sessions, counters, edits>>

ForeverNext == Next \/ Rewind

\* The code's scheduling, and ids do not run out.
ForeverSpec == Init /\ [][ForeverNext]_vars /\ Fairness /\ WF_vars(Rewind)

-----------------------------------------------------------------------------

Running(t) == \E d \in Daemons : pc[d] = "exec" /\ cur[d].id = t

\* A due task is run, or disabled, although other tasks come due again as fast as
\* they are run: the order of ListDueTasks, the one run a tick may start, refused
\* and failed runs, and SIGTERM with restart never pass a task over for good.
DueTaskRuns == \A t \in Tasks : Due(t) ~> (Running(t) \/ ~Due(t))
=============================================================================
