----------------------------- MODULE Scheduler -----------------------------
(***************************************************************************)
(* The scheduler daemon (internal/scheduler, with internal/lock and the    *)
(* SSH session of internal/runner): Run ticks for ever, a tick recovers    *)
(* stale locks, asks whether any project is locked, lists the due tasks    *)
(* and tries them in order until one run has been started and finished.    *)
(*                                                                         *)
(* pc[d] names the next call of daemon d that touches shared state, so     *)
(* other processes interleave between any two database calls.  A daemon    *)
(* may be signalled, may crash anywhere and be started again; a database   *)
(* call may fail; the SSH client of a crashed daemon may outlive it.       *)
(*                                                                         *)
(*   "idle"      at the head of Run's loop, or asleep between two ticks    *)
(*   "recover"   Locks.RecoverStale        "gate"      Store.HasAnyLock    *)
(*   "list"      Store.ListDueTasks        "try"       Store.GetProject    *)
(*   "acquire"   Locks.Acquire             "exec"      Runner.Run          *)
(*   "release"   Locks.Release             "schedule"  ScheduleTaskAfterRun*)
(*   "exited"    Run has returned          "down"      the process is gone *)
(***************************************************************************)
EXTENDS Store

CONSTANTS
    Daemons,     \* daemon processes on this database; the deployment has one
    MaxTime,     \* bound: the clock stops here
    MaxFaults,   \* bound: database calls that fail
    MaxCrashes,  \* bound: daemons killed
    MaxSignals   \* bound: SIGTERMs sent

VARIABLES
    pc,          \* daemon -> its next call
    term,        \* daemon -> SIGTERM received (ctx is cancelled)
    due,         \* daemon -> copies of the due tasks it has still to try
    cur,         \* daemon -> the copy tryStart works on
    run,         \* daemon -> the *store.Run of the lock it took
    sessions,    \* run ids whose local SSH client is alive
    faults,      \* database calls failed so far
    crashes,     \* daemons killed so far
    signals      \* SIGTERMs sent so far

counters == <<faults, crashes, signals>>
daemonVars == <<pc, term, due, cur, run, sessions, counters>>

StoreCalls == {"recover", "gate", "list", "try", "acquire", "release", "schedule"}
Up == StoreCalls \cup {"idle", "exec"}

\* The *store.Run that tryStart fills in and hands to Release.
RunCopy == [id : RunIds, finished : Nat \cup {Null}, status : Status]

ASSUME SchedulerAssumption ==
    /\ {MaxTime, MaxFaults, MaxCrashes, MaxSignals} \subseteq Nat
    /\ Null \notin RunCopy

SchedulerTypeOK ==
    /\ StoreTypeOK
    /\ pc \in [Daemons -> Up \cup {"exited", "down"}]
    /\ term \in [Daemons -> BOOLEAN]
    /\ due \in [Daemons -> SUBSET TaskCopy]
    /\ cur \in [Daemons -> TaskCopy \cup {Null}]
    /\ run \in [Daemons -> RunCopy \cup {Null}]
    /\ sessions \subseteq RunIds
    /\ faults \in Nat
    /\ crashes \in Nat
    /\ signals \in Nat

SchedulerInit ==
    /\ StoreInit
    /\ pc = [d \in Daemons |-> "idle"]
    /\ term = [d \in Daemons |-> FALSE]
    /\ due = [d \in Daemons |-> {}]
    /\ cur = [d \in Daemons |-> Null]
    /\ run = [d \in Daemons |-> Null]
    /\ sessions = {}
    /\ faults = 0
    /\ crashes = 0
    /\ signals = 0

-----------------------------------------------------------------------------

Goto(d, label) == pc' = [pc EXCEPT ![d] = label]

\* The stack of Tick and tryStart is gone: the daemon holds no copies.
Forget(d) ==
    /\ due' = [due EXCEPT ![d] = {}]
    /\ cur' = [cur EXCEPT ![d] = Null]
    /\ run' = [run EXCEPT ![d] = Null]

\* Tick returns, with or without an error: Run logs the error and sleeps.
EndTick(d) == Goto(d, "idle") /\ Forget(d)

\* tryStart returned false: Tick goes on with the remaining copies, if any.
NextDue(d, rest) ==
    IF rest = {}
    THEN EndTick(d)
    ELSE Goto(d, "try") /\ due' = [due EXCEPT ![d] = rest]
                        /\ cur' = [cur EXCEPT ![d] = Null]
                        /\ UNCHANGED run

\* Mutant of BeginTick: the context is not looked at.
BeginTickAnyway(d) ==
    /\ pc[d] = "idle"
    /\ Goto(d, "recover")
    /\ UNCHANGED <<now, tables, term, due, cur, run, sessions, counters>>

\* Run wakes up, sees a live context and enters Tick.
BeginTick(d) ==
    /\ pc[d] = "idle" /\ ~term[d]
    /\ Goto(d, "recover")
    /\ UNCHANGED <<now, tables, term, due, cur, run, sessions, counters>>

\* Locks.RecoverStale: locks without a pid are passed over; of the others, those
\* whose process is dead are cleared.  The daemon writes no pid (Acquire), so the
\* loop over them is one step here; LockManager interleaves it.
RecoverStale(d) ==
    /\ pc[d] = "recover"
    /\ \E dead \in SUBSET PidLocks :
         /\ runs' = [r \in RunIds |->
                       IF \E p \in dead : locks[p].run = r
                       THEN [runs[r] EXCEPT !.finished = now, !.status = "error"]
                       ELSE runs[r]]
         /\ locks' = [p \in Projects |-> IF p \in dead THEN Null ELSE locks[p]]
    /\ Goto(d, "gate")
    /\ UNCHANGED <<now, projects, tasks, term, due, cur, run, sessions, counters>>

\* Mutant of Gate: no gate.
PassGate(d) ==
    /\ pc[d] = "gate"
    /\ Goto(d, "list")
    /\ UNCHANGED <<now, tables, term, due, cur, run, sessions, counters>>

\* Store.HasAnyLock, the global gate: with any lock in the table the tick ends.
Gate(d) ==
    /\ pc[d] = "gate"
    /\ Goto(d, IF HasAnyLock THEN "idle" ELSE "list")
    /\ UNCHANGED <<now, tables, term, due, cur, run, sessions, counters>>

ListDue(d) ==
    /\ pc[d] = "list"
    /\ NextDue(d, ListDueTasks)
    /\ UNCHANGED <<now, tables, term, sessions, counters>>

\* tryStart of the first remaining copy: the project is read again, the task is
\* not.  A project that is missing or disabled is skipped.
Runnable(s) ==
    LET p == projects[ProjectOf[s.id]] IN p # Null /\ p.enabled /\ s.row.enabled

TryStart(d) ==
    /\ pc[d] = "try"
    /\ \E s \in due[d] :
         /\ IsFirst(s, due[d])
         /\ IF Runnable(s)
            THEN /\ Goto(d, "acquire")
                 /\ due' = [due EXCEPT ![d] = @ \ {s}]
                 /\ cur' = [cur EXCEPT ![d] = s]
                 /\ UNCHANGED run
            ELSE NextDue(d, due[d] \ {s})
    /\ UNCHANGED <<now, tables, term, sessions, counters>>

\* Locks.Acquire refuses: ErrLocked, the task is skipped.
AcquireRefused(d) ==
    /\ pc[d] = "acquire"
    /\ Locked(ProjectOf[cur[d].id])
    /\ NextDue(d, due[d])
    /\ UNCHANGED <<now, tables, term, sessions, counters>>

\* Locks.Acquire(task.ProjectID, task.ID, nil) succeeds.  The SSH client starts,
\* unless the command could not be expanded or ssh could not be started.
Acquire(d) ==
    /\ pc[d] = "acquire"
    /\ AcquireRunLock(ProjectOf[cur[d].id], cur[d].id, Null)
    /\ run' = [run EXCEPT ![d] = [id |-> newID, finished |-> Null, status |-> "running"]]
    /\ sessions' \in {sessions, sessions \cup {newID}}
    /\ Goto(d, "exec")
    /\ UNCHANGED <<now, term, due, cur, counters>>

\* Mutants of Finish: a failed run ends the tick at once; Runner.Run returns before
\* the SSH client is gone.
FinishOrGiveUp(d) ==
    /\ pc[d] = "exec"
    /\ sessions' = sessions \ {run[d].id}
    /\ \/ /\ run[d].id \in sessions
          /\ run' = [run EXCEPT ![d].finished = now, ![d].status = "success"]
          /\ Goto(d, "release")
          /\ UNCHANGED <<due, cur>>
       \/ EndTick(d)
    /\ UNCHANGED <<now, tables, term, counters>>

FinishEarly(d) ==
    /\ pc[d] = "exec"
    /\ run' = [run EXCEPT ![d].finished = now, ![d].status = "error"]
    /\ Goto(d, "release")
    /\ UNCHANGED <<now, tables, term, due, cur, sessions, counters>>

\* Runner.Run returns (or was never called): any outcome after a session, only
\* an error without one.  A cancelled context does not end the session.
Finish(d) ==
    /\ pc[d] = "exec"
    /\ \E status \in {"success", "error"} :
         /\ run[d].id \notin sessions => status = "error"
         /\ run' = [run EXCEPT ![d].finished = now, ![d].status = status]
    /\ sessions' = sessions \ {run[d].id}
    /\ Goto(d, "release")
    /\ UNCHANGED <<now, tables, term, due, cur, counters>>

Release(d) ==
    /\ pc[d] = "release"
    /\ ReleaseRunLock(ProjectOf[cur[d].id], run[d].id, run[d].finished, run[d].status)
    /\ Goto(d, "schedule")
    /\ UNCHANGED <<now, term, due, cur, run, sessions, counters>>

\* Mutants of Schedule: only a successful run is followed by one; the interval
\* counts from the start of the run.
ScheduleIfSuccess(d) ==
    /\ pc[d] = "schedule"
    /\ IF run[d].status = "success"
       THEN ScheduleTaskAfterRun(cur[d].id, run[d].finished, cur[d].row.interval)
       ELSE UNCHANGED tables
    /\ EndTick(d)
    /\ UNCHANGED <<now, term, sessions, counters>>

ScheduleFromStart(d) ==
    /\ pc[d] = "schedule"
    /\ ScheduleTaskAfterRun(cur[d].id, runs[run[d].id].started, cur[d].row.interval)
    /\ EndTick(d)
    /\ UNCHANGED <<now, term, sessions, counters>>

\* The interval is the one of the copy made by ListDueTasks, before the run.
Schedule(d) ==
    /\ pc[d] = "schedule"
    /\ ScheduleTaskAfterRun(cur[d].id, run[d].finished, cur[d].row.interval)
    /\ EndTick(d)
    /\ UNCHANGED <<now, term, sessions, counters>>

\* Any database call of a tick fails: Tick returns the error, Run logs it.
StoreError(d) ==
    /\ pc[d] \in StoreCalls
    /\ faults < MaxFaults
    /\ faults' = faults + 1
    /\ EndTick(d)
    /\ UNCHANGED <<now, tables, term, sessions, crashes, signals>>

Signal(d) ==
    /\ pc[d] \in Up /\ ~term[d]
    /\ signals < MaxSignals
    /\ signals' = signals + 1
    /\ term' = [term EXCEPT ![d] = TRUE]
    /\ UNCHANGED <<now, tables, pc, due, cur, run, sessions, faults, crashes>>

\* The context is looked at between ticks only: a tick begun is finished first.
Exit(d) ==
    /\ pc[d] = "idle" /\ term[d]
    /\ Goto(d, "exited")
    /\ UNCHANGED <<now, tables, term, due, cur, run, sessions, counters>>

\* SIGKILL, power loss, or the end of the container's grace period: the local
\* SSH client may die with the daemon or be orphaned.
Crash(d) ==
    /\ pc[d] \in Up
    /\ crashes < MaxCrashes
    /\ crashes' = crashes + 1
    /\ Goto(d, "down")
    /\ Forget(d)
    /\ sessions' \in {sessions, sessions \ (IF pc[d] = "exec" THEN {run[d].id} ELSE {})}
    /\ UNCHANGED <<now, tables, term, faults, signals>>

\* Mutant of Restart: a starting daemon clears the lock table.
RestartClean(d) ==
    /\ pc[d] \in {"exited", "down"}
    /\ term' = [term EXCEPT ![d] = FALSE]
    /\ Goto(d, "idle")
    /\ locks' = [p \in Projects |-> Null]
    /\ UNCHANGED <<now, projects, tasks, runs, due, cur, run, sessions, counters>>

Restart(d) ==
    /\ pc[d] \in {"exited", "down"}
    /\ term' = [term EXCEPT ![d] = FALSE]
    /\ Goto(d, "idle")
    /\ UNCHANGED <<now, tables, due, cur, run, sessions, counters>>

OrphanEnds(r) ==
    /\ r \in sessions
    /\ \A d \in Daemons : pc[d] = "exec" => run[d].id # r
    /\ sessions' = sessions \ {r}
    /\ UNCHANGED <<now, tables, pc, term, due, cur, run, counters>>

AdvanceClock ==
    /\ now < MaxTime
    /\ now' = now + 1
    /\ UNCHANGED <<tables, daemonVars>>

-----------------------------------------------------------------------------

\* The calls of Run, Tick and tryStart, in the order the code makes them.
DaemonStep(d) ==
    \/ BeginTick(d)
    \/ RecoverStale(d)
    \/ Gate(d)
    \/ ListDue(d)
    \/ TryStart(d)
    \/ AcquireRefused(d)
    \/ Acquire(d)
    \/ Finish(d)
    \/ Release(d)
    \/ Schedule(d)
    \/ Exit(d)

Environment ==
    \/ \E d \in Daemons : StoreError(d) \/ Signal(d) \/ Crash(d) \/ Restart(d)
    \/ \E r \in RunIds : OrphanEnds(r)
    \/ AdvanceClock

=============================================================================
