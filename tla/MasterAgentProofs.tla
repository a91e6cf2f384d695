------------------------- MODULE MasterAgentProofs -------------------------
(***************************************************************************)
(* The safety of MasterAgent for every set of projects, tasks, daemons and *)
(* clients, and any number of failed calls, crashes and signals: IInv is   *)
(* inductive, and the invariants that are a part or a consequence of it.   *)
(* Then what happens to the lock and run tables over time: finished runs   *)
(* stay as they are, the tables implement the abstract project lock, no    *)
(* lock is leaked without a failure, and one daemon runs one task.         *)
(***************************************************************************)
EXTENDS MasterAgent, TLAPS

\* The id of a new run is one that no run has.
LEMMA NewID ==
    ASSUME \E r \in RunIds : runs[r] = Null
    PROVE  newID \in RunIds /\ runs[newID] = Null
BY DEF newID

\* The two ways a task row changes keep it a task row.
LEMMA ScheduledRow ==
    ASSUME NEW row \in TaskRow, NEW fin \in Nat, NEW next \in Nat
    PROVE  [row EXCEPT !.last = fin, !.next = next] \in TaskRow
BY DEF TaskRow

\* A PATCH makes a row of a row.
LEMMA PatchedRow ==
    ASSUME NEW row \in TaskRow, NEW patched \in Patched(row)
    PROVE  patched \in TaskRow
<1>1. PICK new \in [enabled : BOOLEAN, interval : Intervals] :
        patched = [row EXCEPT !.enabled = new.enabled, !.interval = new.interval]
  BY DEF Patched
<1> QED
  BY <1>1 DEF TaskRow

-----------------------------------------------------------------------------
(* The initial states.                                                       *)

\* A database without runs, and daemons that are starting, have the invariant.
LEMMA InitIInv == Init => IInv
<1> SUFFICES ASSUME Init PROVE IInv
  OBVIOUS
<1> USE DEF Init, SchedulerInit, StoreInit, ClientsInit
<1>1. NewTask \subseteq TaskRow
  BY DEF NewTask, TaskRow
<1>2. TypeOK
  <2>1. tasks \in [Tasks -> TaskRow \cup {Null}]
    BY <1>1
  <2> QED
    BY <2>1 DEF TypeOK, SchedulerTypeOK, StoreTypeOK, ClientsTypeOK, Up, StoreCalls
<1>3. LockedIffRunning /\ NoPids /\ SessionsRun
  BY DEF LockedIffRunning, NoPids, PidLocks, SessionsRun, Locked
<1>4. CopiesInPlace /\ HolderHasLock /\ HoldersDiffer /\ SessionsOver
  BY DEF CopiesInPlace, HolderHasLock, HoldersDiffer, SessionsOver, Holding
<1> QED
  BY <1>2, <1>3, <1>4 DEF IInv

-----------------------------------------------------------------------------
(* Steps that leave the lock and run tables alone, and start no session.     *)

\* What IInv says of rows and sessions only survives such a step.
LEMMA RowsStay ==
    ASSUME IInv, UNCHANGED <<runs, locks>>, sessions' \subseteq sessions
    PROVE  LockedIffRunning' /\ NoPids' /\ SessionsRun'
BY DEF IInv, LockedIffRunning, NoPids, PidLocks, SessionsRun, Locked

\* So does what it says of the other daemons; a daemon that holds nothing after
\* the step needs no more than its copies.
LEMMA DaemonsStay ==
    ASSUME IInv, NEW d \in Daemons, UNCHANGED <<runs, locks>>, sessions' \subseteq sessions,
           TypeOK',
           pc'[d] \notin Holding,
           \A e \in Daemons \ {d} : pc'[e] = pc[e] /\ cur'[e] = cur[e] /\ run'[e] = run[e],
           pc'[d] = "acquire" => cur'[d] # Null,
           pc'[d] # "schedule"
    PROVE  IInv'
<1>1. LockedIffRunning' /\ NoPids' /\ SessionsRun'
  BY RowsStay
<1>2. CopiesInPlace' /\ HolderHasLock' /\ HoldersDiffer' /\ SessionsOver'
  BY DEF IInv, CopiesInPlace, HolderHasLock, HoldersDiffer, SessionsOver, Holding, Locked
<1> QED
  BY <1>1, <1>2 DEF IInv

\* And all of it survives a step that moves no daemon.
LEMMA EverythingStays ==
    ASSUME IInv, UNCHANGED <<runs, locks, pc, cur, run>>, sessions' \subseteq sessions, TypeOK'
    PROVE  IInv'
<1>1. LockedIffRunning' /\ NoPids' /\ SessionsRun'
  BY RowsStay
<1>2. CopiesInPlace' /\ HolderHasLock' /\ HoldersDiffer' /\ SessionsOver'
  BY DEF IInv, CopiesInPlace, HolderHasLock, HoldersDiffer, SessionsOver, Locked
<1> QED
  BY <1>1, <1>2 DEF IInv

\* Steps of a daemon that change no lock and no run.
LEMMA LocalStepIInv ==
    ASSUME IInv, NEW d \in Daemons, UNCHANGED clientVars,
           \/ BeginTick(d) \/ Gate(d) \/ ListDue(d) \/ TryStart(d) \/ AcquireRefused(d)
           \/ Exit(d) \/ StoreError(d) \/ Restart(d)
    PROVE  IInv'
<1> USE StoreAssumption
    DEF IInv, TypeOK, SchedulerTypeOK, StoreTypeOK, ClientsTypeOK, clientVars, tables,
        counters, Goto, Forget, EndTick, NextDue, Up, StoreCalls, Holding
<1>1. CASE BeginTick(d)
  BY <1>1, DaemonsStay DEF BeginTick
<1>2. CASE Gate(d)
  BY <1>2, DaemonsStay DEF Gate
<1>3. CASE ListDue(d)
  <2>1. ListDueTasks \subseteq TaskCopy
    BY DEF ListDueTasks, Due, Enabled, TaskCopy
  <2>2. TypeOK'
    BY <1>3, <2>1 DEF ListDue
  <2> QED
    BY <1>3, <2>2, DaemonsStay DEF ListDue
<1>4. CASE TryStart(d)
  <2>1. PICK s \in due[d] :
          IF Runnable(s)
          THEN /\ Goto(d, "acquire")
               /\ due' = [due EXCEPT ![d] = @ \ {s}]
               /\ cur' = [cur EXCEPT ![d] = s]
               /\ UNCHANGED run
          ELSE NextDue(d, due[d] \ {s})
    BY <1>4 DEF TryStart
  <2>2. UNCHANGED <<now, tables, term, sessions, counters>>
    BY <1>4 DEF TryStart
  <2>3. s \in TaskCopy /\ s # Null
    BY <2>1
  <2>4. TypeOK'
    BY <2>1, <2>2, <2>3
  <2> QED
    BY <2>1, <2>2, <2>3, <2>4, DaemonsStay
<1>5. CASE AcquireRefused(d)
  <2>1. TypeOK'
    BY <1>5 DEF AcquireRefused
  <2> QED
    BY <1>5, <2>1, DaemonsStay DEF AcquireRefused
<1>6. CASE Exit(d)
  BY <1>6, DaemonsStay DEF Exit
<1>7. CASE StoreError(d)
  BY <1>7, DaemonsStay DEF StoreError
<1>8. CASE Restart(d)
  BY <1>8, DaemonsStay DEF Restart
<1> QED
  BY <1>1, <1>2, <1>3, <1>4, <1>5, <1>6, <1>7, <1>8

-----------------------------------------------------------------------------
(* Steps of a daemon on rows and sessions.                                   *)

\* No lock carries a pid, so stale-lock recovery changes no row.
LEMMA RecoverStaleIdle ==
    ASSUME IInv, NEW d \in Daemons, RecoverStale(d)
    PROVE  UNCHANGED <<tables, sessions>> /\ Goto(d, "gate")
<1>1. \A dead \in SUBSET PidLocks : dead = {}
  BY DEF IInv, NoPids
<1>2. runs' = [r \in RunIds |-> runs[r]] /\ locks' = [p \in Projects |-> locks[p]]
  BY <1>1 DEF RecoverStale
<1> QED
  BY <1>2 DEF RecoverStale, IInv, TypeOK, SchedulerTypeOK, StoreTypeOK, tables

\* RecoverStale: with no pid in any lock it clears nothing.
LEMMA RecoverStaleIInv ==
    ASSUME IInv, NEW d \in Daemons, RecoverStale(d), UNCHANGED clientVars
    PROVE  IInv'
<1>1. TypeOK'
  BY RecoverStaleIdle
  DEF RecoverStale, IInv, TypeOK, SchedulerTypeOK, StoreTypeOK, ClientsTypeOK, clientVars,
      tables, counters, Goto, Up, StoreCalls
<1> QED
  BY <1>1, RecoverStaleIdle, DaemonsStay
  DEF RecoverStale, Goto, Holding, tables, IInv, TypeOK, SchedulerTypeOK

\* Acquire: the new lock names the new run, and its daemon holds it.
LEMMA AcquireIInv ==
    ASSUME IInv, NEW d \in Daemons, Acquire(d), UNCHANGED clientVars
    PROVE  IInv'
<1> DEFINE t == cur[d].id
           p == ProjectOf[t]
           row == [task |-> t, project |-> p, started |-> now,
                   finished |-> Null, status |-> "running"]
           lock == [task |-> t, run |-> newID, pid |-> Null]
           mine == [id |-> newID, finished |-> Null, status |-> "running"]
<1> USE StoreAssumption, SchedulerAssumption
<1> USE DEF IInv
<1>1. newID \in RunIds /\ runs[newID] = Null
  BY NewID DEF Acquire, AcquireRunLock
<1>2. cur[d] \in TaskCopy /\ t \in Tasks /\ p \in Projects
  BY DEF Acquire, CopiesInPlace, TypeOK, SchedulerTypeOK, TaskCopy
<1>3. row \in RunRow /\ lock \in LockRow /\ mine \in RunCopy
  BY <1>1, <1>2 DEF RunRow, LockRow, RunCopy, Status, TypeOK, SchedulerTypeOK, StoreTypeOK
<1>4. row # Null /\ lock # Null /\ mine # Null
  BY <1>3
<1>5. /\ runs' = [runs EXCEPT ![newID] = row]
      /\ locks' = [locks EXCEPT ![p] = lock]
      /\ run' = [run EXCEPT ![d] = mine]
      /\ pc' = [pc EXCEPT ![d] = "exec"]
      /\ sessions' \in {sessions, sessions \cup {newID}}
      /\ ~Locked(p) /\ pc[d] = "acquire"
      /\ UNCHANGED <<now, projects, tasks, term, due, cur, faults, crashes, signals, copy, edits>>
  BY DEF Acquire, AcquireRunLock, Goto, counters, clientVars
<1> HIDE DEF row, lock, mine, t, p
<1>6. TypeOK'
  BY <1>1, <1>2, <1>3, <1>5
  DEF TypeOK, SchedulerTypeOK, StoreTypeOK, ClientsTypeOK, Up, StoreCalls
<1>7. LockedIffRunning'
  BY <1>1, <1>2, <1>3, <1>4, <1>5
  DEF LockedIffRunning, Locked, TypeOK, SchedulerTypeOK, StoreTypeOK, RunRow, LockRow, row, lock
<1>8. CopiesInPlace'
  BY <1>2, <1>4, <1>5 DEF CopiesInPlace, Holding, TypeOK, SchedulerTypeOK
<1>9. \A e \in Daemons : pc[e] \in Holding => run[e].id # newID /\ ProjectOf[cur[e].id] # p
  BY <1>1, <1>5 DEF HolderHasLock, LockedIffRunning, TypeOK, SchedulerTypeOK, CopiesInPlace,
     TaskCopy, Holding, RunCopy
<1>10. HolderHasLock'
  BY <1>2, <1>4, <1>5, <1>9
  DEF HolderHasLock, Holding, Locked, TypeOK, SchedulerTypeOK, StoreTypeOK, mine, lock, p, t
<1>11. HoldersDiffer'
  BY <1>5, <1>9 DEF HoldersDiffer, Holding, TypeOK, SchedulerTypeOK, mine
<1>12. NoPids'
  BY <1>2, <1>5 DEF NoPids, PidLocks, Locked, TypeOK, SchedulerTypeOK, StoreTypeOK, lock
<1>13. SessionsRun'
  BY <1>1, <1>4, <1>5 DEF SessionsRun, TypeOK, SchedulerTypeOK, StoreTypeOK, row
<1>14. SessionsOver'
  BY <1>5, <1>9 DEF SessionsOver, Holding, TypeOK, SchedulerTypeOK, mine
<1> QED
  BY <1>6, <1>7, <1>8, <1>10, <1>11, <1>12, <1>13, <1>14

\* The command ends: the session is over before the release.
LEMMA FinishIInv ==
    ASSUME IInv, NEW d \in Daemons, Finish(d), UNCHANGED clientVars
    PROVE  IInv'
<1> USE StoreAssumption, SchedulerAssumption DEF IInv
<1>1. PICK status \in {"success", "error"} :
        run' = [run EXCEPT ![d].finished = now, ![d].status = status]
  BY DEF Finish
<1>2. /\ pc[d] = "exec" /\ pc' = [pc EXCEPT ![d] = "release"]
      /\ sessions' = sessions \ {run[d].id}
      /\ UNCHANGED <<tables, clientVars, now, term, due, cur, faults, crashes, signals>>
  BY DEF Finish, Goto, counters
<1>3. run[d] \in RunCopy /\ run[d] # Null /\ now \in Nat
  BY <1>2 DEF CopiesInPlace, Holding, TypeOK, SchedulerTypeOK, StoreTypeOK
<1>4. run'[d] = [id |-> run[d].id, finished |-> now, status |-> status]
  BY <1>1, <1>3 DEF RunCopy, TypeOK, SchedulerTypeOK
<1>5. run'[d] \in RunCopy
  BY <1>3, <1>4 DEF RunCopy, Status
<1>6. TypeOK'
  BY <1>1, <1>2, <1>5
  DEF TypeOK, SchedulerTypeOK, StoreTypeOK, ClientsTypeOK, clientVars, tables, Up, StoreCalls
<1>7. \A e \in Daemons : run'[e].id = run[e].id /\ (pc'[e] \in Holding <=> pc[e] \in Holding)
  BY <1>1, <1>2, <1>4 DEF TypeOK, SchedulerTypeOK, Holding
<1>8. LockedIffRunning' /\ NoPids' /\ SessionsRun'
  BY <1>2 DEF LockedIffRunning, NoPids, PidLocks, SessionsRun, Locked, tables
<1>9. \A e \in Daemons \ {d} : run'[e] = run[e] /\ pc'[e] = pc[e] /\ cur'[e] = cur[e]
  BY <1>1, <1>2 DEF TypeOK, SchedulerTypeOK
<1>10. /\ pc'[d] = "release" /\ cur'[d] # Null /\ run'[d] # Null
       /\ run'[d].finished # Null /\ run'[d].status # "running"
  BY <1>2, <1>3, <1>4, <1>5 DEF CopiesInPlace, Holding, TypeOK, SchedulerTypeOK
<1>11. CopiesInPlace'
  BY <1>9, <1>10 DEF CopiesInPlace
<1>12. HolderHasLock' /\ HoldersDiffer'
  BY <1>2, <1>7 DEF HolderHasLock, HoldersDiffer, Locked, tables
<1>13. SessionsOver'
  BY <1>2, <1>7, <1>9 DEF SessionsOver
<1> QED
  BY <1>6, <1>8, <1>11, <1>12, <1>13

\* Release: the lock the daemon deletes is its own.
LEMMA ReleaseIInv ==
    ASSUME IInv, NEW d \in Daemons, Release(d), UNCHANGED clientVars
    PROVE  IInv'
<1> DEFINE p == ProjectOf[cur[d].id]
           r == run[d].id
<1> USE StoreAssumption, SchedulerAssumption DEF IInv
<1>1. /\ pc[d] = "release" /\ pc' = [pc EXCEPT ![d] = "schedule"]
      /\ locks' = [locks EXCEPT ![p] = Null]
      /\ UNCHANGED <<projects, tasks, clientVars, now, term, due, cur, run, sessions,
                     faults, crashes, signals>>
  BY DEF Release, ReleaseRunLock, Goto, counters
<1>2. /\ cur[d] \in TaskCopy /\ p \in Projects
      /\ run[d] \in RunCopy /\ run[d].finished # Null /\ run[d].status # "running"
  BY <1>1 DEF CopiesInPlace, Holding, TypeOK, SchedulerTypeOK, TaskCopy
<1>3. /\ r \in RunIds /\ Locked(p) /\ locks[p].run = r
      /\ runs[r] \in RunRow /\ runs[r] # Null /\ runs[r].project = p
  BY <1>1, <1>2
  DEF HolderHasLock, LockedIffRunning, Holding, Locked, RunCopy, TypeOK, SchedulerTypeOK,
      StoreTypeOK, LockRow
<1>4. runs' = [runs EXCEPT ![r].finished = run[d].finished, ![r].status = run[d].status]
  BY <1>2 DEF Release, ReleaseRunLock
<1>5. runs'[r] = [runs[r] EXCEPT !.finished = run[d].finished, !.status = run[d].status]
  BY <1>3, <1>4 DEF TypeOK, SchedulerTypeOK, StoreTypeOK, RunRow
<1>6. runs'[r] \in RunRow /\ runs'[r] # Null /\ runs'[r].status # "running"
  BY <1>2, <1>3, <1>5 DEF RunRow, RunCopy, Status
<1>7. \A s \in RunIds \ {r} : runs'[s] = runs[s]
  BY <1>4 DEF TypeOK, SchedulerTypeOK, StoreTypeOK
<1>8. TypeOK'
  BY <1>1, <1>2, <1>4, <1>6, <1>7
  DEF TypeOK, SchedulerTypeOK, StoreTypeOK, ClientsTypeOK, clientVars, Up, StoreCalls
<1> HIDE DEF p, r
<1>9. \A q \in Projects \ {p} : locks'[q] = locks[q] /\ (Locked(q) => locks[q].run # r)
  BY <1>1, <1>3 DEF LockedIffRunning, TypeOK, SchedulerTypeOK, StoreTypeOK
<1>10. locks'[p] = Null
  BY <1>1, <1>2 DEF TypeOK, SchedulerTypeOK, StoreTypeOK
<1>11. LockedIffRunning'
  <2>1. ASSUME NEW q \in Projects, Locked(q)'
        PROVE  q # p /\ Locked(q) /\ locks'[q] = locks[q] /\ runs'[locks[q].run] = runs[locks[q].run]
    BY <2>1, <1>7, <1>9, <1>10
    DEF Locked, TypeOK, SchedulerTypeOK, StoreTypeOK, LockRow
  <2>2. ASSUME NEW s \in RunIds, runs'[s] # Null, runs'[s].status = "running"
        PROVE  s # r /\ runs'[s] = runs[s] /\ runs[s].project # p
    BY <2>2, <1>3, <1>6, <1>7 DEF LockedIffRunning, Locked
  <2> QED
    BY <2>1, <2>2, <1>9
    DEF LockedIffRunning, Locked, TypeOK, SchedulerTypeOK, StoreTypeOK, RunRow
<1>12. \A e \in Daemons \ {d} : pc[e] \in Holding => run[e].id # r /\ ProjectOf[cur[e].id] # p
  BY <1>1, <1>2, <1>3 DEF HoldersDiffer, HolderHasLock, Holding, r
<1>13. CopiesInPlace' /\ HoldersDiffer'
  BY <1>1, <1>2 DEF CopiesInPlace, HoldersDiffer, Holding, TypeOK, SchedulerTypeOK
<1>14. HolderHasLock'
  BY <1>1, <1>9, <1>12
  DEF HolderHasLock, Holding, Locked, TypeOK, SchedulerTypeOK, CopiesInPlace, TaskCopy
<1>15. NoPids'
  BY <1>9, <1>10 DEF NoPids, PidLocks, Locked
<1>16. r \notin sessions
  BY <1>1 DEF SessionsOver, r
<1>17. SessionsRun' /\ SessionsOver'
  BY <1>1, <1>7, <1>16 DEF SessionsRun, SessionsOver, TypeOK, SchedulerTypeOK
<1> QED
  BY <1>8, <1>11, <1>13, <1>14, <1>15, <1>17

\* ScheduleTaskAfterRun: only the task row changes.
LEMMA ScheduleIInv ==
    ASSUME IInv, NEW d \in Daemons, Schedule(d), UNCHANGED clientVars
    PROVE  IInv'
<1> DEFINE t == cur[d].id
           fin == run[d].finished
           next == fin + cur[d].row.interval
<1> USE StoreAssumption DEF IInv
<1>1. t \in Tasks /\ fin \in Nat /\ next \in Nat
  <2>1. cur[d] \in TaskCopy /\ run[d] \in RunCopy /\ run[d].finished # Null
    BY DEF Schedule, CopiesInPlace, Holding, TypeOK, SchedulerTypeOK
  <2>2. t \in Tasks /\ fin \in Nat /\ cur[d].row.interval \in Nat
    BY <2>1 DEF TaskCopy, TaskRow, RunCopy
  <2> QED
    BY <2>2
<1>2. tasks' = [tasks EXCEPT ![t].last = fin, ![t].next = next] /\ tasks[t] # Null
  BY DEF Schedule, ScheduleTaskAfterRun
<1> HIDE DEF t, fin, next
<1>3. [tasks[t] EXCEPT !.last = fin, !.next = next] \in TaskRow
  <2>1. tasks[t] \in TaskRow
    BY <1>1, <1>2 DEF TypeOK, SchedulerTypeOK, StoreTypeOK
  <2> QED
    BY <1>1, <2>1, ScheduledRow
<1>4. tasks' = [tasks EXCEPT ![t] = [tasks[t] EXCEPT !.last = fin, !.next = next]]
  BY <1>1, <1>2 DEF TypeOK, SchedulerTypeOK, StoreTypeOK
<1>5. tasks' \in [Tasks -> TaskRow \cup {Null}]
  BY <1>1, <1>3, <1>4 DEF TypeOK, SchedulerTypeOK, StoreTypeOK
<1>6. TypeOK'
  BY <1>5
  DEF Schedule, ScheduleTaskAfterRun, EndTick, Forget, Goto, Up, StoreCalls, clientVars, counters,
      TypeOK, SchedulerTypeOK, StoreTypeOK, ClientsTypeOK
<1> QED
  BY <1>6, DaemonsStay
  DEF Schedule, ScheduleTaskAfterRun, EndTick, Forget, Goto, Holding, TypeOK, SchedulerTypeOK

\* A crash leaves the lock, the run and perhaps the session as they are.
LEMMA CrashIInv ==
    ASSUME IInv, NEW d \in Daemons, Crash(d), UNCHANGED clientVars
    PROVE  IInv'
<1> USE DEF Crash, Forget, Goto, tables
<1>1. TypeOK'
  BY DEF IInv, TypeOK, SchedulerTypeOK, StoreTypeOK, ClientsTypeOK, clientVars
<1> QED
  BY <1>1, DaemonsStay DEF Holding, IInv, TypeOK, SchedulerTypeOK

-----------------------------------------------------------------------------
(* The inductive step.                                                       *)

\* Every call of a daemon keeps the invariant,
LEMMA DaemonIInv ==
    ASSUME IInv, NEW d \in Daemons, DaemonStep(d), UNCHANGED clientVars
    PROVE  IInv'
BY LocalStepIInv, RecoverStaleIInv, AcquireIInv, FinishIInv, ReleaseIInv, ScheduleIInv
DEF DaemonStep

\* every failure, crash, signal and tick of the clock,
LEMMA EnvironmentIInv ==
    ASSUME IInv, Environment, UNCHANGED clientVars
    PROVE  IInv'
<1>1. CASE \E d \in Daemons : StoreError(d) \/ Restart(d)
  BY <1>1, LocalStepIInv
<1>2. CASE \E d \in Daemons : Crash(d)
  BY <1>2, CrashIInv
<1>3. ASSUME NEW d \in Daemons, Signal(d) PROVE IInv'
  BY <1>3, EverythingStays
  DEF Signal, IInv, TypeOK, SchedulerTypeOK, StoreTypeOK, ClientsTypeOK, clientVars, tables
<1>4. ASSUME NEW r \in RunIds, OrphanEnds(r) PROVE IInv'
  BY <1>4, EverythingStays
  DEF OrphanEnds, IInv, TypeOK, SchedulerTypeOK, StoreTypeOK, ClientsTypeOK, clientVars, tables,
      counters
<1>5. CASE AdvanceClock
  BY <1>5, EverythingStays
  DEF AdvanceClock, IInv, TypeOK, SchedulerTypeOK, StoreTypeOK, ClientsTypeOK, clientVars, tables,
      daemonVars, counters
<1> QED
  BY <1>1, <1>2, <1>3, <1>4, <1>5 DEF Environment

\* and every read and write of a client;
LEMMA ClientIInv ==
    ASSUME IInv, ClientStep, UNCHANGED daemonVars
    PROVE  IInv'
<1> USE StoreAssumption, ClientsAssumption
    DEF IInv, TypeOK, SchedulerTypeOK, StoreTypeOK, ClientsTypeOK, daemonVars, counters, tables
<1>1. ASSUME NEW c \in Clients, WriteTask(c) PROVE IInv'
  <2>1. copy[c] \in TaskCopy
    BY <1>1 DEF WriteTask
  <2>2. PICK row \in TaskRow : tasks' = [tasks EXCEPT ![copy[c].id] = row]
    BY <1>1, <2>1, PatchedRow DEF WriteTask, UpdateTask, TaskCopy
  <2>3. TypeOK'
    BY <1>1, <2>2 DEF WriteTask, UpdateTask
  <2> QED
    BY <1>1, <2>3, EverythingStays DEF WriteTask, UpdateTask
<1>2. ASSUME NEW c \in Clients, Abandon(c) PROVE IInv'
  BY <1>2, EverythingStays DEF Abandon
<1>3. ASSUME NEW c \in Clients, NEW t \in Editable, ReadTask(c, t) PROVE IInv'
  <2>1. [id |-> t, row |-> tasks[t]] \in TaskCopy
    BY <1>3 DEF ReadTask, TaskCopy
  <2> QED
    BY <1>3, <2>1, EverythingStays DEF ReadTask, CountEdit
<1>4. ASSUME NEW p \in Projects, PatchProject(p) PROVE IInv'
  <2>1. \A e \in BOOLEAN : [projects[p] EXCEPT !.enabled = e] \in ProjectRow
    BY <1>4 DEF PatchProject, ProjectRow
  <2> QED
    BY <1>4, <2>1, EverythingStays DEF PatchProject, UpdateProject, CountEdit
<1>5. ASSUME NEW p \in Projects, AddProject(p) PROVE IInv'
  BY <1>5, EverythingStays DEF AddProject, CreateProject, CountEdit
<1>6. ASSUME NEW t \in Tasks, AddTask(t) PROVE IInv'
  <2>1. NewTask \subseteq TaskRow
    BY DEF NewTask, TaskRow
  <2> QED
    BY <1>6, <2>1, EverythingStays DEF AddTask, CreateTask, CountEdit
<1> QED
  BY <1>1, <1>2, <1>3, <1>4, <1>5, <1>6 DEF ClientStep

\* so every step does.
LEMMA NextIInv == IInv /\ [Next]_vars => IInv'
<1> SUFFICES ASSUME IInv, [Next]_vars PROVE IInv'
  OBVIOUS
<1>1. CASE UNCHANGED vars
  BY <1>1, EverythingStays
  DEF vars, tables, daemonVars, counters, clientVars, IInv, TypeOK, SchedulerTypeOK, StoreTypeOK,
      ClientsTypeOK
<1> QED
  BY <1>1, DaemonIInv, EnvironmentIInv, ClientIInv DEF Next

\* IInv holds in every reachable state of every instance, whatever the bounds.
THEOREM Invariance == Spec => []IInv
BY InitIInv, NextIInv, PTL DEF Spec

-----------------------------------------------------------------------------
(* Invariants that follow from IInv.                                         *)

\* Every variable keeps its type.
THEOREM TypeCorrect == Spec => []TypeOK
BY Invariance, PTL DEF IInv

\* Locks and running runs are each other's image in every reachable state: no
\* interleaving of daemons, failed call or crash separates them.
THEOREM LocksAndRunsAgree == Spec => []LockedIffRunning
BY Invariance, PTL DEF IInv

\* Two live SSH sessions are never in one project, orphans of crashed daemons
\* included and however many daemons share the database.
THEOREM ProjectExclusion == Spec => []OneSessionPerProject
<1>1. IInv => OneSessionPerProject
  <2> SUFFICES ASSUME IInv, NEW r \in sessions, NEW s \in sessions
               PROVE  /\ runs[r] # Null /\ runs[s] # Null
                      /\ runs[r].project = runs[s].project => r = s
    BY DEF OneSessionPerProject
  <2>1. /\ r \in RunIds /\ runs[r] # Null /\ runs[r].status = "running"
        /\ s \in RunIds /\ runs[s] # Null /\ runs[s].status = "running"
    BY DEF IInv, SessionsRun, TypeOK, SchedulerTypeOK
  <2>2. locks[runs[r].project].run = r /\ locks[runs[s].project].run = s
    BY <2>1 DEF IInv, LockedIffRunning
  <2> QED
    BY <2>1, <2>2
<1> QED
  BY <1>1, Invariance, PTL

-----------------------------------------------------------------------------
(* What a step does to the lock and run tables.                              *)

\* Only the calls Acquire and Release change these tables.
LEMMA TablesStep ==
    ASSUME IInv, [Next]_vars
    PROVE  \/ UNCHANGED <<runs, locks>>
           \/ \E d \in Daemons : Acquire(d) \/ Release(d)
<1>1. CASE UNCHANGED vars
  BY <1>1 DEF vars, tables
<1>2. ASSUME NEW d \in Daemons, DaemonStep(d), ~Acquire(d), ~Release(d)
      PROVE  UNCHANGED <<runs, locks>>
  BY <1>2, RecoverStaleIdle
  DEF DaemonStep, BeginTick, Gate, ListDue, TryStart, AcquireRefused, Finish, Schedule, Exit,
      ScheduleTaskAfterRun, tables
<1>3. Environment => UNCHANGED <<runs, locks>>
  BY DEF Environment, StoreError, Signal, Crash, Restart, OrphanEnds, AdvanceClock, tables
<1>4. ClientStep => UNCHANGED <<runs, locks>>
  BY DEF ClientStep, WriteTask, Abandon, ReadTask, PatchProject, AddProject, AddTask, UpdateTask,
     UpdateProject, CreateProject, CreateTask, tables
<1> QED
  BY <1>1, <1>2, <1>3, <1>4 DEF Next

\* Acquire, seen in the tables: a fresh run appears and takes a free project.
LEMMA AcquireStarts ==
    ASSUME IInv, NEW d \in Daemons, Acquire(d)
    PROVE  /\ cur[d] \in TaskCopy /\ ProjectOf[cur[d].id] \in Projects
           /\ newID \in RunIds /\ runs[newID] = Null
           /\ ~Locked(ProjectOf[cur[d].id])
           /\ \E row \in RunRow : row.status = "running" /\ runs' = [runs EXCEPT ![newID] = row]
           /\ \E lock \in LockRow : /\ lock.run = newID
                                    /\ locks' = [locks EXCEPT ![ProjectOf[cur[d].id]] = lock]
<1>1. newID \in RunIds /\ runs[newID] = Null
  BY NewID DEF Acquire, AcquireRunLock
<1>2. /\ cur[d] \in TaskCopy /\ cur[d].id \in Tasks /\ ProjectOf[cur[d].id] \in Projects
      /\ now \in Nat
  BY StoreAssumption
  DEF Acquire, IInv, CopiesInPlace, TypeOK, SchedulerTypeOK, StoreTypeOK, TaskCopy
<1>3. /\ [task |-> cur[d].id, project |-> ProjectOf[cur[d].id], started |-> now,
          finished |-> Null, status |-> "running"] \in RunRow
      /\ [task |-> cur[d].id, run |-> newID, pid |-> Null] \in LockRow
  BY <1>1, <1>2 DEF RunRow, LockRow, Status
<1> QED
  BY <1>1, <1>2, <1>3 DEF Acquire, AcquireRunLock

\* Release, seen in the tables: the run that holds the project ends, and only it.
LEMMA ReleaseEnds ==
    ASSUME IInv, NEW d \in Daemons, Release(d)
    PROVE  LET p == ProjectOf[cur[d].id]
               r == run[d].id
           IN  /\ p \in Projects /\ Locked(p) /\ locks[p].run = r
               /\ locks' = [locks EXCEPT ![p] = Null]
               /\ r \in RunIds /\ runs[r] \in RunRow /\ runs[r].status = "running"
               /\ \E row \in RunRow : /\ row.status \in {"success", "error"}
                                      /\ runs' = [runs EXCEPT ![r] = row]
<1> DEFINE p == ProjectOf[cur[d].id]
           r == run[d].id
<1>1. /\ cur[d] \in TaskCopy /\ p \in Projects
      /\ run[d] \in RunCopy /\ run[d].finished # Null /\ run[d].status # "running"
  BY StoreAssumption
  DEF Release, IInv, CopiesInPlace, Holding, TypeOK, SchedulerTypeOK, TaskCopy
<1>2. /\ r \in RunIds /\ Locked(p) /\ locks[p].run = r
      /\ runs[r] \in RunRow /\ runs[r].status = "running"
  BY <1>1
  DEF Release, IInv, HolderHasLock, LockedIffRunning, Holding, Locked, RunCopy, TypeOK,
      SchedulerTypeOK, StoreTypeOK, LockRow
<1>3. runs' = [runs EXCEPT ![r].finished = run[d].finished, ![r].status = run[d].status]
  BY <1>1 DEF Release, ReleaseRunLock
<1> DEFINE row == [runs[r] EXCEPT !.finished = run[d].finished, !.status = run[d].status]
<1>4. row \in RunRow /\ row.status \in {"success", "error"}
  BY <1>1, <1>2 DEF RunRow, RunCopy, Status
<1>5. runs' = [runs EXCEPT ![r] = row]
  BY <1>2, <1>3 DEF IInv, TypeOK, SchedulerTypeOK, StoreTypeOK
<1>6. locks' = [locks EXCEPT ![p] = Null]
  BY DEF Release, ReleaseRunLock
<1> QED
  BY <1>1, <1>2, <1>4, <1>5, <1>6

\* A finished run is never rewritten: not by a late release, not by recovery.
THEOREM FinishedIsFinal == Spec => FinishedRunsAreFinal
<1>1. ASSUME IInv, [Next]_vars, NEW r \in RunIds, runs[r] # Null, runs[r].status # "running"
      PROVE  runs'[r] = runs[r]
  <2>1. CASE UNCHANGED <<runs, locks>>
    BY <2>1
  <2>2. ASSUME NEW d \in Daemons, Acquire(d) PROVE runs'[r] = runs[r]
    BY <1>1, <2>2, AcquireStarts DEF IInv, TypeOK, SchedulerTypeOK, StoreTypeOK
  <2>3. ASSUME NEW d \in Daemons, Release(d) PROVE runs'[r] = runs[r]
    BY <1>1, <2>3, ReleaseEnds DEF IInv, TypeOK, SchedulerTypeOK, StoreTypeOK
  <2> QED
    BY <1>1, <2>1, <2>2, <2>3, TablesStep
<1>2. IInv /\ [Next]_vars =>
        [\A r \in RunIds : runs[r] # Null /\ runs[r].status # "running" => runs'[r] = runs[r]]_vars
  BY <1>1
<1> QED
  BY <1>2, Invariance, PTL DEF Spec, FinishedRunsAreFinal

-----------------------------------------------------------------------------
(* Refinement.                                                               *)

\* The tables implement the abstract project lock: every step of the system is a
\* run starting on a free project, the end of the run that holds one, or neither.
THEOREM LockRefinement == Spec => ImplementsRunLock
<1>1. Init => RL!Init
  BY DEF Init, SchedulerInit, StoreInit, RL!Init, Holder, Result, Locked
<1>2. ASSUME IInv, [Next]_vars PROVE [RL!Next]_RL!vars
  <2> USE StoreAssumption DEF IInv, TypeOK, SchedulerTypeOK, StoreTypeOK
  <2>1. CASE UNCHANGED <<runs, locks>>
    BY <2>1 DEF RL!vars, Holder, Result, Locked
  <2>2. ASSUME NEW d \in Daemons, Acquire(d)
        PROVE  RL!Start(ProjectOf[cur[d].id], newID)
    <3> DEFINE p == ProjectOf[cur[d].id]
    <3>1. PICK row \in RunRow, lock \in LockRow :
            /\ row.status = "running" /\ runs' = [runs EXCEPT ![newID] = row]
            /\ lock.run = newID /\ locks' = [locks EXCEPT ![p] = lock]
      BY <1>2, <2>2, AcquireStarts
    <3>2. newID \in RunIds /\ runs[newID] = Null /\ p \in Projects /\ ~Locked(p)
      BY <1>2, <2>2, AcquireStarts
    <3> HIDE DEF p
    <3>3. Holder' = [Holder EXCEPT ![p] = newID]
      BY <1>2, <3>1, <3>2 DEF Holder, Locked
    <3>4. Result' = [Result EXCEPT ![newID] = "running"]
      BY <1>2, <3>1, <3>2 DEF Result
    <3>5. Holder[p] = Null /\ Result[newID] = Null
      BY <3>2 DEF Holder, Result
    <3> QED
      BY <3>3, <3>4, <3>5 DEF RL!Start, p
  <2>3. ASSUME NEW d \in Daemons, Release(d)
        PROVE  \E outcome \in RL!Outcome : RL!End(ProjectOf[cur[d].id], outcome)
    <3> DEFINE p == ProjectOf[cur[d].id]
               r == run[d].id
    <3>1. /\ p \in Projects /\ Locked(p) /\ locks[p].run = r /\ r \in RunIds
          /\ runs[r] \in RunRow
          /\ locks' = [locks EXCEPT ![p] = Null]
      BY <1>2, <2>3, ReleaseEnds
    <3>2. PICK row \in RunRow :
            row.status \in {"success", "error"} /\ runs' = [runs EXCEPT ![r] = row]
      BY <1>2, <2>3, ReleaseEnds
    <3> HIDE DEF p, r
    <3>3. Holder' = [Holder EXCEPT ![p] = Null]
      BY <1>2, <3>1 DEF Holder, Locked
    <3>4. Result' = [Result EXCEPT ![r] = row.status]
      BY <1>2, <3>1, <3>2 DEF Result
    <3>5. Holder[p] = r /\ r # Null
      BY <3>1 DEF Holder
    <3> QED
      BY <3>2, <3>3, <3>4, <3>5 DEF RL!End, RL!Outcome, p
  <2>4. ASSUME NEW d \in Daemons, Acquire(d) \/ Release(d) PROVE RL!Next
    BY <1>2, <2>2, <2>3, <2>4, AcquireStarts, ReleaseEnds DEF RL!Next
  <2> QED
    BY <1>2, <2>1, <2>4, TablesStep
<1> QED
  BY <1>1, <1>2, Invariance, PTL DEF Spec, ImplementsRunLock, RL!Spec

-----------------------------------------------------------------------------
(* Without a failure, a lock is always in somebody's hands.                  *)

\* Without failed calls and crashes no step leaves a lock behind.
LEMMA NoLeakStep ==
    ASSUME IInv, NoLeakedLock, [Next]_vars
    PROVE  NoLeakedLock'
<1> USE DEF IInv, TypeOK, SchedulerTypeOK, StoreTypeOK
<1> SUFFICES ASSUME (faults + crashes = 0)', NEW p \in Projects, Locked(p)'
             PROVE  \E d \in Daemons : HeldBy(d, p)'
  BY DEF NoLeakedLock
<1>1. CASE UNCHANGED vars
  BY <1>1 DEF vars, tables, daemonVars, counters, NoLeakedLock, HeldBy, Locked
<1>2. ASSUME NEW d \in Daemons, DaemonStep(d) PROVE \E e \in Daemons : HeldBy(e, p)'
  <2>1. faults + crashes = 0
    BY <1>2
    DEF DaemonStep, BeginTick, RecoverStale, Gate, ListDue, TryStart, AcquireRefused, Acquire,
        Finish, Release, Schedule, Exit, counters
  <2>2. CASE Acquire(d)
    <3>1. CASE p = ProjectOf[cur[d].id]
      <4>1. run'[d].id = newID /\ locks'[p].run = newID /\ pc'[d] = "exec"
        BY <2>2, <3>1 DEF Acquire, AcquireRunLock, Goto
      <4> QED
        BY <4>1 DEF HeldBy
    <3>2. CASE p # ProjectOf[cur[d].id]
      <4>1. locks'[p] = locks[p] /\ Locked(p)
        BY <2>2, <3>2 DEF Acquire, AcquireRunLock, Locked
      <4>2. PICK e \in Daemons : HeldBy(e, p)
        BY <2>1, <4>1 DEF NoLeakedLock
      <4>3. e # d /\ pc'[e] = pc[e] /\ run'[e] = run[e]
        BY <2>2, <4>2 DEF Acquire, HeldBy, Goto
      <4> QED
        BY <4>1, <4>2, <4>3 DEF HeldBy
    <3> QED
      BY <3>1, <3>2
  <2>3. CASE Release(d)
    <3>1. /\ p # ProjectOf[cur[d].id] /\ locks'[p] = locks[p] /\ Locked(p)
          /\ locks[ProjectOf[cur[d].id]].run = run[d].id
          /\ Locked(ProjectOf[cur[d].id]) /\ ProjectOf[cur[d].id] \in Projects
      BY <2>3, ReleaseEnds DEF Locked
    <3>2. locks[p].run # run[d].id
      BY <3>1 DEF LockedIffRunning
    <3>3. PICK e \in Daemons : HeldBy(e, p)
      BY <2>1, <3>1 DEF NoLeakedLock
    <3>4. e # d /\ pc'[e] = pc[e] /\ run'[e] = run[e]
      BY <2>3, <3>2, <3>3 DEF Release, HeldBy, Goto
    <3> QED
      BY <3>1, <3>3, <3>4 DEF HeldBy
  <2>4. CASE ~Acquire(d) /\ ~Release(d)
    <3>1. locks' = locks
      BY <1>2, <2>4, RecoverStaleIdle
      DEF DaemonStep, BeginTick, Gate, ListDue, TryStart, AcquireRefused, Finish, Schedule, Exit,
          ScheduleTaskAfterRun, tables
    <3>2. PICK e \in Daemons : HeldBy(e, p)
      BY <2>1, <3>1 DEF NoLeakedLock, Locked
    <3>3. CASE Finish(d)
      <4>1. run'[e].id = run[e].id /\ pc'[e] \in {"exec", "release"}
        BY <3>2, <3>3 DEF Finish, HeldBy, Goto, RunCopy, CopiesInPlace, Holding
      <4> QED
        BY <3>1, <3>2, <4>1 DEF HeldBy
    <3>4. CASE ~Finish(d)
      <4>1. pc[d] \notin Holding
        BY <1>2, <2>4, <3>4
        DEF DaemonStep, BeginTick, RecoverStale, Gate, ListDue, TryStart, AcquireRefused, Schedule,
            Exit, Holding
      <4>2. pc'[e] = pc[e] /\ run'[e] = run[e]
        BY <1>2, <2>4, <3>2, <3>4, <4>1
        DEF DaemonStep, BeginTick, RecoverStale, Gate, ListDue, TryStart, AcquireRefused, Schedule,
            Exit, HeldBy, Holding, Goto, EndTick, Forget, NextDue
      <4> QED
        BY <3>1, <3>2, <4>2 DEF HeldBy
    <3> QED
      BY <3>3, <3>4
  <2> QED
    BY <2>2, <2>3, <2>4
<1>3. CASE Environment
  <2>1. locks' = locks
    BY <1>3
    DEF Environment, StoreError, Signal, Crash, Restart, OrphanEnds, AdvanceClock, tables
  <2>2. faults + crashes = 0 /\ ~(\E d \in Daemons : StoreError(d) \/ Crash(d))
    BY <1>3
    DEF Environment, StoreError, Signal, Crash, Restart, OrphanEnds, AdvanceClock, daemonVars, counters
  <2>3. PICK e \in Daemons : HeldBy(e, p)
    BY <2>1, <2>2 DEF NoLeakedLock, Locked
  <2>4. pc'[e] = pc[e] /\ run'[e] = run[e]
    BY <1>3, <2>2, <2>3
    DEF Environment, Signal, Restart, OrphanEnds, AdvanceClock, HeldBy, Goto, daemonVars
  <2> QED
    BY <2>1, <2>3, <2>4 DEF HeldBy
<1>4. CASE ClientStep /\ UNCHANGED daemonVars
  <2>1. locks' = locks
    BY <1>4
    DEF ClientStep, WriteTask, Abandon, ReadTask, PatchProject, AddProject, AddTask, UpdateTask,
        UpdateProject, CreateProject, CreateTask, tables
  <2> QED
    BY <1>4, <2>1 DEF NoLeakedLock, Locked, HeldBy, daemonVars, counters
<1> QED
  BY <1>1, <1>2, <1>3, <1>4 DEF Next

\* As long as no call fails and no daemon is killed, every lock is held by a daemon
\* that is executing or releasing its run: refused tries, failed runs, disabled
\* projects and SIGTERM leave none behind.
THEOREM NoLeak == Spec => []NoLeakedLock
<1>1. Init => NoLeakedLock
  BY DEF Init, SchedulerInit, StoreInit, NoLeakedLock, Locked
<1> QED
  BY <1>1, NoLeakStep, Invariance, PTL DEF Spec

-----------------------------------------------------------------------------
(* One daemon.                                                               *)

\* What HasAnyLock has told a daemon is still true when it calls Acquire, if there
\* is no other daemon to take a lock meanwhile.
GateHolds ==
    \A d \in Daemons : pc[d] \in {"list", "try", "acquire"} => ~HasAnyLock

\* The only daemon acquires after its own gate, and nobody else does.
LEMMA SingleRunStep ==
    ASSUME NEW d \in Daemons, Daemons = {d}, IInv, GateHolds, SingleRun, [Next]_vars
    PROVE  GateHolds' /\ SingleRun'
<1> USE DEF IInv, TypeOK, SchedulerTypeOK, StoreTypeOK, GateHolds, SingleRun, HasAnyLock, Locked
<1>1. CASE UNCHANGED <<runs, locks>>
  <2>1. pc'[d] \in {"list", "try", "acquire"} =>
          pc[d] \in {"list", "try", "acquire"} \/ ~HasAnyLock
    <3>1. CASE DaemonStep(d)
      BY <3>1
      DEF DaemonStep, BeginTick, RecoverStale, Gate, ListDue, TryStart, AcquireRefused, Acquire,
          Finish, Release, Schedule, Exit, Goto, EndTick, NextDue
    <3>2. CASE Environment
      BY <3>2
      DEF Environment, StoreError, Signal, Crash, Restart, OrphanEnds, AdvanceClock, Goto, EndTick,
          daemonVars
    <3>3. CASE ClientStep /\ UNCHANGED daemonVars
      BY <3>3 DEF daemonVars
    <3>4. CASE UNCHANGED vars
      BY <3>4 DEF vars, daemonVars
    <3> QED
      BY <3>1, <3>2, <3>3, <3>4 DEF Next
  <2> QED
    BY <1>1, <2>1
<1>2. CASE Acquire(d)
  BY <1>2, AcquireStarts DEF Acquire, Goto
<1>3. CASE Release(d)
  BY <1>3, ReleaseEnds DEF Release, Goto
<1> QED
  BY <1>1, <1>2, <1>3, TablesStep

\* With one daemon, one run at a time in the whole system.
THEOREM OneRunGlobally ==
    ASSUME NEW d \in Daemons, Daemons = {d}
    PROVE  Spec => []SingleRun
<1>1. Init => GateHolds /\ SingleRun
  BY DEF Init, SchedulerInit, StoreInit, GateHolds, SingleRun, Locked
<1>2. GateHolds /\ SingleRun /\ IInv /\ [Next]_vars => GateHolds' /\ SingleRun'
  BY SingleRunStep
<1> QED
  BY <1>1, <1>2, Invariance, PTL DEF Spec

=============================================================================
