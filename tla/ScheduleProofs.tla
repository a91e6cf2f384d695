---------------------------- MODULE ScheduleProofs ----------------------------
(***************************************************************************)
(* What MasterAgent's task rows say of the runs, and when a task may run   *)
(* again: for every set of projects, tasks and clients, any number of      *)
(* edits and signals, with the one daemon that the deployment has and no   *)
(* failure or crash between a run's end and its schedule.  With either,    *)
(* the two properties do not hold.                                         *)
(***************************************************************************)
EXTENDS MasterAgentProofs

\* The instances these theorems are about.
OneDaemonNoFailure(d) == Daemons = {d} /\ MaxFaults = 0 /\ MaxCrashes = 0

NoFailureYet == faults = 0 /\ crashes = 0

\* A copy of a task that nobody edits is the row as it is, due when it was read and since.
IsFresh(s) ==
    /\ tasks[s.id] # Null
    /\ s.id \notin Editable =>
         /\ tasks[s.id] = s.row
         /\ s.row.next = Null \/ s.row.next <= now

CopiesAreFresh ==
    \A d \in Daemons : /\ \A s \in due[d] : IsFresh(s)
                       /\ cur[d] # Null => IsFresh(cur[d])

\* Only editable tasks are edited.
ClientsEdit == \A c \in Clients : copy[c] # Null => copy[c].id \in Editable

\* A run is one of a task that is there, and ended before now.
RunsAreOfTasks ==
    \A r \in RunIds : runs[r] # Null =>
        /\ tasks[runs[r].task] # Null
        /\ runs[r].finished # Null => runs[r].finished <= now

\* The run a daemon holds is one of the task it works on.
HoldsRunOfTask ==
    \A d \in Daemons : pc[d] \in Holding => runs[run[d].id].task = cur[d].id

\* The end that a daemon is about to write is the latest of all.
LatestEnd ==
    \A d \in Daemons : pc[d] \in {"release", "schedule"} =>
        /\ run[d].finished <= now
        /\ \A r \in RunIds : runs[r] # Null /\ runs[r].finished # Null =>
             runs[r].finished <= run[d].finished

SInv ==
    /\ NoFailureYet
    /\ CopiesAreFresh
    /\ ClientsEdit
    /\ RunsAreOfTasks
    /\ HoldsRunOfTask
    /\ LatestEnd
    /\ ScheduleFollowsRuns

\* Before the first run there is nothing to disagree about.
LEMMA InitSInv == Init => SInv
BY DEF Init, SchedulerInit, StoreInit, ClientsInit, SInv, NoFailureYet, CopiesAreFresh, ClientsEdit,
       RunsAreOfTasks, HoldsRunOfTask, Holding, LatestEnd, ScheduleFollowsRuns

-----------------------------------------------------------------------------
(* Steps that leave tasks and runs alone.                                    *)

\* A daemon forgets copies or goes on with those it has; a run it has ended it still holds.
LEMMA QuietStep ==
    ASSUME NEW d \in Daemons, Daemons = {d}, IInv, SInv,
           UNCHANGED <<tasks, runs, faults, crashes>>, now' \in Nat, now <= now',
           due'[d] \subseteq due[d], cur'[d] \in {Null, cur[d]} \cup due[d],
           pc'[d] \in Holding \cup {"schedule"} =>
             pc'[d] = pc[d] /\ cur'[d] = cur[d] /\ run'[d] = run[d],
           pc[d] = "schedule" => pc'[d] = "schedule",
           ClientsEdit'
    PROVE  SInv'
<1> USE DEF SInv, IInv, TypeOK, SchedulerTypeOK, StoreTypeOK
<1>1. ASSUME NEW s \in TaskCopy, IsFresh(s) PROVE IsFresh(s)'
  <2>1. s.row.next \in Nat \cup {Null} /\ s.row = s.row
    BY DEF TaskCopy, TaskRow
  <2> QED
    BY <1>1, <2>1 DEF IsFresh
<1>2. CopiesAreFresh'
  <2>1. \A s \in due'[d] : IsFresh(s)'
    BY <1>1 DEF CopiesAreFresh
  <2>2. cur'[d] # Null => IsFresh(cur[d])'
    <3> SUFFICES ASSUME cur'[d] # Null PROVE IsFresh(cur[d])'
      OBVIOUS
    <3>1. PICK s \in TaskCopy : s = cur'[d] /\ IsFresh(s)
      BY DEF CopiesAreFresh
    <3>2. IsFresh(s)'
      BY <1>1, <3>1
    <3> QED
      BY <3>1, <3>2 DEF IsFresh
  <2> QED
    BY <2>1, <2>2 DEF CopiesAreFresh
<1>3. RunsAreOfTasks'
  <2>1. \A r \in RunIds : runs[r] # Null => runs[r].finished \in Nat \cup {Null}
    BY DEF RunRow
  <2> QED
    BY <2>1 DEF RunsAreOfTasks
<1>4. HoldsRunOfTask'
  BY DEF HoldsRunOfTask
<1>5. LatestEnd'
  <2>1. pc'[d] \in {"release", "schedule"} =>
          run[d].finished \in Nat /\ pc[d] \in {"release", "schedule"} /\ run'[d] = run[d]
    BY DEF CopiesInPlace, Holding, RunCopy
  <2> QED
    BY <2>1 DEF LatestEnd
<1>6. ScheduleFollowsRuns'
  BY DEF ScheduleFollowsRuns, Holding
<1> QED
  BY <1>2, <1>3, <1>4, <1>5, <1>6 DEF NoFailureYet

\* Steps that change no row of a task or run and read none into a list.
LEMMA LocalStep ==
    ASSUME NEW d \in Daemons, Daemons = {d}, IInv, SInv, UNCHANGED clientVars,
           \/ BeginTick(d) \/ RecoverStale(d) \/ Gate(d) \/ TryStart(d) \/ AcquireRefused(d)
           \/ Exit(d) \/ Restart(d) \/ Signal(d) \/ (\E r \in RunIds : OrphanEnds(r)) \/ AdvanceClock
    PROVE  SInv'
<1> USE DEF IInv, TypeOK, SchedulerTypeOK, StoreTypeOK, clientVars, tables, counters, Goto, Forget,
            EndTick, NextDue, Holding
<1>1. ClientsEdit'
  BY DEF SInv, ClientsEdit
<1>2. CASE BeginTick(d) \/ Gate(d) \/ Exit(d) \/ Restart(d)
  BY <1>1, <1>2, QuietStep DEF BeginTick, Gate, Exit, Restart
<1>3. CASE RecoverStale(d)
  <2>1. UNCHANGED <<now, tasks, runs, due, cur, run, faults, crashes>> /\ pc[d] = "recover"
    BY <1>3, RecoverStaleIdle DEF RecoverStale
  <2>2. pc'[d] = "gate"
    BY <1>3, RecoverStaleIdle
  <2> QED
    BY <1>1, <2>1, <2>2, QuietStep
<1>4. CASE TryStart(d)
  BY <1>1, <1>4, QuietStep DEF TryStart
<1>5. CASE AcquireRefused(d)
  BY <1>1, <1>5, QuietStep DEF AcquireRefused
<1>6. CASE Signal(d) \/ (\E r \in RunIds : OrphanEnds(r)) \/ AdvanceClock
  BY <1>1, <1>6, QuietStep DEF Signal, OrphanEnds, AdvanceClock, daemonVars
<1> QED
  BY <1>2, <1>3, <1>4, <1>5, <1>6

\* What is listed is read as it is, and is due.
LEMMA ListStep ==
    ASSUME NEW d \in Daemons, Daemons = {d}, IInv, SInv, UNCHANGED clientVars, ListDue(d)
    PROVE  SInv'
<1> USE DEF SInv, IInv, TypeOK, SchedulerTypeOK, StoreTypeOK
<1>1. /\ UNCHANGED <<now, tasks, runs, faults, crashes, copy>>
      /\ due'[d] \in {{}, ListDueTasks} /\ cur'[d] = Null /\ pc'[d] \in {"idle", "try"}
      /\ pc[d] = "list"
  BY DEF ListDue, tables, counters, clientVars, Goto, Forget, EndTick, NextDue
<1>2. \A s \in ListDueTasks : IsFresh(s)
  BY DEF ListDueTasks, Due, Enabled, IsFresh
<1>3. \A s : IsFresh(s) => IsFresh(s)'
  BY <1>1 DEF IsFresh
<1>4. CopiesAreFresh'
  BY <1>1, <1>2, <1>3 DEF CopiesAreFresh
<1> QED
  BY <1>1, <1>4
  DEF NoFailureYet, ClientsEdit, RunsAreOfTasks, HoldsRunOfTask, Holding, LatestEnd, ScheduleFollowsRuns

\* The end of the run in hand is now, and every other run has ended before.
LEMMA FinishStep ==
    ASSUME NEW d \in Daemons, Daemons = {d}, IInv, SInv, UNCHANGED clientVars, Finish(d)
    PROVE  SInv'
<1> USE DEF SInv, IInv, TypeOK, SchedulerTypeOK, StoreTypeOK
<1>1. /\ UNCHANGED <<now, tasks, runs, due, cur, faults, crashes, copy>>
      /\ pc[d] = "exec" /\ pc'[d] = "release"
  BY DEF Finish, tables, counters, clientVars, Goto
<1>2. run'[d].finished = now /\ run'[d].id = run[d].id
  BY <1>1 DEF Finish, CopiesInPlace, Holding, RunCopy
<1>3. CopiesAreFresh' /\ HoldsRunOfTask'
  BY <1>1, <1>2 DEF CopiesAreFresh, IsFresh, HoldsRunOfTask, Holding
<1>4. LatestEnd'
  BY <1>1, <1>2 DEF LatestEnd, RunsAreOfTasks
<1> QED
  BY <1>1, <1>3, <1>4 DEF NoFailureYet, ClientsEdit, RunsAreOfTasks, ScheduleFollowsRuns

-----------------------------------------------------------------------------
(* Steps on tasks and runs.                                                  *)

\* Acquire, seen in the runs: a new run of the daemon's task.
LEMMA AcquireRuns ==
    ASSUME NEW d \in Daemons, IInv, Acquire(d)
    PROVE  /\ cur[d] \in TaskCopy /\ newID \in RunIds /\ runs[newID] = Null /\ pc[d] = "acquire"
           /\ runs'[newID].task = cur[d].id /\ runs'[newID].finished = Null
           /\ \A r \in RunIds \ {newID} : runs'[r] = runs[r]
           /\ pc'[d] = "exec" /\ run'[d].id = newID
           /\ UNCHANGED <<now, tasks, due, cur, faults, crashes>>
<1>1. newID \in RunIds /\ runs[newID] = Null
  BY NewID DEF Acquire, AcquireRunLock
<1>2. cur[d] \in TaskCopy
  BY DEF Acquire, IInv, CopiesInPlace, TypeOK, SchedulerTypeOK
<1> QED
  BY <1>1, <1>2 DEF Acquire, AcquireRunLock, Goto, counters, IInv, TypeOK, SchedulerTypeOK, StoreTypeOK

\* Acquire: the new run is of the task being tried, and is its latest.
LEMMA AcquireStep ==
    ASSUME NEW d \in Daemons, Daemons = {d}, IInv, SInv, UNCHANGED clientVars, Acquire(d)
    PROVE  SInv'
<1> USE DEF SInv
<1>1. /\ cur[d] \in TaskCopy /\ newID \in RunIds /\ runs[newID] = Null /\ pc[d] = "acquire"
      /\ runs'[newID].task = cur[d].id /\ runs'[newID].finished = Null
      /\ \A r \in RunIds \ {newID} : runs'[r] = runs[r]
      /\ pc'[d] = "exec" /\ run'[d].id = newID
      /\ UNCHANGED <<now, tasks, due, cur, faults, crashes>>
  BY AcquireRuns
<1>2. copy' = copy /\ cur[d] # Null
  BY <1>1, StoreAssumption DEF clientVars
<1>3. CopiesAreFresh' /\ ClientsEdit' /\ NoFailureYet'
  BY <1>1, <1>2 DEF CopiesAreFresh, IsFresh, ClientsEdit, NoFailureYet
<1>4. RunsAreOfTasks'
  BY <1>1, <1>2 DEF RunsAreOfTasks, CopiesAreFresh, IsFresh
<1>5. HoldsRunOfTask' /\ LatestEnd'
  BY <1>1 DEF HoldsRunOfTask, LatestEnd
<1>6. ScheduleFollowsRuns'
  BY <1>1 DEF ScheduleFollowsRuns
<1> QED
  BY <1>3, <1>4, <1>5, <1>6

\* Release, seen in the runs: the run in hand gets the end that was taken when it ended.
LEMMA ReleaseRuns ==
    ASSUME NEW d \in Daemons, IInv, Release(d)
    PROVE  /\ run[d] \in RunCopy /\ run[d].finished \in Nat
           /\ run[d].id \in RunIds /\ runs[run[d].id] # Null
           /\ runs'[run[d].id].task = runs[run[d].id].task
           /\ runs'[run[d].id].finished = run[d].finished
           /\ \A r \in RunIds \ {run[d].id} : runs'[r] = runs[r]
           /\ pc[d] = "release" /\ pc'[d] = "schedule"
           /\ UNCHANGED <<now, tasks, due, cur, run, faults, crashes>>
<1>1. run[d] \in RunCopy /\ run[d].finished \in Nat /\ run[d].id \in RunIds
  BY DEF Release, IInv, CopiesInPlace, Holding, TypeOK, SchedulerTypeOK, RunCopy
<1>2. runs[run[d].id] # Null /\ runs[run[d].id] \in RunRow
  BY <1>1 DEF Release, ReleaseRunLock, IInv, TypeOK, SchedulerTypeOK, StoreTypeOK
<1>3. runs' = [runs EXCEPT ![run[d].id].finished = run[d].finished, ![run[d].id].status = run[d].status]
  BY <1>1, StoreAssumption DEF Release, ReleaseRunLock
<1>4. runs'[run[d].id] = [runs[run[d].id] EXCEPT !.finished = run[d].finished, !.status = run[d].status]
  BY <1>1, <1>2, <1>3 DEF IInv, TypeOK, SchedulerTypeOK, StoreTypeOK, RunRow
<1>5. \A r \in RunIds \ {run[d].id} : runs'[r] = runs[r]
  BY <1>1, <1>3 DEF IInv, TypeOK, SchedulerTypeOK, StoreTypeOK
<1>6. /\ runs'[run[d].id].task = runs[run[d].id].task
      /\ runs'[run[d].id].finished = run[d].finished
  BY <1>2, <1>4 DEF RunRow
<1>7. /\ pc[d] = "release" /\ pc'[d] = "schedule"
      /\ UNCHANGED <<now, tasks, due, cur, run, faults, crashes>>
  BY DEF Release, ReleaseRunLock, Goto, counters, IInv, TypeOK, SchedulerTypeOK
<1> QED
  BY <1>1, <1>2, <1>5, <1>6, <1>7

\* Release: the run ends now; its task is scheduled next.
LEMMA ReleaseStep ==
    ASSUME NEW d \in Daemons, Daemons = {d}, IInv, SInv, UNCHANGED clientVars, Release(d)
    PROVE  SInv'
<1> DEFINE id == run[d].id
<1> USE DEF SInv
<1>1. /\ run[d].finished \in Nat /\ id \in RunIds /\ runs[id] # Null
      /\ runs'[id].task = runs[id].task /\ runs'[id].finished = run[d].finished
      /\ \A r \in RunIds \ {id} : runs'[r] = runs[r]
      /\ pc[d] = "release" /\ pc'[d] = "schedule"
      /\ UNCHANGED <<now, tasks, due, cur, run, faults, crashes>>
  BY ReleaseRuns
<1> HIDE DEF id
<1>2. copy' = copy
  BY DEF clientVars
<1>3. runs[id].task = cur[d].id
  BY <1>1 DEF HoldsRunOfTask, Holding, id
<1>4. CopiesAreFresh' /\ ClientsEdit' /\ NoFailureYet'
  BY <1>1, <1>2 DEF CopiesAreFresh, IsFresh, ClientsEdit, NoFailureYet
<1>5. LatestEnd'
  <2>1. run'[d].finished <= now'
    BY <1>1 DEF LatestEnd
  <2>2. ASSUME NEW r \in RunIds, runs'[r] # Null, runs'[r].finished # Null
        PROVE  runs'[r].finished <= run'[d].finished
    <3>1. CASE r = id
      BY <1>1, <3>1
    <3>2. CASE r # id
      BY <1>1, <2>2, <3>2 DEF LatestEnd
    <3> QED
      BY <3>1, <3>2
  <2> QED
    BY <2>1, <2>2 DEF LatestEnd
<1>6. RunsAreOfTasks'
  <2> SUFFICES ASSUME NEW r \in RunIds, runs'[r] # Null
               PROVE  tasks[runs'[r].task] # Null /\ (runs'[r].finished # Null => runs'[r].finished <= now)
    BY <1>1 DEF RunsAreOfTasks
  <2>1. CASE r = id
    BY <1>1, <2>1 DEF RunsAreOfTasks, LatestEnd
  <2>2. CASE r # id
    BY <1>1, <2>2 DEF RunsAreOfTasks
  <2> QED
    BY <2>1, <2>2
<1>7. HoldsRunOfTask'
  BY <1>1 DEF HoldsRunOfTask, Holding
<1>8. ScheduleFollowsRuns'
  <2> SUFFICES ASSUME NEW t \in Tasks \ Editable, NEW r \in RunIds,
                      runs'[r] # Null, runs'[r].task = t, runs'[r].finished # Null, cur[d].id # t
               PROVE  /\ tasks[t].last # Null /\ tasks[t].last >= runs'[r].finished
                      /\ tasks[t].next = tasks[t].last + tasks[t].interval
    BY <1>1 DEF ScheduleFollowsRuns
  <2>1. r # id
    BY <1>1, <1>3
  <2> QED
    BY <1>1, <2>1 DEF ScheduleFollowsRuns
<1> QED
  BY <1>4, <1>5, <1>6, <1>7, <1>8

\* The row gets the latest end, and its own interval after it: the copy was fresh.
LEMMA ScheduleStep ==
    ASSUME NEW d \in Daemons, Daemons = {d}, IInv, SInv, UNCHANGED clientVars, Schedule(d)
    PROVE  SInv'
<1> DEFINE t == cur[d].id
           fin == run[d].finished
           next == fin + cur[d].row.interval
<1> USE DEF SInv
<1>1. /\ cur[d] \in TaskCopy /\ cur[d] # Null /\ t \in Tasks /\ fin \in Nat
      /\ cur[d].row.interval \in Nat /\ next \in Nat
  <2>1. cur[d] \in TaskCopy /\ cur[d] # Null /\ run[d] \in RunCopy /\ run[d].finished # Null
    BY DEF Schedule, IInv, CopiesInPlace, TypeOK, SchedulerTypeOK
  <2>2. t \in Tasks /\ fin \in Nat /\ cur[d].row.interval \in Nat
    BY <2>1, StoreAssumption DEF TaskCopy, TaskRow, RunCopy
  <2> QED
    BY <2>1, <2>2
<1>2. /\ pc[d] = "schedule" /\ tasks[t] # Null
      /\ tasks' = [tasks EXCEPT ![t].last = fin, ![t].next = next]
      /\ UNCHANGED <<now, runs, faults, crashes, copy>>
      /\ due'[d] = {} /\ cur'[d] = Null /\ pc'[d] = "idle"
  BY DEF Schedule, ScheduleTaskAfterRun, EndTick, Forget, Goto, counters, clientVars, IInv, TypeOK,
         SchedulerTypeOK
<1> HIDE DEF t, fin, next
<1>3. /\ tasks'[t] = [tasks[t] EXCEPT !.last = fin, !.next = next]
      /\ \A u \in Tasks \ {t} : tasks'[u] = tasks[u]
  BY <1>1, <1>2 DEF IInv, TypeOK, SchedulerTypeOK, StoreTypeOK
<1>4. /\ tasks[t] \in TaskRow /\ tasks'[t] # Null
      /\ tasks'[t].last = fin /\ tasks'[t].next = next /\ tasks'[t].interval = tasks[t].interval
  <2>1. tasks[t] \in TaskRow
    BY <1>1, <1>2 DEF IInv, TypeOK, SchedulerTypeOK, StoreTypeOK
  <2>2. tasks'[t] \in TaskRow
    <3> HIDE DEF SInv
    <3>1. [tasks[t] EXCEPT !.last = fin, !.next = next] \in TaskRow
      BY <1>1, <2>1, ScheduledRow
    <3> QED
      BY <1>3, <3>1
  <2> QED
    BY <1>3, <2>1, <2>2, StoreAssumption DEF TaskRow
<1>5. CopiesAreFresh' /\ ClientsEdit' /\ NoFailureYet' /\ HoldsRunOfTask' /\ LatestEnd'
  BY <1>2 DEF CopiesAreFresh, ClientsEdit, NoFailureYet, HoldsRunOfTask, Holding, LatestEnd
<1>6. RunsAreOfTasks'
  <2>1. \A r \in RunIds : runs[r] # Null => runs[r].task \in Tasks
    BY DEF IInv, TypeOK, SchedulerTypeOK, StoreTypeOK, RunRow
  <2>2. \A u \in Tasks : tasks[u] # Null => tasks'[u] # Null
    BY <1>3, <1>4
  <2>3. runs' = runs /\ now' = now /\ RunsAreOfTasks
    BY <1>2
  <2> HIDE DEF SInv
  <2> QED
    BY <2>1, <2>2, <2>3 DEF RunsAreOfTasks
<1>7. ScheduleFollowsRuns'
  <2> SUFFICES ASSUME NEW u \in Tasks \ Editable, NEW r \in RunIds,
                      runs[r] # Null, runs[r].task = u, runs[r].finished # Null
               PROVE  /\ tasks'[u].last # Null /\ tasks'[u].last >= runs[r].finished
                      /\ tasks'[u].next = tasks'[u].last + tasks'[u].interval
    BY <1>2 DEF ScheduleFollowsRuns
  <2>1. CASE u = t
    <3>1. tasks[t].interval = cur[d].row.interval
      BY <1>1, <2>1 DEF CopiesAreFresh, IsFresh, t
    <3>2. runs[r].finished <= fin
      BY <1>2 DEF LatestEnd, fin
    <3>3. runs[r].finished \in Nat
      BY DEF IInv, TypeOK, SchedulerTypeOK, StoreTypeOK, RunRow
    <3>4. fin # Null /\ fin >= runs[r].finished
      BY <1>1, <3>2, <3>3, StoreAssumption
    <3>5. next = fin + tasks[t].interval
      BY <3>1 DEF next
    <3> QED
      BY <1>4, <2>1, <3>4, <3>5
  <2>2. CASE u # t
    <3>1. \A e \in Daemons : pc[e] = "schedule" => cur[e].id # u
      BY <2>2 DEF t
    <3>2. /\ tasks[u].last # Null /\ tasks[u].last >= runs[r].finished
          /\ tasks[u].next = tasks[u].last + tasks[u].interval
      BY <3>1 DEF ScheduleFollowsRuns
    <3> QED
      BY <1>3, <2>2, <3>2
  <2> QED
    BY <2>1, <2>2
<1> QED
  BY <1>5, <1>6, <1>7

\* A row that is new, or that of a task the clients edit, says nothing of the others.
LEMMA RowStep ==
    ASSUME IInv, SInv, UNCHANGED daemonVars, UNCHANGED <<now, runs>>,
           NEW u \in Tasks, NEW row \in TaskRow, tasks' = [tasks EXCEPT ![u] = row],
           u \in Editable \/ tasks[u] = Null,
           ClientsEdit'
    PROVE  SInv'
<1> USE DEF SInv
<1>1. UNCHANGED <<pc, due, cur, run, faults, crashes>>
  BY DEF daemonVars, counters
<1>2. /\ \A v \in Tasks : tasks[v] # Null => tasks'[v] # Null
      /\ \A v \in Tasks \ Editable : tasks[v] # Null => tasks'[v] = tasks[v]
  BY StoreAssumption DEF IInv, TypeOK, SchedulerTypeOK, StoreTypeOK
<1>3. CopiesAreFresh'
  <2>1. ASSUME NEW s \in TaskCopy, IsFresh(s) PROVE IsFresh(s)'
    BY <1>2, <2>1 DEF IsFresh, TaskCopy
  <2>2. ASSUME NEW d \in Daemons, cur[d] # Null PROVE IsFresh(cur[d])'
    <3>1. PICK s \in TaskCopy : s = cur[d] /\ IsFresh(s)
      BY <2>2 DEF CopiesAreFresh, IInv, TypeOK, SchedulerTypeOK
    <3>2. IsFresh(s)'
      BY <2>1, <3>1
    <3> QED
      BY <1>1, <3>1, <3>2 DEF IsFresh
  <2>3. ASSUME NEW d \in Daemons, NEW s \in due[d] PROVE IsFresh(s)'
    <3>1. s \in TaskCopy /\ IsFresh(s)
      BY DEF CopiesAreFresh, IInv, TypeOK, SchedulerTypeOK
    <3> QED
      BY <2>1, <3>1
  <2> QED
    BY <1>1, <2>2, <2>3 DEF CopiesAreFresh
<1>4. \A r \in RunIds : runs[r] # Null => runs[r].task \in Tasks /\ tasks[runs[r].task] # Null
  BY DEF RunsAreOfTasks, IInv, TypeOK, SchedulerTypeOK, StoreTypeOK, RunRow
<1>5. RunsAreOfTasks'
  BY <1>2, <1>4 DEF RunsAreOfTasks
<1>6. NoFailureYet' /\ HoldsRunOfTask' /\ LatestEnd'
  BY <1>1 DEF NoFailureYet, HoldsRunOfTask, LatestEnd
<1>7. ScheduleFollowsRuns'
  <2> SUFFICES ASSUME NEW t \in Tasks \ Editable, NEW r \in RunIds,
                      runs[r] # Null, runs[r].task = t, runs[r].finished # Null,
                      \A d \in Daemons : pc[d] = "schedule" => cur[d].id # t
               PROVE  /\ tasks'[t].last # Null /\ tasks'[t].last >= runs[r].finished
                      /\ tasks'[t].next = tasks'[t].last + tasks'[t].interval
    BY <1>1 DEF ScheduleFollowsRuns
  <2>1. tasks'[t] = tasks[t]
    BY <1>2, <1>4
  <2> QED
    BY <2>1 DEF ScheduleFollowsRuns
<1> QED
  BY <1>3, <1>5, <1>6, <1>7

\* A client writes only rows of editable tasks and of projects.
LEMMA ClientsStep ==
    ASSUME NEW d \in Daemons, Daemons = {d}, IInv, SInv, ClientStep, UNCHANGED daemonVars
    PROVE  SInv'
<1>1. ASSUME UNCHANGED <<now, tasks, runs>>, ClientsEdit' PROVE SInv'
  BY <1>1, QuietStep DEF daemonVars, counters, IInv, TypeOK, SchedulerTypeOK, StoreTypeOK
<1>2. /\ copy \in [Clients -> TaskCopy \cup {Null}]
      /\ \A c \in Clients : copy[c] # Null => copy[c].id \in Editable
  BY DEF SInv, ClientsEdit, IInv, TypeOK, ClientsTypeOK
<1>3. ASSUME NEW c \in Clients, WriteTask(c) PROVE SInv'
  <2>1. copy[c] \in TaskCopy /\ copy[c].id \in Editable
    BY <1>2, <1>3 DEF WriteTask
  <2>2. PICK row \in TaskRow : tasks' = [tasks EXCEPT ![copy[c].id] = row]
    BY <1>3, <2>1, PatchedRow DEF WriteTask, UpdateTask, TaskCopy
  <2>3. ClientsEdit' /\ UNCHANGED <<now, runs>>
    BY <1>2, <1>3 DEF WriteTask, UpdateTask, ClientsEdit
  <2>4. copy[c].id \in Tasks
    BY <2>1 DEF TaskCopy
  <2> QED
    BY <2>1, <2>2, <2>3, <2>4, RowStep
<1>4. ASSUME NEW c \in Clients, Abandon(c) PROVE SInv'
  BY <1>1, <1>2, <1>4 DEF Abandon, ClientsEdit, tables
<1>5. ASSUME NEW c \in Clients, NEW t \in Editable, ReadTask(c, t) PROVE SInv'
  <2>1. ClientsEdit'
    BY <1>2, <1>5 DEF ReadTask, ClientsEdit
  <2> QED
    BY <1>1, <1>5, <2>1 DEF ReadTask, tables
<1>6. ASSUME NEW p \in Projects, PatchProject(p) \/ AddProject(p) PROVE SInv'
  BY <1>1, <1>2, <1>6 DEF PatchProject, AddProject, UpdateProject, CreateProject, ClientsEdit
<1>7. ASSUME NEW t \in Tasks, AddTask(t) PROVE SInv'
  <2>1. PICK row \in NewTask : tasks[t] = Null /\ tasks' = [tasks EXCEPT ![t] = row]
    BY <1>7 DEF AddTask, CreateTask
  <2>2. row \in TaskRow
    BY <2>1 DEF NewTask, TaskRow
  <2>3. ClientsEdit' /\ UNCHANGED <<now, runs>>
    BY <1>2, <1>7 DEF AddTask, CreateTask, ClientsEdit
  <2> QED
    BY <2>1, <2>2, <2>3, RowStep
<1> QED
  BY <1>3, <1>4, <1>5, <1>6, <1>7 DEF ClientStep

-----------------------------------------------------------------------------
(* The theorems.                                                             *)

\* With these bounds no call fails and no daemon is killed.
LEMMA NoFailureStep ==
    ASSUME NEW d \in Daemons, OneDaemonNoFailure(d), SInv, StoreError(d) \/ Crash(d)
    PROVE  FALSE
BY DEF OneDaemonNoFailure, SInv, NoFailureYet, StoreError, Crash

\* Every step keeps the invariant.
LEMMA NextSInv ==
    ASSUME NEW d \in Daemons, OneDaemonNoFailure(d), IInv, SInv, [Next]_vars
    PROVE  SInv'
<1>1. Daemons = {d}
  BY DEF OneDaemonNoFailure
<1>2. CASE UNCHANGED vars
  <2>1. UNCHANGED <<now, tasks, runs, faults, crashes, due, cur, pc, run, copy>>
    BY <1>2 DEF vars, tables, daemonVars, clientVars, counters
  <2>2. ClientsEdit'
    BY <2>1 DEF SInv, ClientsEdit
  <2> QED
    BY <1>1, <2>1, <2>2, QuietStep DEF IInv, TypeOK, SchedulerTypeOK, StoreTypeOK
<1>3. CASE DaemonStep(d) /\ UNCHANGED clientVars
  BY <1>1, <1>3, LocalStep, ListStep, AcquireStep, FinishStep, ReleaseStep, ScheduleStep DEF DaemonStep
<1>4. CASE Environment /\ UNCHANGED clientVars
  BY <1>1, <1>4, LocalStep, NoFailureStep DEF Environment
<1>5. CASE ClientStep /\ UNCHANGED daemonVars
  BY <1>1, <1>5, ClientsStep
<1> QED
  BY <1>1, <1>2, <1>3, <1>4, <1>5 DEF Next

\* The invariant holds of every state of such an instance.
LEMMA ScheduleInvariant ==
    ASSUME NEW d \in Daemons, OneDaemonNoFailure(d)
    PROVE  Spec => [](IInv /\ SInv)
<1>1. IInv /\ SInv /\ [Next]_vars => SInv'
  BY NextSInv
<1> QED
  BY InitSInv, <1>1, Invariance, PTL DEF Spec

\* The row of a task that nobody edits tells when it last ended and when it is next
\* due, unless the daemon is just about to write that.
THEOREM RowsFollowRuns ==
    ASSUME NEW d \in Daemons, OneDaemonNoFailure(d)
    PROVE  Spec => []ScheduleFollowsRuns
<1>1. SInv => ScheduleFollowsRuns
  BY DEF SInv
<1> QED
  BY <1>1, ScheduleInvariant, PTL

\* After success and failure alike, a task that nobody edits is not run again before
\* its interval is over, whatever happens to the other tasks and projects meanwhile.
THEOREM NoEarlyRetry ==
    ASSUME NEW d \in Daemons, OneDaemonNoFailure(d)
    PROVE  Spec => NoImmediateRetryUnedited
<1>1. ASSUME IInv, SInv, [Next]_vars, NEW t \in Tasks \ Editable PROVE SpacedStart(t)
  <2> SUFFICES ASSUME NEW r \in RunIds, NEW s \in RunIds,
                      runs[r] = Null, runs'[r] # Null, runs'[r].task = t,
                      runs[s] # Null, runs[s].task = t, runs[s].finished # Null
               PROVE  now >= runs[s].finished + tasks[t].interval
    BY DEF SpacedStart
  <2>1. Acquire(d)
    <3>1. runs' # runs
      OBVIOUS
    <3>2. PICK e \in Daemons : Acquire(e) \/ Release(e)
      <4>1. ASSUME NEW e \in Daemons, DaemonStep(e), ~Acquire(e), ~Release(e)
            PROVE  runs' = runs
        BY <1>1, <4>1, RecoverStaleIdle
        DEF DaemonStep, BeginTick, Gate, ListDue, TryStart, AcquireRefused, Finish, Schedule, Exit,
            ScheduleTaskAfterRun, tables
      <4>2. Environment => runs' = runs
        BY DEF Environment, StoreError, Signal, Crash, Restart, OrphanEnds, AdvanceClock, tables
      <4>3. ClientStep => runs' = runs
        BY DEF ClientStep, WriteTask, Abandon, ReadTask, PatchProject, AddProject, AddTask,
           UpdateTask, UpdateProject, CreateProject, CreateTask, tables
      <4>4. UNCHANGED vars => runs' = runs
        BY DEF vars, tables
      <4> QED
        BY <1>1, <3>1, <4>1, <4>2, <4>3, <4>4 DEF Next
    <3>3. ~Release(e)
      BY <1>1, ReleaseRuns
    <3> QED
      BY <3>2, <3>3 DEF OneDaemonNoFailure
  <2>2. cur[d].id = t /\ pc[d] = "acquire" /\ cur[d] # Null
    BY <1>1, <2>1, AcquireRuns, StoreAssumption
  <2>3. /\ tasks[t] = cur[d].row
        /\ cur[d].row.next = Null \/ cur[d].row.next <= now
    BY <1>1, <2>2 DEF SInv, CopiesAreFresh, IsFresh
  <2>4. /\ tasks[t].last # Null /\ tasks[t].last >= runs[s].finished
        /\ tasks[t].next = tasks[t].last + tasks[t].interval
    BY <1>1, <2>2 DEF SInv, ScheduleFollowsRuns, OneDaemonNoFailure
  <2>5. tasks[t] \in TaskRow /\ runs[s] \in RunRow /\ now \in Nat
    <3>1. tasks[t] # Null
      BY <1>1, <2>2 DEF SInv, CopiesAreFresh, IsFresh
    <3> QED
      BY <1>1, <3>1 DEF IInv, TypeOK, SchedulerTypeOK, StoreTypeOK
  <2>6. tasks[t].last \in Nat /\ tasks[t].interval \in Nat /\ runs[s].finished \in Nat
    BY <2>4, <2>5, StoreAssumption DEF TaskRow, RunRow
  <2>7. tasks[t].next # Null
    BY <2>4, <2>6, StoreAssumption
  <2> QED
    BY <2>3, <2>4, <2>5, <2>6, <2>7
<1>2. IInv /\ SInv /\ [Next]_vars => [\A t \in Tasks \ Editable : SpacedStart(t)]_vars
  BY <1>1
<1> QED
  BY <1>2, ScheduleInvariant, PTL DEF Spec, NoImmediateRetryUnedited

=============================================================================
