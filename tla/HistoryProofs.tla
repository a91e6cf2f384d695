--------------------------- MODULE HistoryProofs ----------------------------
(***************************************************************************)
(* What History counts, for every set of projects, tasks and clients: the  *)
(* runs that SIGTERM and disabling a task let pass, for any daemons and    *)
(* any failures, and the runs a due task waits for, with one daemon and no *)
(* failure.                                                                *)
(***************************************************************************)
EXTENDS History, ScheduleProofs, FiniteSetTheorems

\* The history variables constrain no step.
LEMMA HistoryObserves ==
    /\ HInit => Init
    /\ [HNext]_<<vars, histVars>> => [Next]_vars
BY DEF HInit, HNext

\* So a behaviour with histories is one of the system,
LEMMA HistorySpec == HSpec => Spec
BY HistoryObserves, PTL DEF HSpec, Spec

\* and has its inductive invariant.
LEMMA HistoryInvariance == HSpec => []IInv
BY HistorySpec, Invariance, PTL

\* The run that Acquire inserts is the one the counters see, and no other step has one.
LEMMA OnlyAcquireStarts ==
    ASSUME IInv, [Next]_vars, NEW t \in Tasks, Started(t)
    PROVE  \E d \in Daemons :
             Acquire(d) /\ cur[d] \in TaskCopy /\ cur[d].id = t /\ pc[d] = "acquire" /\ pc'[d] = "exec"
<1>1. PICK r \in RunIds : runs[r] = Null /\ runs'[r] # Null /\ runs'[r].task = t
  BY DEF Started
<1>2. PICK d \in Daemons : Acquire(d) \/ Release(d)
  BY <1>1, TablesStep
<1>3. ~Release(d)
  <2> SUFFICES ASSUME Release(d) PROVE FALSE
    OBVIOUS
  <2>1. \/ r = run[d].id /\ runs[r] # Null
        \/ runs'[r] = runs[r]
    BY <1>1, ReleaseRuns
  <2> QED
    BY <1>1, <2>1
<1>4. r = newID
  BY <1>1, <1>2, <1>3, AcquireRuns
<1> QED
  BY <1>1, <1>2, <1>3, <1>4, AcquireRuns

-----------------------------------------------------------------------------
(* SIGTERM.                                                                  *)

\* Where a daemon can be after a start that SIGTERM came before: past Acquire, with
\* no tick of its own to come.
AfterStart == {"exec", "release", "schedule", "idle", "exited", "down"}

LateStartsInv ==
    \A d \in Daemons :
        /\ lateStarts[d] \in {0, 1}
        /\ lateStarts[d] = 1 => term[d] /\ pc[d] \in AfterStart

\* From there a signalled daemon does not get back to Acquire.
LEMMA NoWayBack ==
    ASSUME IInv, [Next]_vars, NEW e \in Daemons, term[e], term'[e], pc[e] \in AfterStart
    PROVE  pc'[e] \in AfterStart
<1> USE DEF AfterStart, IInv, TypeOK, SchedulerTypeOK
<1>1. ASSUME NEW d \in Daemons, DaemonStep(d) PROVE pc'[e] \in AfterStart
  BY <1>1
  DEF DaemonStep, BeginTick, RecoverStale, Gate, ListDue, TryStart, AcquireRefused, Acquire,
      Finish, Release, Schedule, Exit, Goto, EndTick, NextDue
<1>2. CASE Environment
  BY <1>2
  DEF Environment, StoreError, Signal, Crash, Restart, OrphanEnds, AdvanceClock, Goto, EndTick,
      daemonVars
<1>3. CASE UNCHANGED daemonVars
  BY <1>3 DEF daemonVars
<1>4. CASE UNCHANGED vars
  BY <1>4 DEF vars, daemonVars
<1> QED
  BY <1>1, <1>2, <1>3, <1>4 DEF Next

\* A start after SIGTERM takes the daemon past Acquire, and it does not come back.
LEMMA LateStartsStep ==
    ASSUME IInv, LateStartsInv, HNext
    PROVE  LateStartsInv'
<1> SUFFICES ASSUME NEW d \in Daemons
             PROVE  /\ lateStarts'[d] \in {0, 1}
                    /\ lateStarts'[d] = 1 => term'[d] /\ pc'[d] \in AfterStart
  BY DEF LateStartsInv
<1>1. lateStarts'[d] = IF ~term'[d] THEN 0
                       ELSE lateStarts[d] + Count(pc[d] = "acquire" /\ pc'[d] = "exec")
  BY DEF HNext, Observe
<1>2. CASE pc[d] = "acquire" /\ pc'[d] = "exec"
  <2>1. lateStarts[d] = 0
    BY <1>2 DEF LateStartsInv, AfterStart
  <2> QED
    BY <1>1, <1>2, <2>1 DEF Count, AfterStart
<1>3. CASE ~(pc[d] = "acquire" /\ pc'[d] = "exec")
  <2>1. lateStarts[d] = 1 /\ term'[d] => pc'[d] \in AfterStart
    BY NoWayBack DEF LateStartsInv, HNext
  <2> QED
    BY <1>1, <1>3, <2>1 DEF Count, LateStartsInv
<1> QED
  BY <1>2, <1>3

\* A daemon that has received SIGTERM starts one more run at most, the one its tick
\* in progress was about to start; with any failures, crashes and restarts.
THEOREM OneLateStart == HSpec => []AtMostOneLateStart
<1>1. HInit => LateStartsInv
  BY DEF HInit, LateStartsInv
<1>2. IInv /\ LateStartsInv /\ [HNext]_<<vars, histVars>> => LateStartsInv'
  <2>1. LateStartsInv /\ UNCHANGED <<vars, histVars>> => LateStartsInv'
    BY DEF LateStartsInv, vars, daemonVars, histVars
  <2> QED
    BY <2>1, LateStartsStep
<1>3. LateStartsInv => AtMostOneLateStart
  BY DEF LateStartsInv, AtMostOneLateStart
<1> QED
  BY <1>1, <1>2, <1>3, HistoryInvariance, PTL DEF HSpec

-----------------------------------------------------------------------------
(* Disabling a task.                                                         *)

\* A daemon that may still start t from the list it has read.
Armed(d, t) ==
    \/ pc[d] \in {"try", "acquire"} /\ \E s \in due[d] : s.id = t
    \/ pc[d] = "acquire" /\ cur[d].id = t

ArmedFor(t) == {d \in Daemons : Armed(d, t)}

\* A run of a disabled task costs a daemon its copy, and no daemon gets a new one.
LateRunsInv ==
    \A t \in Tasks :
        /\ lateRuns[t] \in Nat
        /\ Enabled(t) => lateRuns[t] = 0
        /\ ~Enabled(t) => lateRuns[t] + Cardinality(ArmedFor(t)) <= Cardinality(Daemons)

\* Sets of daemons can be counted.
LEMMA ArmedFinite ==
    ASSUME NEW S \in SUBSET Daemons
    PROVE  IsFiniteSet(S) /\ Cardinality(S) \in Nat /\ Cardinality(S) <= Cardinality(Daemons)
<1>1. IsFiniteSet(S) /\ Cardinality(S) <= Cardinality(Daemons)
  BY HistoryAssumption, FS_Subset
<1> QED
  BY <1>1, FS_CardinalityType

\* Only ListDue arms a daemon, and only for a task that is due.
LEMMA OnlyListArms ==
    ASSUME IInv, [Next]_vars, NEW t \in Tasks, NEW e \in Daemons, Armed(e, t)', ~Armed(e, t)
    PROVE  Enabled(t)
<1> USE DEF Armed, IInv, TypeOK, SchedulerTypeOK
<1>1. ASSUME NEW d \in Daemons, ListDue(d) PROVE Enabled(t)
  <2>1. pc[d] = "list" /\ cur'[d] = Null /\ due'[d] \subseteq ListDueTasks /\ pc'[d] \in {"idle", "try"}
    BY <1>1 DEF ListDue, NextDue, EndTick, Goto, Forget
  <2>2. \A s \in ListDueTasks : Enabled(s.id)
    BY DEF ListDueTasks, Due
  <2>3. e = d
    BY <1>1 DEF ListDue, NextDue, EndTick, Goto, Forget
  <2> QED
    BY <2>1, <2>2, <2>3
<1>2. ASSUME NEW d \in Daemons, TryStart(d) PROVE FALSE
  <2>1. e = d
    BY <1>2 DEF TryStart, NextDue, EndTick, Goto, Forget
  <2>2. pc[d] = "try" /\ due'[d] \subseteq due[d]
    BY <1>2 DEF TryStart, NextDue, EndTick, Goto, Forget
  <2>3. pc'[d] = "acquire" => cur'[d] \in due[d]
    BY <1>2 DEF TryStart, NextDue, EndTick, Goto, Forget
  <2> QED
    BY <2>1, <2>2, <2>3
<1>3. ASSUME NEW d \in Daemons, AcquireRefused(d) PROVE FALSE
  BY <1>3 DEF AcquireRefused, NextDue, EndTick, Goto, Forget
<1>4. ASSUME NEW d \in Daemons,
             \/ BeginTick(d) \/ RecoverStale(d) \/ Gate(d) \/ Acquire(d) \/ Finish(d)
             \/ Release(d) \/ Schedule(d) \/ Exit(d)
      PROVE FALSE
  BY <1>4
  DEF BeginTick, RecoverStale, Gate, Acquire, Finish, Release, Schedule, Exit, Goto, EndTick, Forget
<1>5. CASE Environment
  BY <1>5
  DEF Environment, StoreError, Signal, Crash, Restart, OrphanEnds, AdvanceClock, Goto, EndTick,
      Forget, daemonVars
<1>6. CASE UNCHANGED daemonVars
  BY <1>6 DEF daemonVars
<1>7. CASE UNCHANGED vars
  BY <1>7 DEF vars, daemonVars
<1> QED
  BY <1>1, <1>2, <1>3, <1>4, <1>5, <1>6, <1>7 DEF Next, DaemonStep

\* A daemon that starts a disabled task is disarmed by it; ListDue arms none for it again.
LEMMA LateRunsStep ==
    ASSUME IInv, LateRunsInv, HNext
    PROVE  LateRunsInv'
<1> SUFFICES ASSUME NEW t \in Tasks
             PROVE  /\ lateRuns'[t] \in Nat
                    /\ Enabled(t)' => lateRuns'[t] = 0
                    /\ ~Enabled(t)' =>
                         lateRuns'[t] + Cardinality(ArmedFor(t)') <= Cardinality(Daemons)
  BY DEF LateRunsInv
<1>1. lateRuns'[t] = IF Enabled(t)' THEN 0 ELSE lateRuns[t] + Count(Started(t))
  BY DEF HNext, Observe
<1>2. [Next]_vars
  BY DEF HNext
<1>3. ArmedFor(t)' \in SUBSET Daemons /\ ArmedFor(t) \in SUBSET Daemons
  BY DEF ArmedFor
<1>4. CASE Enabled(t)'
  BY <1>1, <1>4
<1>5. CASE ~Enabled(t)' /\ ~Started(t) /\ Enabled(t)
  <2>1. lateRuns'[t] = 0
    BY <1>1, <1>5 DEF Count, LateRunsInv
  <2> QED
    BY <1>3, <1>5, <2>1, ArmedFinite
<1>6. CASE ~Enabled(t)' /\ ~Started(t) /\ ~Enabled(t)
  <2>1. lateRuns'[t] = lateRuns[t] /\ lateRuns[t] \in Nat
    BY <1>1, <1>6 DEF Count, LateRunsInv
  <2>2. ArmedFor(t)' \subseteq ArmedFor(t)
    BY <1>2, <1>6, OnlyListArms DEF ArmedFor
  <2>3. Cardinality(ArmedFor(t)') <= Cardinality(ArmedFor(t))
    BY <1>3, <2>2, ArmedFinite, FS_Subset
  <2>4. lateRuns[t] + Cardinality(ArmedFor(t)) <= Cardinality(Daemons)
    BY <1>6 DEF LateRunsInv
  <2>5. /\ Cardinality(ArmedFor(t)') \in Nat /\ Cardinality(ArmedFor(t)) \in Nat
        /\ Cardinality(Daemons) \in Nat
    BY <1>3, ArmedFinite
  <2> QED
    BY <1>6, <2>1, <2>3, <2>4, <2>5
<1>7. CASE ~Enabled(t)' /\ Started(t)
  <2>1. PICK d \in Daemons :
          Acquire(d) /\ cur[d] \in TaskCopy /\ cur[d].id = t /\ pc[d] = "acquire" /\ pc'[d] = "exec"
    BY <1>2, <1>7, OnlyAcquireStarts
  <2>2. ~Enabled(t)
    BY <1>7, <2>1 DEF Acquire, AcquireRunLock, Enabled
  <2>3. lateRuns'[t] = lateRuns[t] + 1 /\ lateRuns[t] \in Nat
    BY <1>1, <1>7 DEF Count, LateRunsInv
  <2>4. d \in ArmedFor(t) /\ d \notin ArmedFor(t)'
    BY <2>1 DEF ArmedFor, Armed
  <2>5. ArmedFor(t)' \subseteq ArmedFor(t) \ {d}
    BY <1>2, <2>2, <2>4, OnlyListArms DEF ArmedFor
  <2>6. Cardinality(ArmedFor(t) \ {d}) = Cardinality(ArmedFor(t)) - 1
    BY <1>3, <2>4, ArmedFinite, FS_RemoveElement
  <2>7. ArmedFor(t) \ {d} \in SUBSET Daemons
    BY <1>3
  <2>8. Cardinality(ArmedFor(t)') <= Cardinality(ArmedFor(t) \ {d})
    BY <2>5, <2>7, ArmedFinite, FS_Subset
  <2>9. lateRuns[t] + Cardinality(ArmedFor(t)) <= Cardinality(Daemons)
    BY <2>2 DEF LateRunsInv
  <2>10. /\ Cardinality(ArmedFor(t)') \in Nat /\ Cardinality(ArmedFor(t)) \in Nat
         /\ Cardinality(Daemons) \in Nat
    BY <1>3, ArmedFinite
  <2> QED
    BY <1>7, <2>3, <2>6, <2>8, <2>9, <2>10
<1> QED
  BY <1>4, <1>5, <1>6, <1>7

\* A task that is disabled, or whose project is, runs at most once more per daemon
\* until it is enabled again, however the daemons interleave, fail and restart.
THEOREM DisablingTakesEffect == HSpec => []DisableTakesEffect
<1>1. HInit => LateRunsInv
  <2> SUFFICES ASSUME HInit, NEW t \in Tasks
               PROVE  /\ lateRuns[t] = 0
                      /\ lateRuns[t] + Cardinality(ArmedFor(t)) <= Cardinality(Daemons)
    BY DEF LateRunsInv
  <2>1. lateRuns[t] = 0
    BY DEF HInit
  <2>2. ArmedFor(t) \in SUBSET Daemons
    BY DEF ArmedFor
  <2> QED
    BY <2>1, <2>2, ArmedFinite
<1>2. IInv /\ LateRunsInv /\ [HNext]_<<vars, histVars>> => LateRunsInv'
  <2>1. LateRunsInv /\ UNCHANGED <<vars, histVars>> => LateRunsInv'
    BY DEF LateRunsInv, ArmedFor, Armed, Enabled, vars, tables, daemonVars, histVars
  <2> QED
    BY <2>1, LateRunsStep
<1>3. LateRunsInv => DisableTakesEffect
  <2> SUFFICES ASSUME LateRunsInv, NEW t \in Tasks PROVE lateRuns[t] <= Cardinality(Daemons)
    BY DEF DisableTakesEffect
  <2>1. ArmedFor(t) \in SUBSET Daemons
    BY DEF ArmedFor
  <2>2. Cardinality(ArmedFor(t)) \in Nat /\ Cardinality(Daemons) \in Nat
    BY <2>1, ArmedFinite
  <2> QED
    BY <2>2 DEF LateRunsInv
<1> QED
  BY <1>1, <1>2, <1>3, HistoryInvariance, PTL DEF HSpec

-----------------------------------------------------------------------------
(* Waiting.                                                                  *)

\* A task's project has a row: the foreign key asks for it, and no row is deleted.
ProjectsAreThere == \A t \in Tasks : tasks[t] # Null => projects[ProjectOf[t]] # Null

\* No task is without its project, since no statement deletes one.
LEMMA TasksHaveProjects == Spec => []ProjectsAreThere
<1>1. Init => ProjectsAreThere
  BY DEF Init, SchedulerInit, StoreInit, ProjectsAreThere
<1>2. ASSUME IInv, ProjectsAreThere, [Next]_vars PROVE ProjectsAreThere'
  <2>1. ASSUME NEW p \in Projects, projects[p] # Null PROVE projects'[p] # Null
    <3>1. ASSUME NEW d \in Daemons, DaemonStep(d) PROVE UNCHANGED projects
      BY <3>1
      DEF DaemonStep, BeginTick, RecoverStale, Gate, ListDue, TryStart, AcquireRefused, Acquire,
          AcquireRunLock, Finish, Release, ReleaseRunLock, Schedule, ScheduleTaskAfterRun, Exit, tables
    <3>2. Environment => UNCHANGED projects
      BY DEF Environment, StoreError, Signal, Crash, Restart, OrphanEnds, AdvanceClock, tables
    <3>3. projects \in [Projects -> ProjectRow \cup {Null}] /\ projects[p] \in ProjectRow
      BY <1>2, <2>1 DEF IInv, TypeOK, SchedulerTypeOK, StoreTypeOK
    <3>4. ASSUME NEW q \in Projects, PatchProject(q) PROVE projects'[p] # Null
      <4>1. PICK e \in BOOLEAN : projects' = [projects EXCEPT ![q] = [projects[q] EXCEPT !.enabled = e]]
        BY <3>4 DEF PatchProject, UpdateProject
      <4>2. [projects[p] EXCEPT !.enabled = e] \in ProjectRow
        BY <3>3 DEF ProjectRow
      <4> QED
        BY <2>1, <3>3, <4>1, <4>2, StoreAssumption
    <3>5. ASSUME NEW q \in Projects, AddProject(q) PROVE projects'[p] # Null
      BY <2>1, <3>3, <3>5 DEF AddProject, CreateProject
    <3>6. ASSUME ClientStep, \A q \in Projects : ~PatchProject(q) /\ ~AddProject(q)
          PROVE  UNCHANGED projects
      BY <3>6 DEF ClientStep, WriteTask, UpdateTask, Abandon, ReadTask, AddTask, CreateTask, tables
    <3> QED
      BY <1>2, <2>1, <3>1, <3>2, <3>4, <3>5, <3>6 DEF Next, vars, tables
  <2>2. ASSUME NEW t \in Tasks, tasks[t] = Null, tasks'[t] # Null PROVE projects[ProjectOf[t]] # Null
    <3>1. ASSUME NEW d \in Daemons, DaemonStep(d), ~Schedule(d) PROVE UNCHANGED tasks
      BY <3>1
      DEF DaemonStep, BeginTick, RecoverStale, Gate, ListDue, TryStart, AcquireRefused, Acquire,
          AcquireRunLock, Finish, Release, ReleaseRunLock, Exit, tables
    <3>2. tasks \in [Tasks -> TaskRow \cup {Null}]
      BY <1>2 DEF IInv, TypeOK, SchedulerTypeOK, StoreTypeOK
    <3>3. ASSUME NEW d \in Daemons, Schedule(d) PROVE tasks'[t] = tasks[t]
      <4>1. cur[d].id # t
        BY <2>2, <3>3 DEF Schedule, ScheduleTaskAfterRun
      <4> QED
        BY <3>2, <3>3, <4>1 DEF Schedule, ScheduleTaskAfterRun
    <3>4. Environment => UNCHANGED tasks
      BY DEF Environment, StoreError, Signal, Crash, Restart, OrphanEnds, AdvanceClock, tables
    <3>5. ASSUME NEW c \in Clients, WriteTask(c) PROVE tasks'[t] = tasks[t]
      <4>1. PICK row : tasks' = [tasks EXCEPT ![copy[c].id] = row] /\ tasks[copy[c].id] # Null
        BY <3>5 DEF WriteTask, UpdateTask
      <4> QED
        BY <2>2, <3>2, <4>1
    <3>6. ASSUME NEW v \in Tasks, AddTask(v) PROVE tasks'[t] = tasks[t] \/ projects[ProjectOf[t]] # Null
      <4>1. /\ projects[ProjectOf[v]] # Null
            /\ \E row \in NewTask : tasks' = [tasks EXCEPT ![v] = row]
        BY <3>6 DEF AddTask, CreateTask
      <4> QED
        BY <3>2, <4>1
    <3>7. ASSUME ClientStep, \A c \in Clients : ~WriteTask(c), \A v \in Tasks : ~AddTask(v)
          PROVE  UNCHANGED tasks
      BY <3>7
      DEF ClientStep, Abandon, ReadTask, PatchProject, UpdateProject, AddProject, CreateProject, tables
    <3> QED
      BY <1>2, <2>2, <3>1, <3>3, <3>4, <3>5, <3>6, <3>7 DEF Next, vars, tables
  <2> QED
    BY <1>2, <2>1, <2>2, StoreAssumption DEF ProjectsAreThere
<1> QED
  BY <1>1, <1>2, Invariance, PTL DEF Spec

\* Once d has run u ahead of t: the run is not over, or t comes before u in the order
\* of next_run_at and in the list that d may be working on.
AheadOf(t, u) ==
    /\ tasks[u] # Null /\ tasks[u].next # Null
    /\ tasks[t].next = Null \/ tasks[t].next < tasks[u].next

InOrder(d, t, u) ==
    /\ AheadOf(t, u)
    /\ pc[d] \in Holding \cup {"acquire", "schedule"} => cur[d].id # u
    /\ pc[d] = "try" => \A s \in due[d] : s.id = u => [id |-> t, row |-> tasks[t]] \in due[d]

Running(d, t, u) ==
    /\ pc[d] \in Holding \cup {"schedule"} /\ cur[d].id = u
    /\ pc[d] # "exec" => tasks[t].next = Null \/ tasks[t].next <= run[d].finished

Waited(d, t, u) == Running(d, t, u) \/ InOrder(d, t, u)

\* The daemon's own step, when its run of u is over: it keeps to the order.
LEMMA OrderIsKept ==
    ASSUME NEW d \in Daemons, Daemons = {d}, IInv, SInv, GateHolds, ProjectsAreThere, DaemonStep(d),
           NEW t \in Tasks, NEW u \in Tasks \ Editable, t # u, Due(t),
           tasks'[t] = tasks[t], InOrder(d, t, u)
    PROVE  InOrder(d, t, u)'
<1> USE DEF InOrder, IInv, TypeOK, SchedulerTypeOK, StoreTypeOK, Holding
<1> DEFINE first == [id |-> t, row |-> tasks[t]]
<1>1. tasks[t] \in TaskRow /\ tasks[u] \in TaskRow /\ first \in TaskCopy
  BY DEF Due, Enabled, AheadOf, TaskCopy
<1>2. CASE BeginTick(d) \/ RecoverStale(d) \/ Gate(d) \/ Exit(d)
  BY <1>2, RecoverStaleIdle DEF BeginTick, RecoverStale, Gate, Exit, Goto, tables, AheadOf
<1>3. CASE ListDue(d)
  <2>1. UNCHANGED tasks /\ due'[d] \in {{}, ListDueTasks} /\ pc'[d] \in {"idle", "try"}
    BY <1>3 DEF ListDue, NextDue, EndTick, Goto, Forget, tables
  <2>2. first \in ListDueTasks
    BY DEF ListDueTasks
  <2> QED
    BY <2>1, <2>2 DEF AheadOf
<1>4. CASE TryStart(d)
  <2>1. PICK s \in due[d] :
          /\ pc[d] = "try" /\ IsFirst(s, due[d])
          /\ IF Runnable(s)
             THEN pc'[d] = "acquire" /\ cur'[d] = s
             ELSE \/ pc'[d] = "idle"
                  \/ pc'[d] = "try" /\ due'[d] = due[d] \ {s}
    BY <1>4 DEF TryStart, NextDue, EndTick, Goto, Forget
  <2>2. s \in TaskCopy /\ UNCHANGED tasks
    BY <1>4, <2>1 DEF TryStart, tables
  <2>3. ASSUME s.id = u PROVE FALSE
    <3>1. first \in due[d]
      BY <2>1, <2>3
    <3>2. tasks[u] = s.row
      BY <2>3 DEF SInv, CopiesAreFresh, IsFresh
    <3>3. first # s /\ Before(s, first)
      BY <2>1, <2>3, <3>1 DEF IsFirst
    <3>4. s.row.next \in Nat /\ tasks[t].next \in Nat \cup {Null} /\ first.row = tasks[t]
      BY <1>1, <2>2, <3>2 DEF AheadOf, TaskRow, TaskCopy
    <3> QED
      BY <3>2, <3>3, <3>4, StoreAssumption DEF Before, AheadOf
  <2>4. ASSUME s = first PROVE Runnable(s)
    <3>1. projects[ProjectOf[t]] # Null /\ projects[ProjectOf[t]].enabled /\ tasks[t].enabled
      BY DEF Due, Enabled, ProjectsAreThere
    <3> QED
      BY <2>4, <3>1 DEF Runnable
  <2> QED
    BY <2>1, <2>2, <2>3, <2>4 DEF AheadOf
<1>5. CASE AcquireRefused(d)
  <2>1. Locked(ProjectOf[cur[d].id]) /\ cur[d] \in TaskCopy
    BY <1>5 DEF AcquireRefused, CopiesInPlace
  <2> QED
    BY <1>5, <2>1, StoreAssumption DEF AcquireRefused, GateHolds, HasAnyLock, TaskCopy
<1>6. CASE Acquire(d) \/ Finish(d) \/ Release(d)
  <2>1. UNCHANGED <<tasks, cur>> /\ pc[d] \in {"acquire", "exec", "release"} /\ pc'[d] # "try"
    BY <1>6 DEF Acquire, AcquireRunLock, Finish, Release, ReleaseRunLock, Goto, tables
  <2> QED
    BY <2>1 DEF AheadOf
<1>7. CASE Schedule(d)
  <2>1. cur[d].id # u /\ pc'[d] = "idle"
    BY <1>7 DEF Schedule, EndTick, Goto
  <2>2. tasks'[u] = tasks[u]
    BY <1>7, <2>1 DEF Schedule, ScheduleTaskAfterRun
  <2> QED
    BY <2>1, <2>2 DEF AheadOf
<1> QED
  BY <1>2, <1>3, <1>4, <1>5, <1>6, <1>7 DEF DaemonStep

\* The daemon's own step during its run of u: the schedule puts u behind t.
LEMMA RunPutsBehind ==
    ASSUME NEW d \in Daemons, Daemons = {d}, IInv, SInv, DaemonStep(d),
           NEW t \in Tasks, NEW u \in Tasks \ Editable, t # u, Due(t), Running(d, t, u)
    PROVE  Waited(d, t, u)'
<1> USE DEF Running, Waited, IInv, TypeOK, SchedulerTypeOK, StoreTypeOK, Holding
<1>1. tasks[t] \in TaskRow
  BY DEF Due, Enabled
<1>2. CASE Finish(d)
  <2>1. run[d] \in RunCopy
    BY <1>2 DEF Finish, CopiesInPlace
  <2>2. run'[d].finished = now /\ pc'[d] = "release" /\ UNCHANGED <<tasks, cur>>
    BY <1>2, <2>1 DEF Finish, Goto, tables, RunCopy
  <2> QED
    BY <2>2 DEF Due
<1>3. CASE Release(d)
  BY <1>3 DEF Release, ReleaseRunLock, Goto
<1>4. CASE Schedule(d)
  <2>1. /\ run[d] \in RunCopy /\ run[d].finished # Null /\ cur[d] \in TaskCopy
        /\ tasks[t].next = Null \/ tasks[t].next <= run[d].finished
    BY <1>4 DEF Schedule, CopiesInPlace
  <2>2. run[d].finished \in Nat /\ cur[d].row.interval \in Nat \ {0} /\ tasks[t].next \in Nat \cup {Null}
    BY <1>1, <2>1, StoreAssumption DEF RunCopy, TaskCopy, TaskRow
  <2>3. /\ tasks[u] # Null /\ pc'[d] = "idle"
        /\ tasks' = [tasks EXCEPT ![u].last = run[d].finished,
                                  ![u].next = run[d].finished + cur[d].row.interval]
    BY <1>4 DEF Schedule, ScheduleTaskAfterRun, EndTick, Goto
  <2>4. tasks[u] \in TaskRow
    BY <2>3
  <2>5. /\ tasks'[u] = [tasks[u] EXCEPT !.last = run[d].finished,
                                        !.next = run[d].finished + cur[d].row.interval]
        /\ tasks'[t] = tasks[t]
    BY <2>3
  <2>6. tasks'[u].next = run[d].finished + cur[d].row.interval
    BY <2>4, <2>5 DEF TaskRow
  <2>7. tasks'[u] # Null /\ tasks'[u].next # Null
    <3>1. tasks'[u] \in TaskRow
      <4> DEFINE fin == run[d].finished
                 next == fin + cur[d].row.interval
      <4>1. fin \in Nat /\ next \in Nat
        BY <2>2
      <4>2. tasks'[u] = [tasks[u] EXCEPT !.last = fin, !.next = next]
        BY <2>5
      <4> HIDE DEF fin, next
      <4>3. [tasks[u] EXCEPT !.last = fin, !.next = next] \in TaskRow
        BY <2>4, <4>1, ScheduledRow
      <4> QED
        BY <4>2, <4>3
    <3> QED
      BY <2>2, <2>6, <3>1, StoreAssumption
  <2>8. tasks'[t].next = Null \/ tasks'[t].next < tasks'[u].next
    BY <2>1, <2>2, <2>5, <2>6
  <2> QED
    BY <2>3, <2>7, <2>8 DEF InOrder, AheadOf
<1> QED
  BY <1>2, <1>3, <1>4
  DEF DaemonStep, BeginTick, RecoverStale, Gate, ListDue, TryStart, AcquireRefused, Acquire, Exit

\* Steps of the others move neither the daemon nor the rows of t and u.
LEMMA OthersWait ==
    ASSUME NEW d \in Daemons, IInv, SInv, NEW t \in Tasks, NEW u \in Tasks \ Editable,
           Waited(d, t, u), tasks'[t] = tasks[t], UNCHANGED <<due, cur, run>>,
           tasks[u] # Null => tasks'[u] = tasks[u],
           \/ pc'[d] = pc[d]
           \/ pc[d] \in {"exited", "down"} /\ pc'[d] = "idle"
    PROVE  Waited(d, t, u)'
BY DEF Waited, Running, InOrder, AheadOf, Holding

\* From then on t comes before u, while t stays due and nobody writes its row.
LEMMA WaitedStep ==
    ASSUME NEW d \in Daemons, OneDaemonNoFailure(d), IInv, SInv, GateHolds, ProjectsAreThere,
           [Next]_vars, NEW t \in Tasks, NEW u \in Tasks \ Editable, t # u, Due(t), Waited(d, t, u),
           tasks'[t] = tasks[t]
    PROVE  Waited(d, t, u)'
<1>1. CASE DaemonStep(d)
  BY <1>1, OrderIsKept, RunPutsBehind DEF Waited, OneDaemonNoFailure
<1>2. CASE Environment
  <2>1. UNCHANGED <<tasks, due, cur, run>>
    BY <1>2, NoFailureStep
    DEF Environment, Signal, Restart, OrphanEnds, AdvanceClock, tables, daemonVars, OneDaemonNoFailure
  <2>2. \/ pc'[d] = pc[d]
        \/ pc[d] \in {"exited", "down"} /\ pc'[d] = "idle"
    BY <1>2, NoFailureStep
    DEF Environment, Signal, Restart, OrphanEnds, AdvanceClock, Goto, daemonVars, OneDaemonNoFailure,
        IInv, TypeOK, SchedulerTypeOK
  <2> QED
    BY <2>1, <2>2, OthersWait
<1>3. CASE ClientStep /\ UNCHANGED daemonVars
  <2>1. tasks[u] # Null => tasks'[u] = tasks[u]
    BY <1>3, StoreAssumption
    DEF ClientStep, WriteTask, UpdateTask, Abandon, ReadTask, PatchProject, UpdateProject, AddProject,
        CreateProject, AddTask, CreateTask, tables, SInv, ClientsEdit, IInv, TypeOK, SchedulerTypeOK,
        StoreTypeOK
  <2>2. UNCHANGED <<pc, due, cur, run>>
    BY <1>3 DEF daemonVars
  <2> QED
    BY <2>1, <2>2, OthersWait
<1>4. CASE UNCHANGED vars
  <2>1. UNCHANGED <<tasks, pc, due, cur, run>>
    BY <1>4 DEF vars, tables, daemonVars
  <2> QED
    BY <2>1, OthersWait
<1> QED
  BY <1>1, <1>2, <1>3, <1>4 DEF Next, OneDaemonNoFailure

BypassInv(d) ==
    \A t \in Tasks, u \in Tasks \ Editable :
        /\ passed[t][u] \in {0, 1}
        /\ passed[t][u] = 1 => t # u /\ Due(t) /\ Waited(d, t, u)

\* So u does not run a second time while t stays due and its row as it is.
LEMMA BypassStep ==
    ASSUME NEW d \in Daemons, OneDaemonNoFailure(d), IInv, SInv, GateHolds, ProjectsAreThere,
           BypassInv(d), HNext
    PROVE  BypassInv(d)'
<1> SUFFICES ASSUME NEW t \in Tasks, NEW u \in Tasks \ Editable
             PROVE  /\ passed'[t][u] \in {0, 1}
                    /\ passed'[t][u] = 1 => t # u /\ Due(t)' /\ Waited(d, t, u)'
  BY DEF BypassInv
<1> DEFINE resets == ~Due(t) \/ ~Due(t)' \/ tasks'[t] # tasks[t] \/ Started(t)
<1>1. passed'[t][u] = IF resets THEN 0 ELSE passed[t][u] + Count(Started(u))
  BY DEF HNext, Observe
<1>2. [Next]_vars
  BY DEF HNext
<1>3. CASE resets
  BY <1>1, <1>3
<1>4. CASE ~resets /\ Started(u)
  <2>1. PICK e \in Daemons :
          Acquire(e) /\ cur[e] \in TaskCopy /\ cur[e].id = u /\ pc[e] = "acquire" /\ pc'[e] = "exec"
    BY <1>2, <1>4, OnlyAcquireStarts
  <2>2. e = d /\ cur'[e] = cur[e]
    BY <2>1 DEF OneDaemonNoFailure, Acquire
  <2>3. Waited(d, t, u)'
    BY <2>1, <2>2 DEF Waited, Running, Holding
  <2>4. ~Waited(d, t, u)
    BY <2>1, <2>2 DEF Waited, Running, InOrder, Holding
  <2>5. passed[t][u] = 0
    BY <2>4 DEF BypassInv
  <2> QED
    BY <1>1, <1>4, <2>3, <2>5 DEF Count
<1>5. CASE ~resets /\ ~Started(u)
  <2>1. passed'[t][u] = passed[t][u] /\ passed[t][u] \in {0, 1}
    BY <1>1, <1>5 DEF Count, BypassInv
  <2> QED
    BY <1>2, <1>5, <2>1, WaitedStep DEF BypassInv
<1> QED
  BY <1>3, <1>4, <1>5

\* A task that stays due sees every other task run at most once before it, however
\* many tasks there are: no task that keeps coming due starves it.  For any number of
\* clients, who may edit the waiting task but not the one that runs ahead of it.
THEOREM WaitingIsBounded ==
    ASSUME NEW d \in Daemons, OneDaemonNoFailure(d)
    PROVE  HSpec => []BoundedBypass
<1>1. HInit => GateHolds /\ SingleRun /\ BypassInv(d)
  BY DEF HInit, Init, SchedulerInit, StoreInit, GateHolds, SingleRun, Locked, BypassInv
<1>2. IInv /\ SInv /\ GateHolds /\ SingleRun /\ [HNext]_<<vars, histVars>> => GateHolds' /\ SingleRun'
  BY HistoryObserves, SingleRunStep DEF OneDaemonNoFailure
<1>3. IInv /\ SInv /\ GateHolds /\ ProjectsAreThere /\ BypassInv(d) /\ [HNext]_<<vars, histVars>> => BypassInv(d)'
  <2>1. BypassInv(d) /\ UNCHANGED <<vars, histVars>> => BypassInv(d)'
    BY DEF BypassInv, Due, Enabled, Waited, Running, InOrder, AheadOf, vars, tables, daemonVars, histVars
  <2> QED
    BY <2>1, BypassStep
<1>4. BypassInv(d) => BoundedBypass
  BY DEF BypassInv, BoundedBypass
<1>5. HSpec => []ProjectsAreThere
  BY HistorySpec, TasksHaveProjects, PTL
<1>6. HSpec => [](IInv /\ SInv)
  BY HistorySpec, ScheduleInvariant, PTL
<1> QED
  BY <1>1, <1>2, <1>3, <1>4, <1>5, <1>6, PTL DEF HSpec

=============================================================================
