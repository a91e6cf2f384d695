---------------------------- MODULE MasterAgent ----------------------------
(***************************************************************************)
(* master-agent: daemons and clients on one database.                      *)
(***************************************************************************)
EXTENDS Scheduler, Clients

vars == <<now, tables, daemonVars, clientVars>>

Init == SchedulerInit /\ ClientsInit

Next ==
    \/ (\E d \in Daemons : DaemonStep(d)) /\ UNCHANGED clientVars
    \/ Environment /\ UNCHANGED clientVars
    \/ ClientStep /\ UNCHANGED daemonVars

Spec == Init /\ [][Next]_vars

(***************************************************************************)
(* Fairness, for the liveness properties.  A live daemon goes on making    *)
(* its calls, and the supervisor starts one that is gone again (restart:   *)
(* unless-stopped).  That SSH sessions end (Finish, OrphanEnds) is an      *)
(* assumption on remote commands, not on this code: Runner.Run has no      *)
(* timeout of its own.                                                     *)
(***************************************************************************)
Fairness ==
    /\ \A d \in Daemons : /\ WF_vars(DaemonStep(d) /\ UNCHANGED clientVars)
                          /\ WF_vars(Restart(d) /\ UNCHANGED clientVars)
    /\ \A r \in RunIds : WF_vars(OrphanEnds(r) /\ UNCHANGED clientVars)

FairSpec == Spec /\ Fairness

-----------------------------------------------------------------------------
(* Safety.                                                                   *)

\* Every variable holds values of its Go or SQL type, in every reachable state.
TypeOK == SchedulerTypeOK /\ ClientsTypeOK

\* The locks table and the running rows of runs tell the same story after any
\* interleaving, failed call or crash: a lock names a running run of its project
\* and task, and a running run is the one its project's lock names.
LockedIffRunning ==
    /\ \A p \in Projects : Locked(p) =>
         LET r == runs[locks[p].run]
         IN  r # Null /\ r.status = "running" /\ r.project = p /\ r.task = locks[p].task
    /\ \A r \in RunIds : (runs[r] # Null /\ runs[r].status = "running") =>
         LET l == locks[runs[r].project] IN l # Null /\ l.run = r

\* The point of the project lock: two live SSH sessions never work in the same
\* project, with any number of daemons, and with sessions that outlive theirs.
OneSessionPerProject ==
    \A r, s \in sessions :
        runs[r] # Null /\ runs[s] # Null /\ (runs[r].project = runs[s].project => r = s)

\* "One active run globally": HasAnyLock and AcquireRunLock are two statements,
\* so this is a promise to a deployment with one daemon (Daemons a singleton).
SingleRun == \A p, q \in Projects : Locked(p) /\ Locked(q) => p = q

\* A lock nobody will release has been leaked by a failed call or a crash; none
\* is left behind by tries that are refused, by errors of the run, or by SIGTERM.
HeldBy(d, p) == pc[d] \in {"exec", "release"} /\ run[d].id = locks[p].run

NoLeakedLock ==
    faults + crashes = 0 =>
        \A p \in Projects : Locked(p) => \E d \in Daemons : HeldBy(d, p)

\* A run's row is final once it is not running: neither a late release nor stale
\* recovery rewrites the outcome of a run.
FinishedRunsAreFinal ==
    [][\A r \in RunIds : runs[r] # Null /\ runs[r].status # "running" => runs'[r] = runs[r]]_vars

\* A run of a task starts no sooner than its interval after the end of any
\* earlier run of it: what "no immediate retry" asks, after success and failure.
SpacedStart(t) ==
    \A r, s \in RunIds :
        (/\ runs[r] = Null /\ runs'[r] # Null /\ runs'[r].task = t
         /\ runs[s] # Null /\ runs[s].task = t /\ runs[s].finished # Null)
        => now >= runs[s].finished + tasks[t].interval

\* As the documents promise it, for every task.
NoImmediateRetry == [][\A t \in Tasks : SpacedStart(t)]_vars

\* As the code keeps it: for tasks no client edits, with one daemon and no failure
\* or crash between Release and ScheduleTaskAfterRun.
NoImmediateRetryUnedited == [][\A t \in Tasks \ Editable : SpacedStart(t)]_vars

\* The task row reflects the latest finished run of the task (last_run_at, and
\* next_run_at one interval later) whenever its daemon is not about to write it.
ScheduleFollowsRuns ==
    \A t \in Tasks \ Editable, r \in RunIds :
        (/\ runs[r] # Null /\ runs[r].task = t /\ runs[r].finished # Null
         /\ \A d \in Daemons : pc[d] = "schedule" => cur[d].id # t)
        => /\ tasks[t].last # Null /\ tasks[t].last >= runs[r].finished
           /\ tasks[t].next = tasks[t].last + tasks[t].interval

-----------------------------------------------------------------------------
(* The inductive invariant behind the safety properties: what each program   *)
(* point of a daemon knows about its own copies, and which rows it owns.     *)

Holding == {"exec", "release"}

\* tryStart has a task from "acquire" on; from Locks.Acquire on it has a run too,
\* which is over once Runner.Run has returned.
CopiesInPlace ==
    \A d \in Daemons :
        /\ pc[d] \in Holding \cup {"acquire", "schedule"} => cur[d] # Null
        /\ pc[d] \in Holding \cup {"schedule"} => run[d] # Null
        /\ pc[d] \in {"release", "schedule"} => run[d].finished # Null
        /\ pc[d] = "release" => run[d].status # "running"

\* Between Acquire and Release the lock of the task's project is this daemon's.
HolderHasLock ==
    \A d \in Daemons : pc[d] \in Holding =>
        /\ Locked(ProjectOf[cur[d].id])
        /\ locks[ProjectOf[cur[d].id]].run = run[d].id

\* No two daemons hold the same run.
HoldersDiffer ==
    \A d, e \in Daemons :
        pc[d] \in Holding /\ pc[e] \in Holding /\ run[d].id = run[e].id => d = e

\* The daemon records no pid in its locks, so recovery passes them all over.
NoPids == PidLocks = {}

\* A live SSH session belongs to a run that is not finished: it is over before
\* the run is released, and a run nobody can release stays running.
SessionsRun == \A r \in sessions : runs[r] # Null /\ runs[r].status = "running"
SessionsOver == \A d \in Daemons : pc[d] = "release" => run[d].id \notin sessions

IInv ==
    /\ TypeOK
    /\ LockedIffRunning
    /\ CopiesInPlace
    /\ HolderHasLock
    /\ HoldersDiffer
    /\ NoPids
    /\ SessionsRun
    /\ SessionsOver

-----------------------------------------------------------------------------
(* Refinement: seen through the lock and run tables, the system is RunLock.  *)

Holder == [p \in Projects |-> IF Locked(p) THEN locks[p].run ELSE Null]
Result == [r \in RunIds |-> IF runs[r] = Null THEN Null ELSE runs[r].status]

RL == INSTANCE RunLock WITH holder <- Holder, result <- Result

\* The tables implement the abstract project lock: no lock is taken over, none
\* vanishes but by the end of its own run, no run id is used twice.
ImplementsRunLock == RL!Spec

-----------------------------------------------------------------------------
(* Liveness.                                                                 *)

\* A locked project is unlocked again: the task's other runs, and those of every
\* other project while one run is allowed globally, wait for it.
LocksAreReleased == \A p \in Projects : Locked(p) ~> ~Locked(p)

\* SIGTERM ends the daemon, after the tick and the run in flight.
SignalledDaemonExits == \A d \in Daemons : term[d] ~> pc[d] \in {"exited", "down"}

=============================================================================
