---------------------------- MODULE LockManager ----------------------------
(***************************************************************************)
(* The project lock with process ids (internal/lock): what Acquire,        *)
(* Release and RecoverStale do for callers that record the pid of the      *)
(* local SSH client, as the package's tests do and specs/02-scheduler.md   *)
(* asks.  The daemon passes no pid; see Scheduler for what that means.     *)
(*                                                                         *)
(* A manager is one process with one thread of control: it holds at most   *)
(* one lock, and recovers while it holds none.  RecoverStale is not one    *)
(* transaction: it lists the locks, then for each probes the pid, then     *)
(* clears by project id, and anything may happen in between.               *)
(***************************************************************************)
EXTENDS Store, FiniteSets

CONSTANTS
    Managers,    \* processes that use the package on this database
    MaxLosses    \* bound: managers killed

ASSUME LockManagerAssumption == MaxLosses \in Nat /\ IsFiniteSet(Managers)

VARIABLES
    alive,       \* pids the operating system knows
    held,        \* manager -> the lock it took and has not released
    listed,      \* manager -> what ListLocks returned and it has still to look at
    doomed,      \* manager -> the lock it found stale, as it was listed
    losses       \* managers killed so far

mgrVars == <<alive, held, listed, doomed, losses>>
vars == <<now, tables, mgrVars>>

Held == [project : Projects, run : RunIds, pid : Pids \cup {Null}]
Listed == [project : Projects, pid : Pids \cup {Null}]

TypeOK ==
    /\ StoreTypeOK
    /\ alive \subseteq Pids
    /\ held \in [Managers -> Held \cup {Null}]
    /\ listed \in [Managers -> SUBSET Listed]
    /\ doomed \in [Managers -> Listed \cup {Null}]
    /\ losses \in Nat

\* The lock package looks at no enabled flag: they are all TRUE here.
Init ==
    /\ StoreInit
    /\ \A p \in Projects : projects[p] # Null => projects[p].enabled
    /\ \A t \in Tasks : tasks[t] # Null => tasks[t].enabled
    /\ alive = {}
    /\ held = [m \in Managers |-> Null]
    /\ listed = [m \in Managers |-> {}]
    /\ doomed = [m \in Managers |-> Null]
    /\ losses = 0

-----------------------------------------------------------------------------

Idle(m) == held[m] = Null /\ listed[m] = {} /\ doomed[m] = Null

\* A pid that is free: no process has it, no lock and no recovery under way
\* remembers it (pids are not reused while they matter).
FreshPid(pid) ==
    /\ pid \notin alive
    /\ \A p \in Projects : Locked(p) => locks[p].pid # pid
    /\ \A m \in Managers : /\ \A l \in listed[m] : l.pid # pid
                           /\ doomed[m] # Null => doomed[m].pid # pid

\* Acquire, with the pid of a live process or with none.  A refusal (ErrLocked)
\* changes nothing and is not a step.
Acquire(m, t, pid) ==
    /\ Idle(m) /\ tasks[t] # Null
    /\ pid # Null => FreshPid(pid)
    /\ AcquireRunLock(ProjectOf[t], t, pid)
    /\ held' = [held EXCEPT ![m] = [project |-> ProjectOf[t], run |-> newID, pid |-> pid]]
    /\ alive' = alive \cup ({pid} \ {Null})
    /\ UNCHANGED <<now, listed, doomed, losses>>

\* The SSH client ends, by itself or because somebody kills it.
ProcessEnds(pid) ==
    /\ pid \in alive
    /\ alive' = alive \ {pid}
    /\ UNCHANGED <<now, tables, held, listed, doomed, losses>>

\* Release, once the SSH client has been waited for, on every outcome.
Release(m) ==
    /\ held[m] # Null /\ held[m].pid \notin alive
    /\ \E status \in {"success", "error"} :
         ReleaseRunLock(held[m].project, held[m].run, Null, status)
    /\ held' = [held EXCEPT ![m] = Null]
    /\ UNCHANGED <<now, alive, listed, doomed, losses>>

\* RecoverStale: ListLocks.
ListLocks(m) ==
    /\ Idle(m)
    /\ listed' = [listed EXCEPT ![m] =
                    {[project |-> p, pid |-> locks[p].pid] : p \in {p \in Projects : Locked(p)}}]
    /\ UNCHANGED <<now, tables, alive, held, doomed, losses>>

\* Mutants of Stale: a lock without a pid counts as dead; the probe is inverted.
StaleWithoutPid(l) == l.pid \notin alive
StaleIfAlive(l) == l.pid # Null /\ l.pid \in alive

\* The loop's body up to Checker.Alive: a lock without a pid or with a live one is
\* passed over.
Stale(l) == l.pid # Null /\ l.pid \notin alive

Probe(m) ==
    /\ doomed[m] = Null
    /\ \E l \in listed[m] :
         /\ listed' = [listed EXCEPT ![m] = @ \ {l}]
         /\ doomed' = [doomed EXCEPT ![m] = IF Stale(l) THEN l ELSE Null]
    /\ UNCHANGED <<now, tables, alive, held, losses>>

\* The loop's body from there: ClearStaleLock by project id.
Clear(m) ==
    /\ doomed[m] # Null
    /\ ClearStaleLock(doomed[m].project)
    /\ doomed' = [doomed EXCEPT ![m] = Null]
    /\ UNCHANGED <<now, alive, held, listed, losses>>

\* ErrNotFound, somebody else cleared or released it: the whole loop gives up.
ClearFails(m) ==
    /\ doomed[m] # Null /\ ~Locked(doomed[m].project)
    /\ doomed' = [doomed EXCEPT ![m] = Null]
    /\ listed' = [listed EXCEPT ![m] = {}]
    /\ UNCHANGED <<now, tables, alive, held, losses>>

\* The manager is killed, and restarted idle; its SSH client may live on.
Lose(m) ==
    /\ losses < MaxLosses /\ ~Idle(m)
    /\ losses' = losses + 1
    /\ held' = [held EXCEPT ![m] = Null]
    /\ listed' = [listed EXCEPT ![m] = {}]
    /\ doomed' = [doomed EXCEPT ![m] = Null]
    /\ UNCHANGED <<now, tables, alive>>

Next ==
    \/ \E m \in Managers :
         \/ \E t \in Tasks, pid \in Pids \cup {Null} : Acquire(m, t, pid)
         \/ ListLocks(m) \/ Probe(m) \/ Clear(m) \/ ClearFails(m)
         \/ Release(m) \/ Lose(m)
    \/ \E pid \in Pids : ProcessEnds(pid)

Spec == Init /\ [][Next]_vars

\* SSH clients end, and a manager that holds a lock releases it.  The daemon runs
\* RecoverStale before every attempt to acquire: a recovery begun goes on, and
\* while some lock stays, recovery is begun again (strong fairness on ListLocks,
\* which taking a lock disables).
Fairness ==
    /\ \A pid \in Pids : WF_vars(ProcessEnds(pid))
    /\ \A m \in Managers : /\ WF_vars(Release(m))
                           /\ SF_vars(ListLocks(m))
                           /\ WF_vars(Probe(m) \/ Clear(m) \/ ClearFails(m))

FairSpec == Spec /\ Fairness

-----------------------------------------------------------------------------

\* A lock names a running run of its project: neither a release nor a clear, each
\* of which deletes by project id, leaves a lock of a run that is over.  (The
\* converse needs one process: a holder that is cleared while its client has ended
\* and it has still to release then frees the lock of the next run.)
LocksNameRunningRuns ==
    \A p \in Projects : Locked(p) =>
        LET r == runs[locks[p].run] IN r # Null /\ r.status = "running" /\ r.project = p

\* Recovery takes a lock from a live SSH client, or from a holder that recorded no
\* pid, only in one way: another process took the dead lock away between the probe
\* and the clear and the project was locked anew.  One process alone never does.
OnlyDeadLocksCleared ==
    [][\A m \in Managers, p \in Projects :
         (doomed[m] # Null /\ doomed[m].project = p /\ doomed'[m] = Null
          /\ Locked(p) /\ ~Locked(p)')
         => \/ locks[p].pid # Null /\ locks[p].pid \notin alive
            \/ Cardinality(Managers) > 1 /\ locks[p].pid # doomed[m].pid]_vars

\* With a pid, a lock does not outlive its SSH client for ever, even if its holder
\* has crashed: recovery sees to it.
PidLocksAreReleased ==
    \A p \in Projects : Locked(p) /\ locks[p].pid # Null ~> ~Locked(p)

=============================================================================
