------------------------------- MODULE Store -------------------------------
(***************************************************************************)
(* The SQLite database behind master-agent (internal/store): the tables    *)
(* projects, tasks, runs and locks, and the statements the scheduler, the  *)
(* HTTP API and the CLI issue against them.  Every statement or            *)
(* transaction of the package is atomic here, as SQLite makes it; what     *)
(* callers do BETWEEN two statements is left to the modules that extend    *)
(* this one.  Rows are never deleted, except locks: the package has no     *)
(* delete for projects, tasks or runs.                                     *)
(*                                                                         *)
(* Abstractions: a timestamp is a natural number (its text form is not     *)
(* modelled here); names, prompts, commands, SSH fields, exit codes and    *)
(* error texts are left out; a task's project_id never changes, because no *)
(* caller of UpdateTask changes it.                                        *)
(***************************************************************************)
EXTENDS Integers

CONSTANTS
    Projects,    \* ids of projects that may ever be created
    Tasks,       \* ids of tasks that may ever be created
    ProjectOf,   \* tasks.project_id
    Intervals,   \* admissible values of tasks.interval_seconds
    RunIds,      \* ids that newID may hand to runs; a bound when finite
    Pids,        \* process ids a lock row may carry
    Null         \* SQL NULL, and the absence of a row

VARIABLES
    now,         \* the clock every process reads (time.Now)
    projects,    \* project id -> row
    tasks,       \* task id -> row
    runs,        \* run id -> row
    locks        \* project id -> row; the table's primary key is project_id

tables == <<projects, tasks, runs, locks>>

-----------------------------------------------------------------------------

Status == {"running", "success", "error"}

ProjectRow == [enabled : BOOLEAN]

TaskRow == [enabled : BOOLEAN, interval : Intervals,
            last : Nat \cup {Null}, next : Nat \cup {Null}]

RunRow == [task : Tasks, project : Projects, started : Nat,
           finished : Nat \cup {Null}, status : Status]

LockRow == [task : Tasks, run : RunIds, pid : Pids \cup {Null}]

\* A task as the Go code holds it: its id and the row it was read with.
TaskCopy == [id : Tasks, row : TaskRow]

\* Task ids are compared (ORDER BY ... t.id), hence numbers; the CLI and the
\* API both refuse an interval that is not positive.
ASSUME StoreAssumption ==
    /\ Tasks \subseteq Nat
    /\ ProjectOf \in [Tasks -> Projects]
    /\ Intervals \subseteq Nat \ {0}
    /\ Null \notin Nat \cup Pids \cup RunIds
    /\ Null \notin ProjectRow
    /\ Null \notin TaskRow
    /\ Null \notin RunRow
    /\ Null \notin LockRow
    /\ Null \notin TaskCopy

StoreTypeOK ==
    /\ now \in Nat
    /\ projects \in [Projects -> ProjectRow \cup {Null}]
    /\ tasks \in [Tasks -> TaskRow \cup {Null}]
    /\ runs \in [RunIds -> RunRow \cup {Null}]
    /\ locks \in [Projects -> LockRow \cup {Null}]

-----------------------------------------------------------------------------
(* Rows as they are first inserted, and the states a database can be in when *)
(* the daemon is started for the first time: any set of projects and tasks   *)
(* already added through the CLI or the API, none of them run yet.           *)

NewTask == [enabled : BOOLEAN, interval : Intervals, last : {Null}, next : {Null}]

StoreInit ==
    /\ now = 0
    /\ projects \in [Projects -> ProjectRow \cup {Null}]
    /\ tasks \in [Tasks -> NewTask \cup {Null}]
    /\ \A t \in Tasks : tasks[t] # Null => projects[ProjectOf[t]] # Null
    /\ runs = [r \in RunIds |-> Null]
    /\ locks = [p \in Projects |-> Null]

-----------------------------------------------------------------------------
(* Statements on locks and runs (internal/store/lock.go).                    *)

Locked(p) == locks[p] # Null

\* Mutant of newID: ids are not random enough.
CollidingID == CHOOSE r \in RunIds : TRUE

\* A run id no row has; ids are random, so which one is of no consequence.
newID == CHOOSE r \in RunIds : runs[r] = Null

\* Mutant of AcquireRunLock: the lock row is replaced, not inserted.
StealRunLock(p, t, pid) ==
    /\ \E r \in RunIds : runs[r] = Null
    /\ runs' = [runs EXCEPT ![newID] =
                  [task |-> t, project |-> p, started |-> now,
                   finished |-> Null, status |-> "running"]]
    /\ locks' = [locks EXCEPT ![p] = [task |-> t, run |-> newID, pid |-> pid]]
    /\ UNCHANGED <<projects, tasks>>

\* The transaction of AcquireRunLock when the project is not locked: a running
\* run and the lock that names it appear together.
AcquireRunLock(p, t, pid) ==
    /\ ~Locked(p)
    /\ \E r \in RunIds : runs[r] = Null
    /\ runs' = [runs EXCEPT ![newID] =
                  [task |-> t, project |-> p, started |-> now,
                   finished |-> Null, status |-> "running"]]
    /\ locks' = [locks EXCEPT ![p] = [task |-> t, run |-> newID, pid |-> pid]]
    /\ UNCHANGED <<projects, tasks>>

\* Mutant of ReleaseRunLock: the lock goes, the run's row is left as it is.
DropLock(p, r, finished, status) ==
    /\ runs[r] # Null
    /\ locks' = [locks EXCEPT ![p] = Null]
    /\ UNCHANGED <<projects, tasks, runs>>

\* ReleaseRunLock: the run's row takes the caller's outcome and the project's
\* lock goes, whichever run that lock names.  It fails when the run is unknown.
ReleaseRunLock(p, r, finished, status) ==
    /\ runs[r] # Null
    /\ runs' = [runs EXCEPT
                  ![r].finished = IF finished = Null THEN now ELSE finished,
                  ![r].status = status]
    /\ locks' = [locks EXCEPT ![p] = Null]
    /\ UNCHANGED <<projects, tasks>>

\* Mutants of ClearStaleLock: the lock is not deleted; the run gets a status of
\* its own.
ClearRunOnly(p) ==
    /\ Locked(p)
    /\ runs' = [runs EXCEPT ![locks[p].run].finished = now,
                            ![locks[p].run].status = "error"]
    /\ UNCHANGED <<locks, projects, tasks>>

MarkRunLost(p) ==
    /\ Locked(p)
    /\ runs' = [runs EXCEPT ![locks[p].run].finished = now,
                            ![locks[p].run].status = "lost"]
    /\ locks' = [locks EXCEPT ![p] = Null]
    /\ UNCHANGED <<projects, tasks>>

\* ClearStaleLock: the run the lock names NOW becomes an error ("process lost").
ClearStaleLock(p) ==
    /\ Locked(p)
    /\ runs' = [runs EXCEPT ![locks[p].run].finished = now,
                            ![locks[p].run].status = "error"]
    /\ locks' = [locks EXCEPT ![p] = Null]
    /\ UNCHANGED <<projects, tasks>>

\* Locks with a pid: the only ones stale-lock recovery looks at.
PidLocks == {p \in Projects : Locked(p) /\ locks[p].pid # Null}

HasAnyLock == \E p \in Projects : Locked(p)

-----------------------------------------------------------------------------
(* Statements on schedules (internal/store/schedule.go).                     *)

Enabled(t) == tasks[t] # Null /\ tasks[t].enabled /\ projects[ProjectOf[t]].enabled

Due(t) == Enabled(t) /\ (tasks[t].next = Null \/ tasks[t].next <= now)

\* Mutant of ListDueTasks: enabled is neither filtered on nor scanned.
ListAllTasks ==
    {[id |-> t, row |-> [tasks[t] EXCEPT !.enabled = TRUE]] :
        t \in {t \in Tasks : tasks[t] # Null /\ (tasks[t].next = Null \/ tasks[t].next <= now)}}

ListDueTasks == {[id |-> t, row |-> tasks[t]] : t \in {t \in Tasks : Due(t)}}

\* Mutant of Before: tasks that never ran come last.
BeforeNullsLast(a, b) ==
    \/ a.row.next # Null /\ b.row.next = Null
    \/ a.row.next = b.row.next /\ a.id < b.id
    \/ /\ a.row.next # Null /\ b.row.next # Null
       /\ a.row.next < b.row.next

\* ORDER BY next_run_at IS NULL first, next_run_at, id.
Before(a, b) ==
    \/ a.row.next = Null /\ b.row.next # Null
    \/ a.row.next = b.row.next /\ a.id < b.id
    \/ /\ a.row.next # Null /\ b.row.next # Null
       /\ a.row.next < b.row.next

IsFirst(s, S) == s \in S /\ \A u \in S \ {s} : Before(s, u)

\* ErrNotFound, and no step, when there is no such row.
ScheduleTaskAfterRun(t, finished, interval) ==
    /\ tasks[t] # Null
    /\ tasks' = [tasks EXCEPT ![t].last = finished, ![t].next = finished + interval]
    /\ UNCHANGED <<projects, runs, locks>>

-----------------------------------------------------------------------------
(* Statements on projects and tasks (internal/store/crud.go).  An UPDATE     *)
(* writes the whole row the caller holds, and fails when the row is not there. *)

CreateProject(p, row) ==
    /\ projects[p] = Null
    /\ projects' = [projects EXCEPT ![p] = row]
    /\ UNCHANGED <<tasks, runs, locks>>

\* The foreign key wants the project's row.
CreateTask(t, row) ==
    /\ tasks[t] = Null
    /\ projects[ProjectOf[t]] # Null
    /\ tasks' = [tasks EXCEPT ![t] = row]
    /\ UNCHANGED <<projects, runs, locks>>

UpdateProject(p, row) ==
    /\ projects[p] # Null
    /\ projects' = [projects EXCEPT ![p] = row]
    /\ UNCHANGED <<tasks, runs, locks>>

UpdateTask(t, row) ==
    /\ tasks[t] # Null
    /\ tasks' = [tasks EXCEPT ![t] = row]
    /\ UNCHANGED <<projects, runs, locks>>

=============================================================================
