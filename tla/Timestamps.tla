----------------------------- MODULE Timestamps -----------------------------
(***************************************************************************)
(* Times as the database holds them.  Every column that holds a time holds *)
(* RFC 3339 text whose fraction drops its trailing zeros, and SQLite       *)
(* compares and sorts that text byte by byte: the due list, the latest run *)
(* and the run listings all order strings.  The fraction's '.' sorts below *)
(* every digit and the final 'Z' above, so "…:00Z" comes after "…:00.5Z".  *)
(* Next to the text, ghost variables keep the times themselves, and the    *)
(* properties say how far the text may stray from them.                    *)
(*                                                                         *)
(* A clock tick stands for a nanosecond, PerSecond of them for a second;   *)
(* year to second is one number of SecondDigits digits.  One process at a  *)
(* time runs tasks here: who may is the subject of the module Scheduler.   *)
(***************************************************************************)
EXTENDS Integers, Sequences, FiniteSets, Functions

CONSTANTS
    Base,            \* of the digits
    SecondDigits,    \* digits of the part before the fraction: a fixed width
    FractionDigits,  \* digits of a full fraction; PerSecond is Base to that power
    DurationLimit,   \* a Go duration of this many ticks no longer fits its int64
    Epoch,           \* the tick the clock starts at
    MaxClock,        \* bound: the clock stops here
    MaxRuns,         \* bound: runs that are started
    Projects, Tasks, Intervals,
    ProjectOf,       \* tasks.project_id
    Null

\* There are at least two digits.  What Base ^ k is, for the exponents in use, is
\* said because the provers have no definition of it.
ASSUME PowerAssumption ==
    /\ Base \in Nat /\ Base >= 2
    /\ SecondDigits \in Nat /\ FractionDigits \in Nat
    /\ Base ^ 0 = 1
    /\ \A k \in 0 .. SecondDigits + FractionDigits : Base ^ (k + 1) = Base * Base ^ k

\* The clock and every time an interval may lead to stay within the width of
\* the seconds: until the year 9999 for Go's layout.
ASSUME ClockAssumption ==
    /\ Epoch \in Nat /\ MaxClock \in Nat /\ Epoch <= MaxClock /\ DurationLimit \in Nat \ {0}
    /\ MaxClock + DurationLimit <= Base ^ SecondDigits * Base ^ FractionDigits

ASSUME RowAssumption ==
    /\ MaxRuns \in Nat
    /\ Tasks \subseteq Nat /\ IsFiniteSet(Tasks)
    /\ Intervals \subseteq Nat
    /\ ProjectOf \in [Tasks -> Projects]
    /\ Null \notin Nat \cup Seq(Nat) \cup Projects \cup {"running", "success", "error"}

VARIABLES
    clock,           \* the daemon's clock, in ticks
    interval,        \* task -> interval_seconds
    next,            \* task -> the text of next_run_at, or Null
    runs,            \* the table runs, in the order of insertion: task, project, text
                     \* and tick of the start, status
    dueAt            \* ghost: task -> the tick it was promised for, or Null

timeVars == <<clock, interval, next, runs, dueAt>>

PerSecond == Base ^ FractionDigits

Status == {"running", "success", "error"}

-----------------------------------------------------------------------------
(* The text.  A character is its rank: '.', the digits, 'Z'.                 *)

Dot == 0
Zed == Base + 1

Digits(n, width) == [i \in 1 .. width |-> 1 + ((n \div Base ^ (width - i)) % Base)]

\* The layout's ".999999999": trailing zeros go, and the dot with them.
Fraction(ticks) ==
    LET digits == Digits(ticks, FractionDigits)
        last == CHOOSE k \in 0 .. FractionDigits :
                  /\ k > 0 => digits[k] # 1
                  /\ \A j \in k + 1 .. FractionDigits : digits[j] = 1
    IN  IF last = 0 THEN <<>> ELSE <<Dot>> \o SubSeq(digits, 1, last)

Format(ticks) ==
    Digits(ticks \div PerSecond, SecondDigits) \o Fraction(ticks % PerSecond) \o <<Zed>>

\* a < b for SQLite's BINARY collation: where they part, at the i-th character,
\* a has ended or has the smaller one.
SortsBefore(a, b) ==
    \E i \in 1 .. Len(b) :
      /\ i <= Len(a) + 1
      /\ \A j \in 1 .. i - 1 : a[j] = b[j]
      /\ i <= Len(a) => a[i] < b[i]

-----------------------------------------------------------------------------
\* Mutant of Duration: the interval is taken for nanoseconds.
Nanoseconds(seconds) == seconds

\* time.Duration(intervalSeconds) * time.Second, a 64-bit product.
Duration(seconds) ==
    ((seconds * PerSecond + DurationLimit) % (2 * DurationLimit)) - DurationLimit

\* The interval's duration is the one that was asked for.
Fits(seconds) == seconds * PerSecond < DurationLimit

-----------------------------------------------------------------------------
(* Queries.                                                                  *)

\* The rows of S, each at its place by the strict order R: as many rows come
\* before it as R puts there.  (SetToSortSeq rests on TLC's SortSeq, which has
\* no definition a proof could use.)
Ordered(S, R) ==
    LET before == [row \in S |-> Cardinality({other \in S : <<other, row>> \in R})]
    IN  [i \in 1 .. Cardinality(S) |-> CHOOSE row \in S : before[row] = i - 1]

Due(t) == next[t] = Null \/ ~SortsBefore(Format(clock), next[t])

\* Mutant of Earlier: ORDER BY next_run_at DESC.
Later(t, u) ==
    \/ next[t] = Null /\ next[u] # Null
    \/ /\ next[t] # Null /\ next[u] # Null
       /\ \/ SortsBefore(next[u], next[t])
          \/ next[t] = next[u] /\ t < u
    \/ next[t] = Null /\ next[u] = Null /\ t < u

\* ORDER BY (next_run_at IS NOT NULL), next_run_at, id.
Earlier(t, u) ==
    \/ next[t] = Null /\ next[u] # Null
    \/ /\ next[t] # Null /\ next[u] # Null
       /\ \/ SortsBefore(next[t], next[u])
          \/ next[t] = next[u] /\ t < u
    \/ next[t] = Null /\ next[u] = Null /\ t < u

ListDueTasks ==
    Ordered({t \in Tasks : Due(t)}, {p \in Tasks \X Tasks : Earlier(p[1], p[2])})

\* RunFilter: a project, a task and a status, each of them optional.
Filter == [project : Projects \cup {Null}, task : Tasks \cup {Null},
           status : Status \cup {Null}]

\* Mutant of Matches: a task that is given hides the project that is given.
MatchesTaskFirst(r, f) ==
    /\ IF f.task # Null THEN runs[r].task = f.task
                        ELSE f.project = Null \/ runs[r].project = f.project
    /\ f.status = Null \/ runs[r].status = f.status

\* The WHERE clause: a condition for each field that is given.
Matches(r, f) ==
    /\ f.project = Null \/ runs[r].project = f.project
    /\ f.task = Null \/ runs[r].task = f.task
    /\ f.status = Null \/ runs[r].status = f.status

\* ORDER BY started_at DESC, id DESC.  Ids are random: any order will do.
Newer(r, s) ==
    \/ SortsBefore(runs[s].started, runs[r].started)
    \/ runs[r].started = runs[s].started /\ s < r

ListRuns(f) ==
    Ordered({r \in DOMAIN runs : Matches(r, f)},
            {p \in (DOMAIN runs) \X (DOMAIN runs) : Newer(p[1], p[2])})

LatestRunForTask(t) ==
    LET listed == ListRuns([project |-> Null, task |-> t, status |-> Null])
    IN  IF listed = <<>> THEN Null ELSE listed[1]

-----------------------------------------------------------------------------
TimeInit ==
    /\ clock = Epoch
    /\ interval \in [Tasks -> Intervals]
    /\ next = [t \in Tasks |-> Null]
    /\ runs = <<>>
    /\ dueAt = [t \in Tasks |-> Null]

Running == {r \in DOMAIN runs : runs[r].status = "running"}

Advance ==
    /\ clock < MaxClock
    /\ clock' = clock + 1
    /\ UNCHANGED <<interval, next, runs, dueAt>>

\* The first task of the due list gets a run that starts now.
Start ==
    /\ Running = {} /\ Len(runs) < MaxRuns
    /\ ListDueTasks # <<>>
    /\ runs' = Append(runs, [task |-> ListDueTasks[1], project |-> ProjectOf[ListDueTasks[1]],
                             started |-> Format(clock), at |-> clock, status |-> "running"])
    /\ UNCHANGED <<clock, interval, next, dueAt>>

\* The run's row gets its status and ScheduleTaskAfterRun the task's next time.
ScheduleTaskAfterRun(status) ==
    \E r \in Running : LET t == runs[r].task IN
      /\ runs' = [runs EXCEPT ![r].status = status]
      /\ next' = [next EXCEPT ![t] = Format(clock + Duration(interval[t]))]
      /\ dueAt' = [dueAt EXCEPT ![t] = clock + interval[t] * PerSecond]
      /\ UNCHANGED <<clock, interval>>

TimeNext ==
    \/ Advance
    \/ Start
    \/ \E status \in Status \ {"running"} : ScheduleTaskAfterRun(status)

-----------------------------------------------------------------------------
\* A task whose interval fits a duration is never due a whole second before
\* its time, and is due at the latest when a second has passed since, although
\* next_run_at and the clock are compared as text (ListDueTasks).
DueToTheSecond ==
    \A t \in Tasks : dueAt[t] # Null /\ Fits(interval[t]) =>
      /\ Due(t) => clock + PerSecond > dueAt[t]
      /\ clock >= dueAt[t] + PerSecond => Due(t)

\* A task that starts is not a whole second younger in the queue than another
\* that waits: the text order of next_run_at decides only within a second.
OldestStartsFirst ==
    [][\A t, u \in Tasks :
         /\ runs # runs' /\ Len(runs') > Len(runs) /\ runs'[Len(runs')].task = t
         /\ dueAt[t] # Null /\ dueAt[u] # Null
         /\ Fits(interval[t]) /\ Fits(interval[u])
         => dueAt[t] < dueAt[u] + PerSecond]_timeVars

\* A listing holds every run that satisfies all of the filter's conditions (on its
\* task's project, its task and its status), once, none of them above one that
\* started a second or more after it, and what LatestRunForTask returns is within
\* a second of the task's last run.
NewestListedFirst ==
    /\ \A f \in Filter : LET listed == ListRuns(f) IN
         /\ Range(listed) = {r \in DOMAIN runs :
                               /\ f.project \in {Null, ProjectOf[runs[r].task]}
                               /\ f.task \in {Null, runs[r].task}
                               /\ f.status \in {Null, runs[r].status}}
         /\ Len(listed) = Cardinality(Range(listed))
         /\ \A i, j \in DOMAIN listed :
              i < j => runs[listed[i]].at + PerSecond > runs[listed[j]].at
    /\ \A t \in Tasks : LET latest == LatestRunForTask(t) IN
         \A r \in DOMAIN runs :
           runs[r].task = t => runs[latest].at + PerSecond > runs[r].at
=============================================================================
