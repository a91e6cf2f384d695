# master-agent in TLA+

master-agent is a scheduler: a daemon that polls a SQLite database for due
tasks, takes a per-project lock, runs the task's command on a worker over one
blocking `ssh` process, releases the lock and schedules the task's next run.
Operators change projects and tasks meanwhile through an HTTP API (served from
the daemon's process, or by `serve`) and a CLI (its own process).

This directory models the scheduling core and the parts around it (host keys,
migrations, sessions, times and commands as text, the browser's pages), checks
them with TLC on small instances and proves with TLAPS, for every instance, every
safety property that a passing run checks.

## Inventory

| Part (source) | State | Operations | Talks to |
|---|---|---|---|
| Database (`internal/store`) | tables projects, tasks, runs, locks | AcquireRunLock, ReleaseRunLock, ClearStaleLock, ListDueTasks, HasAnyLock, ScheduleTaskAfterRun, create/update of projects and tasks | everything |
| Scheduler (`internal/scheduler`) | program counter, the due list, the task being tried, its run, the shutdown context | Run, Tick, tryStart | store, lock manager, runner |
| Lock manager (`internal/lock`) | none of its own; the process table | Acquire, Release, RecoverStale | store, OS |
| SSH runner (`internal/runner/ssh.go`) | local ssh process, temp key and known_hosts files | Run | worker |
| HTTP API (`internal/api/tasks.go, projects.go`) | a row between read and write | create, PATCH, list | store |
| CLI (`internal/cli`) | the same, in another process | add, enable, disable, list, daemon, serve, status | store |
| Host keys, SSH test and directory browser (`internal/runner/hostkey.go, sshbrowse.go`, `internal/api/ssh_*.go`) | pinned key column; a row copied before seconds of ssh | scan, compare, log in, look for the path, pin; resolve and list a directory | store, worker |
| Sessions and server process (`internal/api/session.go, middleware.go`, `internal/cli/http.go, serve.go`) | in-memory session table, requests in flight, shutdown | login, logout, authenticate, listen, drain, close | browser, store |
| Migrations (`internal/store/store.go, migrate_*.go`) | schema versions, columns of projects | Open, migrate | SQLite, key files |
| Times as text (`internal/store/schedule.go, crud.go`) | text columns | due list, run listings, ScheduleTaskAfterRun | SQLite |
| Commands as text (`internal/placeholder`, `internal/runner/ssh.go`) | none | Expand, ShellQuote, BuildRemoteCommand | scheduler, two shells on the worker |
| Web UI (`internal/webui/static`) | DOM, fetches in flight | page loads, filters, dialogs, saves | HTTP API |

What is hard: every database call is a point where other processes
interleave; the gate (`HasAnyLock`) and the acquisition are two statements; the
task is a copy read before the run and used after it; a PATCH is a read and a
whole-row write with a run possibly in between, and so is a connection test, with
seconds of ssh in between; a crash leaves a lock, a running row and perhaps an ssh
process behind, or half a migration; stale-lock recovery lists, probes and clears
in three steps keyed by project id; a SIGTERM may come anywhere; times are compared
as text and an interval is a 64-bit product; a page's answers arrive in any order.
The hazards, line by line, are in `PROJECT.json`.

What correct means, per part:

* locks and runs: one live session per project; a lock names a running run and a
  running run is named by a lock; a finished run is final; no lock is leaked
  without a failure, and every lock is released in the end;
* schedule: no run before its interval has passed since the last; the task row
  follows the last run; every due task is run, and no task is overtaken twice;
* operators and signals: disabling takes effect, an edit does not destroy the
  scheduler's columns, SIGTERM ends the daemon after the run in flight;
* host keys: a pin is what a finished test got through to; no session with a server
  whose key is not to be trusted; a mismatch is reported for a reason;
* database and server: an open database has the newest schema, no key is lost on the
  way to it; exactly the live sessions are accepted; the server serves or is stuck for
  a known reason, and exits when told to, closing its database under no request;
* text: order by text strays less than a second from order by time; a listing holds
  what its filter asks for; the worker runs the words the operator meant;
* pages: "Loading…" is about to be replaced or an error says why not, the page settles
  on what was asked for last, and what is typed is lost to no answer.

The code does not keep all of these. Where it does not, a run shows it ("What the
violations mean"), the property that holds names the exception ("races that remain"),
or the last section says so.

## Modules

| Module | Models | Notes |
|---|---|---|
| `Store` | the tables and statements | every statement or transaction is one atomic operator |
| `Scheduler` | `Daemon.Run`, `Tick`, `tryStart`, the ssh process, failures, SIGTERM, crash, restart | `pc[d]` is the next call of daemon d that touches shared state |
| `Clients` | create and PATCH handlers, CLI add/enable/disable | a PATCH is ReadTask, then WriteTask or Abandon |
| `MasterAgent` | daemons and clients on one database | properties, inductive invariant, refinement, fairness |
| `History` | history variables over MasterAgent | counts of starts; they constrain no step |
| `Forever` | MasterAgent with time and run ids that never end | adds one step, `Rewind`, that renumbers what is there; for starvation |
| `RunLock` | abstract specification of the project lock | holder and result only |
| `Sessions` | abstract specification of login sessions | the clock, each session's last second, those revoked, those accepted |
| `LockManager` | the lock package with pids | unrolls RecoverStale into its three calls |
| `Connections` | one project's SSH columns, connection tests, browses (both also of a form that is not saved), PATCHes and runs over them, worker hosts and their keys | a request carries the row it read; `late` marks a writer whose row was written meanwhile |
| `Migration` | `store.Open` in several processes on one database | one action per statement; a failure or death between any two |
| `Service` | a server process: Open, listen, sessions, requests, drain, close, crash, restart | EXTENDS Migration; the middleware and the handler are two steps of a request |
| `Timestamps` | time columns as text, due list, run listings, the interval's product | ghosts hold the times themselves |
| `RemoteCommand` | Expand, BuildRemoteCommand, and the two shells that read the result | the shells are external, modelled from what the code relies on |
| `Conversions` | the two above side by side | a behaviour exercises one of them |
| `WebUI` | one browser tab: tasks, runs and login pages, fetches in flight | the server's answers and their arrival are separate steps |
| `MasterAgentProofs`, `ScheduleProofs`, `HistoryProofs` | theorems about the core | each EXTENDS those before it that it needs; see below |
| `LockManagerProofs`, `ConnectionsProofs`, `ServiceProofs`, `ConversionsProofs`, `WebUIProofs` | theorems about the module of that name | see below |
| `MC...` | instances for TLC | which task is in which project, key sets, texts; symmetry of daemons and of requests |

Operators whose comment says "Mutant of X" are wrong versions of X. No specification uses them; each is there to show that
some property fails when the code has that bug.

### How the model corresponds to the code

* A row is a record or `Null` (no row). Rows of projects, tasks and runs are never
  deleted, since no statement deletes them. Columns nobody's control flow depends
  on (names, prompts, SSH fields, exit codes, messages) are left out.
* Time is a natural number. `now` may advance between any two steps, or not at
  all, so every tick length and run length is covered up to the bound.
* `AcquireRunLock` is one step. SQLite's transaction makes it one: a second
  writer that has read the same absence of a lock is refused at its own write,
  which is a failed call (`StoreError`).
* The daemon passes no pid to `Locks.Acquire` (scheduler.go:151), so
  `RecoverStale` finds nothing to do in `Scheduler` and is one step there. That it
  finds nothing is not assumed: it is part of the invariant (`NoPids`), checked
  and proved.
* `sessions` is the set of runs whose local ssh process is alive. A crash of the
  daemon kills it or orphans it; an orphan ends on its own.
* A failed database call ends the tick, and `Run` logs it: the process goes on with
  everything the call did not do left undone.
* `LockManager` models the package for callers that do record a pid (its tests,
  and the lock lifecycle in specs/02-scheduler.md). Pids are not reused while a
  lock, or a recovery under way, remembers them.
* In `Connections` the port belongs to the host, and user and private key are one
  account. Every ssh connection may fail for reasons of the network as well. `met`
  collects the keys of the servers a request had sessions with.
* In `Migration` a database is its recorded versions and the columns of projects the
  versions differ in. Initial databases are the six the program has left behind:
  new, v1, v2 of the first v2 migration (which dropped the wrong column), v2, v3, v4.
* In `Service` a cookie is a session id whose expiry is signed into it; signatures are
  taken to be unforgeable, so a browser can only present cookies it was given. `ended`
  is a history variable: ids logged out of, or of a process that is gone.
* In `Timestamps` a clock tick stands for a nanosecond and `Base`, `SecondDigits`,
  `FractionDigits` for the decimal layout; the point, the digits and Z are compared
  by rank as their bytes are. A duration wraps at `DurationLimit` as int64 does.
* In `RemoteCommand` a symbol is a run of ordinary characters or one character that
  means something to a shell, to JSON or to Expand. `Unknown` is a name Expand's
  expression `[a-z0-9_]+` matches and refuses, `Unmatched` one it does not see.
* `Rewind` of `Forever` renumbers the times there are, in their order, from 0, and drops
  the rows of runs that are over. The daemon only compares times, looks one interval
  ahead and never reads a finished run, so what can happen next is the same before and
  after; it may be taken between runs only, and not while a lock is held.
* In `WebUI` a page starts with the fetch of /projects (`OpenPage`), goes on to its table
  (`ShowProjects`; on the runs page after the tasks' names, `LabelsSettle`) or stops with
  an error (`ProjectsFail`). `url` is the project its URL names until then, `listed` that
  the select has its projects, `flash` that an error is shown, and `calm` of a dialog that
  no other task and no save was on its way when it opened. Leaving a page drops its
  fetches; a request that reaches the server after that is an `OtherEdit`. `overtaken` is set when an answer overtakes an older one
  of its kind, `unseen` when the table of tasks changed behind the page's back.

## Runs

| Run | Instance | Shows |
|---|---|---|
| `OneDaemon` | 1 daemon, 3 tasks in 2 projects (two share one), 2 failed calls, 1 crash, 1 SIGTERM, 6 run ids, clock at 0 | `LockedIffRunning`, `SingleRun`, `NoLeakedLock`, `AtMostOneLateStart`, refinement of `RunLock` |
| `TwoDaemons` | 2 daemons (symmetric), 2 projects, 1 failed call, 1 crash, 8 run ids | `IInv` (which contains `TypeOK`), `OneSessionPerProject`, `FinishedRunsAreFinal` |
| `Schedules` | 1 daemon, 2 tasks of one project, 1 client with one edit (of task 1 or the project), intervals 1 and 2, clock to 2, 7 run ids | `ScheduleFollowsRuns`, `BoundedBypass`, `DisableTakesEffect`, `NoImmediateRetryUnedited` |
| `Liveness` | 1 daemon, a task in each of 2 projects, interval 1, clock to 3 and on by `Rewind`, 1 run id that is used again, 1 client edit, 1 SIGTERM, fairness | `DueTaskRuns`, `LocksAreReleased`, `SignalledDaemonExits` |
| `LockAfterCrash` | 1 daemon, a task in each of 2 projects, 1 crash, clock at 0, fairness | violation of `LocksAreReleased` |
| `RetryAfterPatch` | 1 daemon, 1 edit | violation of `NoImmediateRetry` |
| `Recovery` | 2 processes with pids, 1 lost, 3 pids, fairness | `TypeOK`, `LocksNameRunningRuns`, `OnlyDeadLocksCleared`, `PidLocksAreReleased` |
| `Connections` | 2 requests at once (symmetric), 2 hosts, 1 key rotation, a host with two ssh- keys or an ecdsa one beside it, 3 request bodies (move, disable, blank path) | `TypeOK`, `TrustedSessions`, `MismatchHasCause`, `PinnedAsTested` |
| `PinRace` | 2 requests | violation of `PinStays` |
| `Service` | 1 server, 1 CLI command, 6 old databases, 1 project, 1 failure, 2 session ids, 2 requests, TTL 1, clock to 2, fairness | `TypeOK`, `SchemaComplete`, `NoKeyLost`, `AcceptedIffLive`, refinement of `Sessions` (`ImplementsSessions`), `ServesOrStuck`, `SignalledServerExits` |
| `Conversions` | binary digits, 4 ticks a second, 3 runs, 2 tasks of 2 projects, every filter of them, intervals 1 (fits) and 8 (overflows), the clock from 24 to 33 of 64 ticks; commands of up to 2 parts, prompts of up to 2 symbols | `DueToTheSecond`, `OldestStartsFirst`, `NewestListedFirst`, `ArrivesAsMeant` |
| `WebUI` | 2 projects with a task and a run each, 2 fetches in flight | `TypeOK`, `NoSilentLoading`, `SettlesAsAsked`, `TypedTextStays` |

Why the bounds are enough. Three tasks in two projects contain a task that shares
a project and one that does not. Locks do not depend on the clock beyond what is
due, so `OneDaemon` and `TwoDaemons` stop it at 0: each task runs once, and again
when the call that should schedule it failed. `Schedules` lets the clock reach 2,
so a task with interval 1 runs three times and one with interval 2 twice. Run ids
are a bound on the number of runs, and every instance of the daemon has enough of
them: were they used up, the daemon would be stuck before Acquire, and deadlock is
checked in these runs. `Liveness` needs one only, since `Rewind` gives it back. There
nothing ends: with interval 1 a task that has been run comes due again as soon as the
clock moves, so there is always another task that might pass one over, for ever; an
order that puts tasks that never ran last does so, and is found to. Initial states are
all databases with any subset of the projects and tasks, enabled or not, and no run yet.

Two requests in `Connections` make one overtake another once; they may do so any
number of times in a row, since requests end and new ones begin. In `Service` the
CLI command is over before the server first listens (`CommandsDone`): a later one
finds version 4 and changes nothing. One failure can come between any two
statements of either process. Clock to 2 with TTL 1 has sessions that are live, in
their last second, and past it. In `Conversions` the clock and what may be
promised stay within the width of the seconds, as they do for RFC 3339 years; two fraction digits
give fractions that lose none, one or both of their digits; every behaviour ends
when the runs or the clock are used up or the command is sent, so deadlock is not
checked there. Two fetches in `WebUI` can cross, and a third follows when one of them
is answered.

### What the violations mean

* `LockAfterCrash`: the lock of a run that was in flight when the daemon was killed
  has no pid. `RecoverStale` skips it, `HasAnyLock` sees it, every later tick ends
  at the gate. The documents promise stale recovery; somebody has to delete the
  row by hand.
* `RetryAfterPatch`: `handlePatchTask` reads the row, a run finishes and schedules,
  `UpdateTask` writes the old `next_run_at` back. Tasks no client edits keep
  their spacing (`NoImmediateRetryUnedited`).
* `PinRace`: a connection test and a PATCH write the whole row they read, the host key
  column with it. Two first tests on a host that has two keys, or replaces its key,
  leave the later one's; a PATCH read before the pin was saved erases it. The document
  promises that a pin, once saved, makes a later change of the key an explicit error.

### What the passing runs say about races that remain

Some properties are stated with the exception the code has, so that nothing more
than the exception can happen:

* `OnlyDeadLocksCleared`: the probe and the clear are separate and the clear goes by
  project id, so with two processes a live lock that replaced the dead one is
  cleared (the comment at `internal/lock/manager.go:34` promises only dead ones). Then
  the holder's late release frees the lock of the next run. Latent: the daemon
  records no pid, and one process recovers. With one process it cannot happen.
* `PinnedAsTested`: a PATCH that was overtaken (`late`) puts back the pin it read. Nothing
  is claimed of the other columns a late writer undoes.
* `TrustedSessions`: a test of a project without a pin trusts the key it has just scanned.
* `MismatchHasCause`: a PATCH that moves a project to another host leaves the old pin.
* `ServesOrStuck`: a process that dies between the ADD COLUMN of the v1 migration and
  the record of version 2, or in the middle of a new database's records, leaves
  version 1 and the new column (`HalfMigrated`). Every later Open adds the column again
  and fails; the server restarts for ever. Two processes that open one old database
  at once can make each other fail, but not leave that state without a failure.
* `DueToTheSecond`: within a second the text order decides ("...:00Z" sorts after
  "...:00.5Z"). An interval above 2^63 ns wraps around and the task is due at once.
* `ScheduleFollowsRuns`, `NoImmediateRetryUnedited`: tasks nobody edits, and no failure
  between a run's end and its schedule.
* `ArrivesAsMeant`: no JSON array with a value that is not UTF-8 (`FitsJSON`), and no
  name that Expand's expression does not match (`NamesMatched`).
* `NoSilentLoading`: when /projects fails, "Loading…" stays on the runs page for as long
  as the operator does, under the error that says why.
* `SettlesAsAsked`: answers that cross show the wrong list or the details of another run.
* `TypedTextStays`: a second Edit clicked before the first dialog opened refills it, and
  the answer of an older save closes it, with what was typed.

## Fairness

`FairSpec` of MasterAgent: weak fairness of each daemon's calls (it is a
single-threaded loop whose sleep has a timer), of `Restart` (docker-compose:
`restart: unless-stopped`) and of the end of orphaned sessions. That a session
ends (`Finish`) is an assumption on the remote command; `Runner.Run` has no
timeout. Nothing is assumed of clients, of the clock or of failures.

`ForeverSpec`: the same, and that `Rewind` is taken when it stays possible, which is
nothing of the code's: it stands for the times and ids that the bounds leave out.

`FairSpec` of LockManager: ssh processes end, holders release, a recovery begun
goes on, and `ListLocks` is strongly fair, because the daemon calls `RecoverStale`
on every tick while locks come and go between ticks.

`FairSpec` of Service: weak fairness of what each process does by itself: being
started again (docker's `restart: unless-stopped`, or an operator who tries again),
the next statement of Open, the end of a CLI command, Listen, the timeout of
Shutdown (`httpShutdownWait`) and closing. Nothing is assumed of requests: a handler
may take for ever, and the server exits all the same.

The other modules have safety properties only.

## Proofs

Proved of the core, from `StoreAssumption`, `SchedulerAssumption` and
`ClientsAssumption` only (types of the constants, `Null` different from every row),
with no bound on daemons, clients, failures, crashes or time:

* `Invariance`: `Spec => []IInv`. None of the safety properties is inductive by
  itself: that Release frees its own lock needs to know that the daemon still
  holds it (`HolderHasLock`), that no other daemon holds the same run
  (`HoldersDiffer`), that the copies of tryStart are there (`CopiesInPlace`), that
  recovery clears nothing (`NoPids`), and, for sessions, that a session belongs to
  a running run (`SessionsRun`) and is over before the release (`SessionsOver`).
  One lemma per action that writes rows (Acquire, Finish, Release, Schedule,
  Crash); the others go through `DaemonsStay` and `EverythingStays`.
* `TypeCorrect`, `LocksAndRunsAgree`, `ProjectExclusion`: consequences of IInv.
* The second half of `MasterAgentProofs` first shows that only Acquire and Release change the lock and run
  tables (`TablesStep`) and what they do to them (`AcquireStarts`, `ReleaseEnds`).
  From this follow `FinishedIsFinal` (an action property), `LockRefinement` (the
  tables implement `RunLock` under the mapping Holder, Result), `NoLeak` and
  `OneRunGlobally` (for a singleton set of daemons, with the extra invariant that
  the answer of the gate stays true, `GateHolds`).

Proved of the server process and its migrations, from `ServiceAssumption` and
`MigrationAssumption` (the server is one of the processes, bounds are numbers,
`Null` is none of the values), for any number of processes, projects, tabs, session
ids, failures and any TTL (`ServiceProofs`):

* `ServiceInvariant`: `Spec => []IInv`. The invariant adds to the types: no process
  in Open holds the newest version (`VersionsBehind`; otherwise Record would count past
  it); while a process copies keys, a readable file is copied or still on its own list
  (`KeysKept`); the session table agrees with the history (`TableIsHistory`), which
  takes that a cookie in flight was issued and an accepted logout has one
  (`CookiesIssued`) and that a new id has not been ended before (`EndedIssued`).
  `MigrationInv` and `SessionInv` are its two halves: a step of Open keeps the first
  and leaves the second alone, and the other way round.
* `ServiceTypes`, `KeysSurvive`: consequences of it.
* `SessionsAreExact`: `AcceptedIffLive` as an action property. While the server's
  phase stays, only the middleware changes a request that was sent, and for an issued
  session the table's answer is the history's.
* `SessionsRefined`: `Spec => ImplementsSessions`. Under the mapping `Accepted` (the
  issued ids whose cookie the middleware would let in) a login opens a session that was
  never opened, a logout revokes one, the end of the process loses all of them, a tick
  ends those whose last second has passed, and every other step stutters: also the
  removal of a lapsed session from the table, which nobody can observe. That needs
  `TableIsHistory` to turn the table's answer into the history's, and `EndedIssued` for
  a new id not to be revoked already.
* `SchemaIsComplete` needs more than the types: which columns go with which recorded
  versions, and what a process in the middle of Open can rely on there although others
  migrate the same database (`SchemaInv`: `VersionsFit`, `StatementFits`). Columns only
  change along `Upgrades`, so what a process has found missing may have been added
  since, or `ssh_key_path` dropped: then its ALTER TABLE fails.

Proved of the schedule and the histories, from the assumptions of the core
(`ScheduleProofs`, `HistoryProofs`):

* `RowsFollowRuns`, `NoEarlyRetry`: for one daemon and no failed call or crash
  (`OneDaemonNoFailure`, which is the deployment on a good day; with either, the end of
  a run and its schedule come apart and both properties fail), any number of tasks,
  clients, edits and signals. `SInv` adds that the copy tryStart works on still is the
  row of a task nobody edits, due when it was read (`CopiesAreFresh`), that a run
  ended in the past (`RunsAreOfTasks`), and that the end about to be written is the
  task's latest (`LatestEnd`).
* `OneLateStart`: any daemons, failures, crashes and restarts. A late start puts the
  daemon past Acquire, and from there it goes to its exit (`AfterStart`, `NoWayBack`).
* `DisablingTakesEffect`: likewise any, from `HistoryAssumption` (the daemons are
  finitely many). The runs counted and the daemons that may still start the task from
  an old list (`ArmedFor`) are together no more than the daemons: a start disarms its
  daemon, and `ListDue` arms none while the task is disabled.
* `WaitingIsBounded`: one daemon and no failure. After u has run ahead of t, either
  that run is still going on or t precedes u both by `next_run_at` and in the list
  that is being worked on (`Waited`); this needs `SInv` and the gate (`GateHolds`). A
  write to the waiting task moves it in the order, and the count starts again; counting
  on over such writes, the bound does not hold with several edits of one task.

Proved of the lock package (`LockManagerProofs`), from `StoreAssumption` and
`LockManagerAssumption` (a number, finitely many managers), for any number of
processes, losses and pids:

* `LocksAreOfRunningRuns` and `LockManagerTypes`: what makes them inductive is that a
  release is of a run of the project whose lock it deletes, even when that lock has
  been cleared and taken by another meanwhile (`HeldIsRun`).
* `DeadLocksAreCleared`: a pid remembered as dead stays dead (`DoomedAreDead`), and a
  manager that is alone finds the locks as it listed them (`ListedAsTheyAre`). With
  several, what is cleared instead of the dead lock has another pid.

Proved of the SSH connections (`ConnectionsProofs`), from `ConnectionsAssumption`
(keys are finitely many, `Null` and `Blank` are no values, and a body names columns
an operator can set and has values of their types), for any hosts, keys, requests:

* `ConnectionsTypes`, `SessionsAreTrusted`, `MismatchIsReal`, `PinsAreTested` from one invariant, `IInv`: for each request what its stage and
  its copy of the row say (`RequestOK`), that the pin of the row was verified
  by some test (`PinIsVerified`), and that a verified key was an ssh- key of its host
  and still is, unless the host has rotated (`VerifiedKeysOffered`). The parts of
  `RequestOK` that matter: past the scan the key is the pin if there is one
  (`KeyFits`), a test that is about to write got through to that connection
  (`WritesWhatItTested`), and the copy of a writer that nobody overtook is the row with
  its edit (`CopyIsCurrent`).

Proved of the browser's pages (`WebUIProofs`), from `WebUIAssumption`, for any number
of projects, tasks, runs and fetches in flight:

* `WebUITypes`; `LoadingIsExplained`: a page that says "Loading…" without a list in
  flight still waits for the projects or the names, or shows the error of that: whichever
  answer takes the last of these away replaces the text, and nothing that hides the
  error leaves it there alone.
* `TypedTextIsKept`: a dialog that opened with no other task and no save on the way meets
  none later, since nothing behind it can be clicked (`CalmForm`), so that no answer but
  that of its own save touches it.
* `PageSettles`. It needs an invariant about all of the fetches: unless an answer has
  overtaken another, the *last* list asked for is that of the selected project and, once
  it is answered, has the rows the server has or a change whose success will load them
  again (`LastListFits`, `Told`); and so for the run in the dialog and its log
  (`LastRunFits`, `ShownRunFits`). Until the projects are listed none is chosen, and a table
  loaded by then has emptied the URL (`ListedOnce`, `UrlForgotten`). Lemmas about sequences say what sending, answering
  and taking a fetch do to the last one of each kind.

Proved of what becomes text (`ConversionsProofs`), from `PowerAssumption` (what `^`
is, by its two equations: the provers know nothing of it), `ClockAssumption` (the clock
and the longest duration fit the width of the seconds, as RFC 3339 years do),
`RowAssumption` (`Null` is no text) and `TextAssumption` (values are texts, words of a
shell string have nothing in them that splits or quotes and are not `exec`):

* A recursive function is what its defining equation says only when there is such a
  function, and what it computes is an induction; neither has a proof rule here. Both
  are had from the least element of a set of numbers (`Least`): the set of numbers of
  which a statement is true, if it holds 0 and with every number the next, is `Nat`
  (`Numbers`), and the same of sequences (`Sequences`).
* `DueIsToTheSecond`, `OldestIsFirst`, `NewestIsFirst`, for every base, width and
  clock and any number of runs. The order of digits is that of numbers
  (`DigitsOrder`); the order of texts is a strict total one (`SortsBeforeTotal`
  and the two before it), and a text a second later sorts after (`EarlierSecond`),
  whatever fraction each has lost. A filter is any of a project, a task and a status. `TimeInv` adds to the types that a row's text is
  that of the time promised, as long as the interval fits a duration, and a run's that
  of its start. `OrderedInOrder`: placing rows by how many come before them does put
  them in order, each once.
* `CommandsArrive`, for any values, paths, parts and number of parts, but for arrays whose
  filled-in elements are not UTF-8 and for names the expression does not match. A text that is
  read as a word reads so wherever the scanner is outside quotes (`ReadsAs`); quoted
  values (`QuotedReadsAs`), plain symbols and what is written of both one after the
  other (`PartReadsAs`) do, `Join` makes words of such texts (`ReadJoin`), and the
  login shell hands bash the script as it was (`OuterWords`), which bash reads the same
  way (`ScriptWords`). Thus nothing in a value is seen by either shell, which is what
  quoting twice is for.

TLC agrees with each of these invariants (`IInv`, `SInv`, `SchemaInv`, `LateRunsInv`,
`TimeInv`, ...) on the instance of its module's run, `Schedules` with a SIGTERM added for
`HistoryProofs`.

Only model-checked: liveness (`DueTaskRuns`, `LocksAreReleased`, `SignalledDaemonExits`,
`PidLocksAreReleased`, `ServesOrStuck`, `SignalledServerExits`), which is out of this
prover's reach, ENABLED included.

## Plan

1. (done) Store, Scheduler, Clients, MasterAgent, History, RunLock, LockManager; safety
   proofs of the core.
2. (done) Connections, Migration, Service, Timestamps, RemoteCommand, Conversions, WebUI;
   the LockManager runs merged into one.
3. (done) Proofs of the schedule and the histories, of LockManager, Connections,
   WebUI and Conversions, and the rest of Service: every safety property that the
   passing runs check.
4. More proofs: `RowsFollowRuns`, `NoEarlyRetry` and `WaitingIsBounded` without
   `OneDaemonNoFailure`, each with the exception that failures and second daemons make;
   an abstract specification for the pin, and that Connections implements it.

## Not modelled, and not checked

Handlers and commands that only read and print (status, `list` commands, a run's
log), rendering, log output, deployment scripts, build metadata. Of the web UI: the
projects page, whose table and dialog work as those of the tasks page, with its
directory picker; the status page; creating a task. Of the directory browser: the
text of the listing (the script does not quote the directory, so a name with a blank
is cut there) and the joining of paths. Of sessions: the cookie's encoding (a user name
that holds a '|' never verifies). `InsertLock`, `DeleteLock`, `InsertRun`, `UpdateRun`
of the store are called from tests only.

Met while modelling, modelled as the code does it, and against a document, but stated by
no property:

* The test of a project puts the form's unsaved columns into its copy of the row, and a
  first test writes that copy back with the pin, so it saves the form
  (`ssh_connection.go:135`). Task-28 has tests so that "operators can validate before Save".
* `daemon --http-addr` drains its HTTP server in a goroutine nobody waits for
  (`daemon.go:51`): it may close the database and exit under requests (`MayClose`), while
  task-18 speaks of graceful shutdown. `serve` waits.
* A JSON command is serialized again after its values were put in, and a byte that is not
  UTF-8 becomes U+FFFD (`ThroughJSON`); specs/01 has values go in literally.
* `{{Prompt}}` or `{{task-name}}` is no placeholder to Expand's expression and is sent as
  it is; specs/01 makes every unknown name an error.

Listed as hazards and caught by no property: what a late writer undoes beside the pin, a
failure between a run's end and its schedule, a key file that cannot be read, the growth
of the session table, a save that undoes another's edit, answers that cross. The code
has nothing against them, and no document promises otherwise.
