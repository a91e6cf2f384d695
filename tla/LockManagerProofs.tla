-------------------------- MODULE LockManagerProofs --------------------------
(***************************************************************************)
(* The safety of LockManager for every number of managers, projects, tasks *)
(* and pids: a lock names a running run, and recovery clears dead locks.   *)
(***************************************************************************)
EXTENDS LockManager, FiniteSetTheorems, TLAPS

\* What a manager releases is a run of the project it locked.
HeldIsRun ==
    \A m \in Managers : held[m] # Null =>
        runs[held[m].run] # Null /\ runs[held[m].run].project = held[m].project

\* A process found dead stays dead: its pid is not used again while it is remembered.
DoomedAreDead ==
    \A m \in Managers : doomed[m] # Null => doomed[m].pid # Null /\ doomed[m].pid \notin alive

\* A manager that recovers takes no lock: alone, it finds those it listed as they were.
Alone(m) == \A n \in Managers : n = m

LockUnchanged(l) == Locked(l.project) => locks[l.project].pid = l.pid

ListedAsTheyAre ==
    \A m \in Managers : Alone(m) =>
        /\ \A l \in listed[m] : LockUnchanged(l)
        /\ doomed[m] # Null => LockUnchanged(doomed[m])

IInv ==
    /\ TypeOK
    /\ LocksNameRunningRuns
    /\ HeldIsRun
    /\ DoomedAreDead
    /\ ListedAsTheyAre

\* With no lock and no run the invariant holds.
LEMMA InitIInv == Init => IInv
<1> SUFFICES ASSUME Init PROVE IInv
  OBVIOUS
<1> USE StoreAssumption DEF Init, StoreInit
<1>1. TypeOK
  <2>1. tasks \in [Tasks -> TaskRow \cup {Null}]
    BY DEF NewTask, TaskRow
  <2> QED
    BY <2>1 DEF TypeOK, StoreTypeOK
<1> QED
  BY <1>1
  DEF IInv, LocksNameRunningRuns, Locked, HeldIsRun, DoomedAreDead, ListedAsTheyAre

-----------------------------------------------------------------------------
(* The statements on the tables.                                             *)

\* The tables, for what a lock says of its run.
StoreInv == StoreTypeOK /\ LocksNameRunningRuns

\* Every run's project is for ever, which is why a held run stays one of its project.
RunsStay ==
    \A r \in RunIds : runs[r] # Null => runs'[r] # Null /\ runs'[r].project = runs[r].project

\* AcquireRunLock: the lock it inserts is of the run it inserts, in the same project.
LEMMA AcquireTables ==
    ASSUME StoreInv, NEW p \in Projects, NEW t \in Tasks, NEW pid \in Pids \cup {Null},
           AcquireRunLock(p, t, pid), now' = now
    PROVE  /\ StoreInv' /\ RunsStay
           /\ newID \in RunIds /\ runs'[newID] # Null /\ runs'[newID].project = p
           /\ locks' = [locks EXCEPT ![p] = [task |-> t, run |-> newID, pid |-> pid]]
<1> DEFINE row == [task |-> t, project |-> p, started |-> now, finished |-> Null, status |-> "running"]
           lock == [task |-> t, run |-> newID, pid |-> pid]
<1>1. PICK r : r \in RunIds /\ runs[r] = Null /\ r = newID
  <2>1. \E x : x \in RunIds /\ runs[x] = Null
    BY DEF AcquireRunLock
  <2> QED
    BY <2>1 DEF newID
<1>2. /\ runs' = [runs EXCEPT ![r] = row] /\ locks' = [locks EXCEPT ![p] = lock]
      /\ UNCHANGED <<projects, tasks>>
  BY <1>1 DEF AcquireRunLock
<1>3. row \in RunRow /\ lock \in LockRow /\ row # Null
  BY <1>1, StoreAssumption DEF RunRow, LockRow, Status, StoreInv, StoreTypeOK
<1>4. StoreTypeOK'
  BY <1>2, <1>3 DEF StoreInv, StoreTypeOK
<1>5. runs'[r] = row /\ \A s \in RunIds \ {r} : runs'[s] = runs[s]
  BY <1>1, <1>2 DEF StoreInv, StoreTypeOK
<1>6. row.project = p /\ row.status = "running" /\ lock.run = r
  BY <1>1
<1> HIDE DEF row, lock
<1>7. LocksNameRunningRuns'
  <2> SUFFICES ASSUME NEW q \in Projects, Locked(q)'
               PROVE  /\ runs'[locks'[q].run] # Null
                      /\ runs'[locks'[q].run].status = "running"
                      /\ runs'[locks'[q].run].project = q
    BY DEF LocksNameRunningRuns
  <2>1. CASE q = p
    <3>1. locks'[q] = lock
      BY <1>2, <2>1 DEF StoreInv, StoreTypeOK
    <3> QED
      BY <1>3, <1>5, <1>6, <2>1, <3>1
  <2>2. CASE q # p
    <3>1. locks'[q] = locks[q] /\ Locked(q) /\ locks[q].run \in RunIds
      BY <1>2, <2>2 DEF Locked, StoreInv, StoreTypeOK, LockRow
    <3>2. runs[locks[q].run] # Null
      BY <3>1 DEF StoreInv, LocksNameRunningRuns
    <3> QED
      BY <1>1, <1>5, <3>1, <3>2 DEF StoreInv, LocksNameRunningRuns
  <2> QED
    BY <2>1, <2>2
<1>8. RunsStay
  BY <1>1, <1>5 DEF RunsStay
<1> QED
  BY <1>1, <1>2, <1>3, <1>4, <1>5, <1>6, <1>7, <1>8 DEF StoreInv, lock

\* A run ends with its project's lock: a release and a clear are the same to the others.
LEMMA EndTables ==
    ASSUME StoreInv, NEW p \in Projects, NEW r \in RunIds, NEW end \in RunRow,
           runs[r] # Null, runs[r].project = p, end.project = p,
           runs' = [runs EXCEPT ![r] = end], locks' = [locks EXCEPT ![p] = Null],
           UNCHANGED <<now, projects, tasks>>
    PROVE  StoreInv' /\ RunsStay
<1>1. StoreTypeOK'
  BY DEF StoreInv, StoreTypeOK
<1>2. runs'[r] = end /\ end # Null /\ \A s \in RunIds \ {r} : runs'[s] = runs[s]
  BY StoreAssumption DEF StoreInv, StoreTypeOK
<1>3. LocksNameRunningRuns'
  <2> SUFFICES ASSUME NEW q \in Projects, Locked(q)'
               PROVE  /\ runs'[locks'[q].run] # Null
                      /\ runs'[locks'[q].run].status = "running"
                      /\ runs'[locks'[q].run].project = q
    BY DEF LocksNameRunningRuns
  <2>1. q # p /\ locks'[q] = locks[q] /\ Locked(q) /\ locks[q].run \in RunIds
    BY DEF Locked, StoreInv, StoreTypeOK, LockRow
  <2>2. locks[q].run # r
    BY <2>1 DEF StoreInv, LocksNameRunningRuns
  <2> QED
    BY <1>2, <2>1, <2>2 DEF StoreInv, LocksNameRunningRuns
<1>4. RunsStay
  BY <1>2 DEF RunsStay
<1> QED
  BY <1>1, <1>3, <1>4 DEF StoreInv

\* ReleaseRunLock: the run it ends is of the project whose lock it deletes.
LEMMA ReleaseTables ==
    ASSUME StoreInv, NEW p \in Projects, NEW r \in RunIds, NEW status \in {"success", "error"},
           runs[r].project = p, ReleaseRunLock(p, r, Null, status), now' = now
    PROVE  StoreInv' /\ RunsStay /\ locks' = [locks EXCEPT ![p] = Null]
<1> DEFINE end == [runs[r] EXCEPT !.finished = now, !.status = status]
<1>1. runs[r] # Null /\ runs[r] \in RunRow
  BY DEF ReleaseRunLock, StoreInv, StoreTypeOK
<1>2. end \in RunRow /\ end.project = p
  BY <1>1 DEF RunRow, Status, StoreInv, StoreTypeOK
<1>3. runs' = [runs EXCEPT ![r] = end]
  BY DEF ReleaseRunLock
<1> HIDE DEF end
<1> QED
  BY <1>1, <1>2, <1>3, EndTables DEF ReleaseRunLock

\* ClearStaleLock: the lock and the run it names go together.
LEMMA ClearTables ==
    ASSUME StoreInv, NEW p \in Projects, ClearStaleLock(p), now' = now
    PROVE  StoreInv' /\ RunsStay /\ locks' = [locks EXCEPT ![p] = Null]
<1> DEFINE r == locks[p].run
           end == [runs[r] EXCEPT !.finished = now, !.status = "error"]
<1>1. r \in RunIds /\ runs[r] # Null /\ runs[r] \in RunRow /\ runs[r].project = p
  BY DEF ClearStaleLock, Locked, StoreInv, StoreTypeOK, LocksNameRunningRuns, LockRow
<1>2. end \in RunRow /\ end.project = p
  BY <1>1 DEF RunRow, Status, StoreInv, StoreTypeOK
<1>3. runs' = [runs EXCEPT ![r] = end]
  BY DEF ClearStaleLock
<1> HIDE DEF r, end
<1> QED
  BY <1>1, <1>2, <1>3, EndTables DEF ClearStaleLock

-----------------------------------------------------------------------------
(* The steps.                                                                *)

\* A step that leaves the tables alone.
LEMMA StoreStays ==
    ASSUME IInv, UNCHANGED <<now, tables>>
    PROVE  StoreInv' /\ RunsStay
BY DEF IInv, TypeOK, StoreInv, StoreTypeOK, LocksNameRunningRuns, Locked, RunsStay, tables

\* A step of the tables that takes at most locks away, and leaves the manager's own
\* memory as it is or forgets part of it.
LEMMA MemoryStays ==
    ASSUME IInv, StoreInv', RunsStay, alive' \subseteq alive, losses' \in Nat,
           held' \in [Managers -> Held \cup {Null}],
           listed' \in [Managers -> SUBSET Listed],
           doomed' \in [Managers -> Listed \cup {Null}],
           \A m \in Managers : /\ held'[m] \in {held[m], Null}
                               /\ listed'[m] \subseteq listed[m]
                               /\ doomed'[m] \in {doomed[m], Null},
           \A p \in Projects : locks'[p] \in {locks[p], Null}
    PROVE  IInv'
<1>1. TypeOK'
  BY DEF IInv, TypeOK, StoreInv
<1>2. HeldIsRun'
  BY DEF IInv, TypeOK, HeldIsRun, RunsStay, Held
<1>3. DoomedAreDead'
  BY DEF IInv, DoomedAreDead
<1>4. ListedAsTheyAre'
  <2>1. ASSUME NEW l \in Listed, LockUnchanged(l) PROVE LockUnchanged(l)'
    BY <2>1 DEF LockUnchanged, Locked, Listed
  <2> SUFFICES ASSUME NEW m \in Managers, Alone(m)
               PROVE  /\ \A l \in listed'[m] : LockUnchanged(l)'
                      /\ doomed'[m] # Null => LockUnchanged(doomed[m])'
    BY DEF ListedAsTheyAre, Alone
  <2>2. \A l \in listed'[m] : LockUnchanged(l)'
    BY <2>1 DEF IInv, TypeOK, ListedAsTheyAre
  <2>3. ASSUME doomed'[m] # Null PROVE LockUnchanged(doomed[m])'
    <3>1. PICK l : l = doomed[m] /\ l \in Listed /\ doomed'[m] = l /\ LockUnchanged(l)
      BY <2>3 DEF IInv, TypeOK, ListedAsTheyAre
    <3>2. LockUnchanged(l)'
      BY <2>1, <3>1
    <3> QED
      BY <3>1, <3>2 DEF LockUnchanged
  <2> QED
    BY <2>2, <2>3
<1> QED
  BY <1>1, <1>2, <1>3, <1>4 DEF IInv, StoreInv

\* Only a manager that remembers nothing takes a lock.
LEMMA AcquireStep ==
    ASSUME IInv, NEW m \in Managers, NEW t \in Tasks, NEW pid \in Pids \cup {Null}, Acquire(m, t, pid)
    PROVE  IInv'
<1> DEFINE p == ProjectOf[t]
           h == [project |-> p, run |-> newID, pid |-> pid]
<1>1. p \in Projects
  BY StoreAssumption
<1>2. AcquireRunLock(p, t, pid) /\ UNCHANGED <<now, listed, doomed, losses>>
      /\ held' = [held EXCEPT ![m] = h] /\ alive' = alive \cup ({pid} \ {Null})
  BY DEF Acquire
<1>3. /\ StoreInv' /\ RunsStay
      /\ newID \in RunIds /\ runs'[newID] # Null /\ runs'[newID].project = p
      /\ locks' = [locks EXCEPT ![p] = [task |-> t, run |-> newID, pid |-> pid]]
  BY <1>1, <1>2, AcquireTables DEF IInv, TypeOK, StoreInv
<1>4. h \in Held /\ h.run = newID /\ h.project = p
  BY <1>1, <1>3 DEF Held
<1> HIDE DEF h, p
<1>5. TypeOK'
  BY <1>2, <1>3, <1>4 DEF IInv, TypeOK, StoreInv
<1>6. HeldIsRun'
  <2> SUFFICES ASSUME NEW n \in Managers, held'[n] # Null
               PROVE  runs'[held'[n].run] # Null /\ runs'[held'[n].run].project = held'[n].project
    BY DEF HeldIsRun
  <2>1. CASE n = m
    <3>1. held'[n] = h
      BY <1>2, <2>1 DEF IInv, TypeOK
    <3> QED
      BY <1>3, <1>4, <3>1
  <2>2. CASE n # m
    <3>1. held'[n] = held[n] /\ held[n] \in Held
      BY <1>2, <2>2 DEF IInv, TypeOK
    <3> QED
      BY <1>3, <3>1 DEF IInv, HeldIsRun, RunsStay, Held
  <2> QED
    BY <2>1, <2>2
<1>7. DoomedAreDead'
  <2> SUFFICES ASSUME NEW n \in Managers, doomed[n] # Null
               PROVE  doomed[n].pid # Null /\ doomed[n].pid \notin alive'
    BY <1>2 DEF DoomedAreDead
  <2>1. pid # Null => doomed[n].pid # pid
    BY DEF Acquire, FreshPid
  <2> QED
    BY <1>2, <2>1 DEF IInv, DoomedAreDead
<1>8. ListedAsTheyAre'
  <2> SUFFICES ASSUME NEW n \in Managers, Alone(n)
               PROVE  listed'[n] = {} /\ doomed'[n] = Null
    BY DEF ListedAsTheyAre, Alone
  <2> QED
    BY <1>2 DEF Acquire, Idle, Alone
<1> QED
  BY <1>3, <1>5, <1>6, <1>7, <1>8 DEF IInv, StoreInv

\* A release, even of a lock that was cleared meanwhile and taken again, keeps the invariant.
LEMMA ReleaseStep ==
    ASSUME IInv, NEW m \in Managers, Release(m)
    PROVE  IInv'
<1>1. held[m] \in Held /\ runs[held[m].run].project = held[m].project
  BY DEF Release, IInv, TypeOK, HeldIsRun
<1>2. PICK status \in {"success", "error"} : ReleaseRunLock(held[m].project, held[m].run, Null, status)
  BY DEF Release
<1>3. UNCHANGED <<now, alive, listed, doomed, losses>> /\ held' = [held EXCEPT ![m] = Null]
  BY DEF Release
<1>4. StoreInv' /\ RunsStay /\ locks' = [locks EXCEPT ![held[m].project] = Null]
  BY <1>1, <1>2, <1>3, ReleaseTables DEF IInv, TypeOK, StoreInv, Held
<1>5. \A p \in Projects : locks'[p] \in {locks[p], Null}
  BY <1>4 DEF IInv, TypeOK, StoreTypeOK
<1> QED
  BY <1>3, <1>4, <1>5, MemoryStays DEF IInv, TypeOK

\* So does a clear, by project id, of whatever lock the project has by then.
LEMMA ClearStep ==
    ASSUME IInv, NEW m \in Managers, Clear(m)
    PROVE  IInv' /\ locks' = [locks EXCEPT ![doomed[m].project] = Null]
<1>1. doomed[m] \in Listed /\ ClearStaleLock(doomed[m].project)
  BY DEF Clear, IInv, TypeOK
<1>2. UNCHANGED <<now, alive, held, listed, losses>> /\ doomed' = [doomed EXCEPT ![m] = Null]
  BY DEF Clear
<1>3. StoreInv' /\ RunsStay /\ locks' = [locks EXCEPT ![doomed[m].project] = Null]
  BY <1>1, <1>2, ClearTables DEF IInv, TypeOK, StoreInv, Listed
<1>4. \A p \in Projects : locks'[p] \in {locks[p], Null}
  BY <1>3 DEF IInv, TypeOK, StoreTypeOK
<1> QED
  BY <1>2, <1>3, <1>4, MemoryStays DEF IInv, TypeOK

\* What is listed is what is there.
LEMMA ListStep ==
    ASSUME IInv, NEW m \in Managers, ListLocks(m)
    PROVE  IInv'
<1> DEFINE L == {[project |-> p, pid |-> locks[p].pid] : p \in {p \in Projects : Locked(p)}}
<1>1. listed' = [listed EXCEPT ![m] = L] /\ UNCHANGED <<now, tables, alive, held, doomed, losses>>
  BY DEF ListLocks
<1>2. \A l \in L : l \in Listed /\ LockUnchanged(l)
  BY DEF Locked, LockUnchanged, Listed, IInv, TypeOK, StoreTypeOK, LockRow
<1> HIDE DEF L
<1>3. StoreInv' /\ RunsStay /\ locks' = locks
  BY <1>1, StoreStays DEF tables
<1>4. TypeOK'
  BY <1>1, <1>2, <1>3 DEF IInv, TypeOK, StoreInv
<1>5. HeldIsRun' /\ DoomedAreDead'
  BY <1>1 DEF IInv, HeldIsRun, DoomedAreDead, tables
<1>6. ListedAsTheyAre'
  <2>1. \A l : LockUnchanged(l) => LockUnchanged(l)'
    BY <1>3 DEF LockUnchanged, Locked
  <2> SUFFICES ASSUME NEW n \in Managers, Alone(n)
               PROVE  /\ \A l \in listed'[n] : LockUnchanged(l)'
                      /\ doomed'[n] = Null
    BY DEF ListedAsTheyAre, Alone
  <2>2. n = m
    BY DEF Alone
  <2> QED
    BY <1>1, <1>2, <2>1, <2>2 DEF ListLocks, Idle, IInv, TypeOK
<1> QED
  BY <1>3, <1>4, <1>5, <1>6 DEF IInv, StoreInv

\* A probe remembers the lock whose process it found dead.
LEMMA ProbeStep ==
    ASSUME IInv, NEW m \in Managers, Probe(m)
    PROVE  IInv'
<1>1. PICK l \in listed[m] : /\ listed' = [listed EXCEPT ![m] = @ \ {l}]
                             /\ doomed' = [doomed EXCEPT ![m] = IF Stale(l) THEN l ELSE Null]
  BY DEF Probe
<1>2. UNCHANGED <<now, tables, alive, held, losses>> /\ l \in Listed
  BY DEF Probe, IInv, TypeOK
<1>3. StoreInv' /\ RunsStay /\ locks' = locks
  BY <1>2, StoreStays DEF tables
<1>4. TypeOK'
  BY <1>1, <1>2, <1>3 DEF IInv, TypeOK, StoreInv
<1>5. HeldIsRun'
  BY <1>2 DEF IInv, HeldIsRun, tables
<1>6. DoomedAreDead'
  BY <1>1, <1>2 DEF IInv, TypeOK, DoomedAreDead, Stale
<1>7. ListedAsTheyAre'
  <2>1. \A k : LockUnchanged(k) => LockUnchanged(k)'
    BY <1>3 DEF LockUnchanged, Locked
  <2> SUFFICES ASSUME NEW n \in Managers, Alone(n)
               PROVE  /\ \A k \in listed'[n] : LockUnchanged(k)'
                      /\ doomed'[n] # Null => LockUnchanged(doomed[n])'
    BY DEF ListedAsTheyAre, Alone
  <2>2. n = m /\ \A k \in listed[m] : LockUnchanged(k)
    BY DEF Alone, IInv, ListedAsTheyAre
  <2>3. \A k \in listed'[n] : LockUnchanged(k)'
    BY <1>1, <2>1, <2>2 DEF IInv, TypeOK
  <2>4. doomed'[n] # Null => doomed'[n] = l
    BY <1>1, <2>2 DEF IInv, TypeOK
  <2>5. doomed'[n] # Null => LockUnchanged(doomed[n])'
    <3>1. LockUnchanged(l)'
      BY <2>1, <2>2
    <3> QED
      BY <2>4, <3>1 DEF LockUnchanged
  <2> QED
    BY <2>3, <2>5
<1> QED
  BY <1>3, <1>4, <1>5, <1>6, <1>7 DEF IInv, StoreInv

\* An SSH client ends, a recovery gives up, a manager is killed: memory is lost, no more.
LEMMA ForgetStep ==
    ASSUME IInv, (\E m \in Managers : ClearFails(m) \/ Lose(m)) \/ (\E pid \in Pids : ProcessEnds(pid))
    PROVE  IInv'
<1>1. UNCHANGED <<now, tables>>
  BY DEF ClearFails, Lose, ProcessEnds
<1>2. StoreInv' /\ RunsStay /\ \A p \in Projects : locks'[p] \in {locks[p], Null}
  BY <1>1, StoreStays DEF tables
<1>3. alive' \subseteq alive /\ losses' \in Nat
  BY DEF ClearFails, Lose, ProcessEnds, IInv, TypeOK
<1>4. /\ held' \in [Managers -> Held \cup {Null}]
      /\ listed' \in [Managers -> SUBSET Listed]
      /\ doomed' \in [Managers -> Listed \cup {Null}]
  BY DEF ClearFails, Lose, ProcessEnds, IInv, TypeOK
<1>5. \A m \in Managers : /\ held'[m] \in {held[m], Null}
                          /\ listed'[m] \subseteq listed[m]
                          /\ doomed'[m] \in {doomed[m], Null}
  BY DEF ClearFails, Lose, ProcessEnds, IInv, TypeOK
<1> QED
  BY <1>2, <1>3, <1>4, <1>5, MemoryStays

-----------------------------------------------------------------------------
(* The theorems.                                                             *)

\* Every step keeps the invariant.
LEMMA NextIInv == IInv /\ [Next]_vars => IInv'
<1> SUFFICES ASSUME IInv, [Next]_vars PROVE IInv'
  OBVIOUS
<1>1. CASE Next
  BY <1>1, AcquireStep, ReleaseStep, ClearStep, ListStep, ProbeStep, ForgetStep DEF Next
<1>2. CASE UNCHANGED vars
  <2>1. StoreInv' /\ RunsStay /\ UNCHANGED <<locks, alive, held, listed, doomed, losses>>
    BY <1>2, StoreStays DEF vars, mgrVars, tables
  <2> QED
    BY <2>1, MemoryStays DEF IInv, TypeOK
<1> QED
  BY <1>1, <1>2

\* The invariant holds of every state of the lock package.
THEOREM LockManagerInvariant == Spec => []IInv
<1> QED
  BY InitIInv, NextIInv, PTL DEF Spec

\* Rows, pids and what managers remember keep their types.
THEOREM LockManagerTypes == Spec => []TypeOK
<1>1. IInv => TypeOK
  BY DEF IInv
<1> QED
  BY <1>1, LockManagerInvariant, PTL

\* Although releases and clears delete by project id, no lock of a run that is over is left.
THEOREM LocksAreOfRunningRuns == Spec => []LocksNameRunningRuns
<1>1. IInv => LocksNameRunningRuns
  BY DEF IInv
<1> QED
  BY <1>1, LockManagerInvariant, PTL

\* A manager that is not the only one is one of two.
LEMMA NotAlone ==
    ASSUME NEW m \in Managers, ~Alone(m)
    PROVE  Cardinality(Managers) > 1
<1>1. PICK n \in Managers : n # m
  BY DEF Alone
<1>2. IsFiniteSet({m}) /\ Cardinality({m}) = 1
  BY FS_Singleton
<1>3. Cardinality({m} \cup {n}) = 2
  BY <1>1, <1>2, FS_AddElement
<1>4. Cardinality({m} \cup {n}) <= Cardinality(Managers) /\ Cardinality(Managers) \in Nat
  BY LockManagerAssumption, FS_Subset, FS_CardinalityType
<1> QED
  BY <1>3, <1>4

\* A single process clears no lock of a live client and none without a pid; with several,
\* a cleared lock that is not the dead one has another pid than the one that was probed.
THEOREM DeadLocksAreCleared == Spec => OnlyDeadLocksCleared
<1>1. ASSUME IInv, Next, NEW m \in Managers, NEW p \in Projects,
             doomed[m] # Null, doomed[m].project = p, doomed'[m] = Null, Locked(p), ~Locked(p)'
      PROVE  \/ locks[p].pid # Null /\ locks[p].pid \notin alive
             \/ Cardinality(Managers) > 1 /\ locks[p].pid # doomed[m].pid
  <2>1. doomed[m].pid # Null /\ doomed[m].pid \notin alive
    BY <1>1 DEF IInv, DoomedAreDead
  <2>2. Alone(m) => locks[p].pid = doomed[m].pid
    BY <1>1 DEF IInv, ListedAsTheyAre, LockUnchanged
  <2> QED
    BY <2>1, <2>2, NotAlone
<1>2. IInv /\ [Next]_vars
        => [\A m \in Managers, p \in Projects :
              (doomed[m] # Null /\ doomed[m].project = p /\ doomed'[m] = Null
               /\ Locked(p) /\ ~Locked(p)')
              => \/ locks[p].pid # Null /\ locks[p].pid \notin alive
                 \/ Cardinality(Managers) > 1 /\ locks[p].pid # doomed[m].pid]_vars
  BY <1>1
<1> QED
  BY <1>2, LockManagerInvariant, PTL DEF Spec, OnlyDeadLocksCleared

=============================================================================
