--------------------------- MODULE ServiceProofs ---------------------------
(***************************************************************************)
(* The safety of Service for every number of processes, projects, session  *)
(* ids, requests and failures: types, the keys of a migrated database, and *)
(* that exactly the live sessions are accepted.                            *)
(***************************************************************************)
EXTENDS Service, TLAPS

\* Open never holds a version it would have nothing to do for.
VersionsBehind == \A p \in Procs : cur[p] < schemaVersion

\* While a process copies, a readable file is copied or still to be read by it.
KeysKept ==
    \A p \in Procs, x \in Projects :
        phase[p] = "copy keys" /\ keyFile[x] = "readable" => x \in todo[p] \cup inline

\* The table against the history: what it holds was issued and not ended, and what
\* was issued, not ended and has not expired it holds.
TableIsHistory ==
    \A id \in Ids :
        /\ active[id] # Null => expiry[id] # Null /\ id \notin ended
        /\ expiry[id] # Null /\ id \notin ended /\ clock <= expiry[id] => active[id] # Null

\* A logout that was let in has a session; a cookie in flight was issued.
CookiesIssued ==
    \A t \in Tabs : req[t] # Null =>
        /\ req[t].cookie # Null => req[t].cookie \in Issued
        /\ req[t].kind = "logout" /\ req[t].stage = "accepted" => req[t].cookie # Null

\* An id that no login has issued yet has no past.
EndedIssued == ended \subseteq Issued

IInv ==
    /\ TypeOK
    /\ VersionsBehind /\ KeysKept /\ NoKeyLost
    /\ TableIsHistory /\ CookiesIssued /\ EndedIssued

\* The six old databases, unopened, have the invariant.
LEMMA InitIInv == Init => IInv
<1> SUFFICES ASSUME Init PROVE IInv
  OBVIOUS
<1> USE MigrationAssumption, ServiceAssumption DEF Init, MigrationInit
<1>1. TypeOK
  <2>1. versions \subseteq 1..4 /\ cols \subseteq Column
    BY DEF Column, Fresh, FromV1, FromBadV2, FromV2, FromV3, FromV4
  <2>2. cur \in [Procs -> 0..4] /\ failures \in 0..MaxFailures
    OBVIOUS
  <2>3. keyFile \in [Projects -> {"none", "readable", "unreadable"}] /\ inline \subseteq Projects
    OBVIOUS
  <2>4. MigrationTypeOK
    BY <2>1, <2>2, <2>3 DEF MigrationTypeOK, schemaVersion
  <2>5. phase \in [Procs -> Phase]
    BY DEF Phase, MigrationPhase, Opening, Closed
  <2>6. active \in [Ids -> Nat \cup {Null}] /\ expiry \in [Ids -> Nat \cup {Null}] /\ ended \subseteq Ids
    OBVIOUS
  <2>7. req \in [Tabs -> Request \cup {Null}]
    OBVIOUS
  <2>8. mode \in {"serve", "daemon"}
    OBVIOUS
  <2>9. clock \in 0..MaxClock
    <3>1. clock = 0 /\ MaxClock \in Nat
      OBVIOUS
    <3> QED
      BY ONLY <3>1
  <2> QED
    BY <2>4, <2>5, <2>6, <2>7, <2>8, <2>9 DEF TypeOK
<1>2. VersionsBehind /\ KeysKept /\ NoKeyLost
  BY DEF VersionsBehind, KeysKept, NoKeyLost, schemaVersion
<1>3. TableIsHistory /\ CookiesIssued /\ EndedIssued
  BY DEF TableIsHistory, CookiesIssued, EndedIssued
<1> QED
  BY <1>1, <1>2, <1>3 DEF IInv

-----------------------------------------------------------------------------
(* Steps of Open.                                                            *)

MigrationInv ==
    /\ MigrationTypeOK
    /\ phase \in [Procs -> Phase]
    /\ VersionsBehind
    /\ KeysKept
    /\ NoKeyLost

\* Where Open goes on, the types hold and no key is forgotten.
LEMMA GotoTypes ==
    ASSUME MigrationInv, NEW p \in Procs, NEW to \in Phase, Goto(p, to)
    PROVE  /\ phase' \in [Procs -> Phase]
           /\ todo' \in [Procs -> SUBSET Projects]
BY DEF MigrationInv, MigrationTypeOK, Goto

\* A process whose Open is not over is behind the newest version.
LEMMA VersionTypes ==
    ASSUME MigrationInv, NEW p \in Procs, NEW v \in 0..3, cur' = [cur EXCEPT ![p] = v]
    PROVE  cur' \in [Procs -> 0..schemaVersion] /\ VersionsBehind'
<1>1. cur \in [Procs -> 0..4] /\ \A q \in Procs : cur[q] < 4
  BY DEF MigrationInv, MigrationTypeOK, VersionsBehind, schemaVersion
<1>2. cur' \in [Procs -> 0..4]
  BY <1>1
<1>3. \A q \in Procs : cur'[q] < 4
  BY <1>1
<1> QED
  BY <1>2, <1>3 DEF VersionsBehind, schemaVersion

\* Where Open goes on or ends, the types hold.
LEMMA ContinueTypes ==
    ASSUME MigrationInv, NEW p \in Procs, NEW to \in Phase, Continue(p, to)
    PROVE  /\ phase' \in [Procs -> Phase]
           /\ todo' \in [Procs -> SUBSET Projects]
           /\ cur' \in [Procs -> 0..schemaVersion]
           /\ VersionsBehind'
<1>1. Goto(p, to)
  BY DEF Continue
<1> QED
  BY <1>1, GotoTypes DEF Continue, MigrationInv, MigrationTypeOK, VersionsBehind, schemaVersion

\* A process that goes anywhere but to the copying keeps the promise of the others.
LEMMA GotoKeepsKeys ==
    ASSUME MigrationInv, NEW p \in Procs, NEW to \in Phase \ {"copy keys"}, Goto(p, to),
           inline \subseteq inline', keyFile' = keyFile \/ keyFile' = [x \in Projects |-> "none"]
    PROVE  KeysKept'
<1> SUFFICES ASSUME NEW q \in Procs, NEW x \in Projects,
                    phase'[q] = "copy keys", keyFile'[x] = "readable"
             PROVE  x \in todo'[q] \cup inline'
  BY DEF KeysKept
<1>1. q # p /\ phase[q] = "copy keys"
  BY DEF Goto, MigrationInv
<1>2. todo'[q] = todo[q]
  BY <1>1 DEF Goto, MigrationInv, MigrationTypeOK
<1>3. keyFile[x] = "readable"
  OBVIOUS
<1> QED
  BY <1>1, <1>2, <1>3 DEF MigrationInv, KeysKept

\* A statement of Open that only looks keeps the invariant.
LEMMA LookStep ==
    ASSUME MigrationInv, NEW p \in Procs, NEW from, NEW to \in Phase \ {"copy keys"},
           Look(p, from, to)
    PROVE  MigrationInv'
<1>1. Continue(p, to) /\ Goto(p, to) /\ UNCHANGED <<schema, failures>>
  BY DEF Look, Continue
<1>2. KeysKept'
  BY <1>1, GotoKeepsKeys DEF schema
<1> QED
  BY <1>1, <1>2, ContinueTypes DEF MigrationInv, MigrationTypeOK, schema, NoKeyLost

\* So does one that adds a column,
LEMMA AddColumnStep ==
    ASSUME MigrationInv, NEW p \in Procs, NEW from, NEW col \in Column,
           NEW to \in Phase \ {"copy keys"}, AddColumn(p, from, col, to)
    PROVE  MigrationInv'
<1>1. PICK next \in Phase \ {"copy keys"} : Continue(p, next)
  BY DEF AddColumn, Phase, MigrationPhase, Closed
<1>2. KeysKept'
  BY <1>1, GotoKeepsKeys DEF AddColumn, Continue
<1> QED
  BY <1>1, <1>2, ContinueTypes DEF AddColumn, MigrationInv, MigrationTypeOK, NoKeyLost

\* and every other.
LEMMA MigrateStep ==
    ASSUME MigrationInv, NEW p \in Procs, Migrate(p)
    PROVE  MigrationInv'
<1> USE DEF Phase, MigrationPhase, Opening, Closed
<1>1. CASE ReadVersion(p)
  <2> DEFINE next == CASE Current = 0 -> "apply schema" [] Current = 1 -> "v2 add"
                       [] Current = 2 -> "v3 look" [] Current = 3 -> "v4 look" [] OTHER -> "up"
  <2>a. Goto(p, next) /\ cur' = [cur EXCEPT ![p] = IF next = "up" THEN 0 ELSE Current]
    BY <1>1 DEF ReadVersion
  <2>b. Current \in {0, 1, 2, 3} =>
          next \in {"apply schema", "v2 add", "v3 look", "v4 look"}
    OBVIOUS
  <2>c. Current \notin {0, 1, 2, 3} => next = "up"
    OBVIOUS
  <2> HIDE DEF next
  <2>1. PICK to \in {"apply schema", "v2 add", "v3 look", "v4 look", "up"}, c \in 0..3 :
           /\ Goto(p, to)
           /\ cur' = [cur EXCEPT ![p] = c]
    <3>1. CASE Current \in {0, 1, 2, 3}
      <4>1. next # "up"
        BY <2>b, <3>1
      <4>2. cur' = [cur EXCEPT ![p] = Current] /\ Current \in 0..3 /\ Goto(p, next)
        BY <2>a, <3>1, <4>1
      <4> QED
        BY <2>b, <3>1, <4>2
    <3>2. CASE Current \notin {0, 1, 2, 3}
      <4>1. cur' = [cur EXCEPT ![p] = 0] /\ Goto(p, "up")
        BY <2>a, <2>c, <3>2
      <4>2. 0 \in 0..3
        OBVIOUS
      <4> QED
        BY <4>1, <4>2
    <3> QED
      BY <3>1, <3>2
  <2>2. to \in Phase \ {"copy keys"} /\ UNCHANGED <<schema, failures>>
    BY <1>1 DEF ReadVersion
  <2>3. KeysKept'
    BY <2>1, <2>2, GotoKeepsKeys DEF schema
  <2>4. cur' \in [Procs -> 0..schemaVersion] /\ VersionsBehind'
    BY <2>1, VersionTypes
  <2> QED
    BY <2>1, <2>2, <2>3, <2>4, GotoTypes DEF MigrationInv, MigrationTypeOK, schema, NoKeyLost
<1>2. CASE ApplySchema(p)
  <2>1. KeysKept'
    BY <1>2, GotoKeepsKeys DEF ApplySchema, Continue
  <2> QED
    BY <1>2, <2>1, ContinueTypes
    DEF ApplySchema, MigrationInv, MigrationTypeOK, NoKeyLost, Column
<1>3. CASE \/ AddColumn(p, "v2 add", "ssh_private_key", "list keys")
           \/ AddColumn(p, "v3 add", "ssh_private_key", "list keys")
           \/ AddColumn(p, "v4 add", "ssh_host_key", "record")
  BY <1>3, AddColumnStep DEF Column
<1>4. CASE ListKeys(p)
  <2>1. CASE "ssh_key_path" \in cols
    <3>1. /\ phase' = [phase EXCEPT ![p] = "copy keys"]
          /\ todo' = [todo EXCEPT ![p] = {x \in Projects : keyFile[x] # "none"}]
          /\ UNCHANGED <<schema, failures, cur>>
      BY <1>4, <2>1 DEF ListKeys
    <3>2. KeysKept'
      BY <3>1 DEF KeysKept, MigrationInv, MigrationTypeOK, schema
    <3> QED
      BY <3>1, <3>2 DEF MigrationInv, MigrationTypeOK, schema, NoKeyLost, VersionsBehind
  <2>2. CASE "ssh_key_path" \notin cols
    <3>1. Continue(p, "down") /\ UNCHANGED <<schema, failures>>
      BY <1>4, <2>2 DEF ListKeys
    <3>2. KeysKept'
      BY <3>1, GotoKeepsKeys DEF schema, Continue
    <3> QED
      BY <3>1, <3>2, ContinueTypes DEF MigrationInv, MigrationTypeOK, schema, NoKeyLost
  <2> QED
    BY <2>1, <2>2
<1>5. ASSUME NEW x \in Projects, CopyKey(p, x) PROVE MigrationInv'
  <2>1. inline' \subseteq Projects /\ todo' \in [Procs -> SUBSET Projects]
    BY <1>5 DEF CopyKey, MigrationInv, MigrationTypeOK
  <2>2. KeysKept'
    BY <1>5 DEF CopyKey, KeysKept, MigrationInv, MigrationTypeOK
  <2> QED
    BY <1>5, <2>1, <2>2 DEF CopyKey, MigrationInv, MigrationTypeOK, NoKeyLost, VersionsBehind
<1>6. CASE DropPath(p)
  <2>1. PICK to \in {"down", "v3 look", "v4 look"} : Continue(p, to)
    BY <1>6 DEF DropPath
  <2>2. to \in Phase \ {"copy keys"}
    OBVIOUS
  <2>3. KeysKept'
    BY <1>6, <2>1, <2>2, GotoKeepsKeys DEF DropPath, Continue
  <2>4. ~lost'
    BY <1>6 DEF DropPath, KeysCopied, MigrationInv, KeysKept, NoKeyLost
  <2> QED
    BY <1>6, <2>1, <2>2, <2>3, <2>4, ContinueTypes
    DEF DropPath, MigrationInv, MigrationTypeOK, NoKeyLost
<1>7. CASE V3Look(p) \/ V3LookAgain(p) \/ V4Look(p)
  BY <1>7, LookStep DEF V3Look, V3LookAgain, V4Look
<1>8. CASE Record(p)
  <2> DEFINE v == cur[p] + 1
  <2>1. v \in 1..4
    <3>1. cur[p] \in 0..4 /\ cur[p] < 4
      BY DEF MigrationInv, MigrationTypeOK, VersionsBehind, schemaVersion
    <3> QED
      BY <3>1
  <2> DEFINE to == IF v \in versions THEN "down" ELSE IF v = schemaVersion THEN "up" ELSE "record"
             c == IF to = "record" THEN v ELSE 0
  <2>2. Goto(p, to) /\ cur' = [cur EXCEPT ![p] = c] /\ versions' = versions \cup {v}
        /\ UNCHANGED <<cols, keyFile, inline, lost, failures>>
    BY <1>8 DEF Record
  <2>3. c \in 0..3
    BY <2>1 DEF schemaVersion
  <2>4. to \in Phase \ {"copy keys"}
    OBVIOUS
  <2> HIDE DEF to, c
  <2>5. KeysKept'
    BY <2>2, <2>4, GotoKeepsKeys
  <2>6. cur' \in [Procs -> 0..schemaVersion] /\ VersionsBehind'
    BY <2>2, <2>3, VersionTypes
  <2>7. versions' \subseteq 1..schemaVersion
    <3> HIDE DEF v
    <3> QED
      BY <2>1, <2>2 DEF MigrationInv, MigrationTypeOK, schemaVersion
  <2>8. phase' \in [Procs -> Phase] /\ todo' \in [Procs -> SUBSET Projects]
    BY <2>2, <2>4, GotoTypes
  <2> QED
    BY <2>2, <2>5, <2>6, <2>7, <2>8 DEF MigrationInv, MigrationTypeOK, NoKeyLost
<1> QED
  BY <1>1, <1>2, <1>3, <1>4, <1>5, <1>6, <1>7, <1>8 DEF Migrate

-----------------------------------------------------------------------------
(* Steps of the process.                                                     *)

\* Failures stay within their bound.
LEMMA FailureTypes ==
    ASSUME failures \in 0..MaxFailures, failures < MaxFailures, failures' = failures + 1
    PROVE  failures' \in 0..MaxFailures
BY MigrationAssumption

\* A process that moves outside the copying of keys forgets no key.
LEMMA ProcessStep ==
    ASSUME MigrationInv, NEW p \in Procs, NEW to \in Phase \ {"copy keys"}, Goto(p, to),
           UNCHANGED <<schema, cur>>, failures' \in 0..MaxFailures
    PROVE  MigrationInv'
<1>1. KeysKept'
  BY GotoKeepsKeys DEF schema
<1> QED
  BY <1>1, GotoTypes DEF MigrationInv, MigrationTypeOK, VersionsBehind, NoKeyLost, schema

\* Nor does one that fails or dies, wherever it was.
LEMMA GiveUpStep ==
    ASSUME MigrationInv, NEW p \in Procs, GiveUp(p)
    PROVE  MigrationInv'
<1>1. "down" \in Phase \ {"copy keys"}
  BY DEF Phase, MigrationPhase, Closed
<1>2. Continue(p, "down") /\ Goto(p, "down") /\ UNCHANGED schema
  BY DEF GiveUp, Continue
<1>3. failures' \in 0..MaxFailures
  BY FailureTypes DEF GiveUp, MigrationInv, MigrationTypeOK
<1>4. KeysKept'
  BY <1>1, <1>2, GotoKeepsKeys DEF schema
<1> QED
  BY <1>1, <1>2, <1>3, <1>4, ContinueTypes DEF MigrationInv, MigrationTypeOK, NoKeyLost, schema

\* Steps of sessions leave migrations alone.
LEMMA MigrationStays ==
    ASSUME MigrationInv, UNCHANGED migrationVars
    PROVE  MigrationInv'
BY DEF MigrationInv, MigrationTypeOK, VersionsBehind, KeysKept, NoKeyLost, migrationVars, schema

-----------------------------------------------------------------------------
(* Steps of sessions.                                                        *)

SessionInv ==
    /\ mode \in {"serve", "daemon"}
    /\ clock \in 0..MaxClock
    /\ active \in [Ids -> Nat \cup {Null}]
    /\ expiry \in [Ids -> Nat \cup {Null}]
    /\ ended \subseteq Ids
    /\ req \in [Tabs -> Request \cup {Null}]
    /\ TableIsHistory
    /\ CookiesIssued
    /\ EndedIssued

\* The invariant is that of the migrations and that of the sessions,
LEMMA TwoParts == IInv <=> MigrationInv /\ SessionInv
BY DEF IInv, TypeOK, MigrationInv, SessionInv

\* after a step as before it.
LEMMA TwoPartsNext == MigrationInv' /\ SessionInv' => IInv'
BY DEF IInv, TypeOK, MigrationInv, SessionInv

LEMMA SessionPartNext == IInv' => SessionInv'
  BY DEF IInv, TypeOK, SessionInv

\* Steps of migrations leave sessions alone.
LEMMA SessionsStay ==
    ASSUME SessionInv, UNCHANGED sessionVars
    PROVE  SessionInv'
BY DEF SessionInv, sessionVars, TableIsHistory, CookiesIssued, EndedIssued, Issued

\* A request's slot is emptied, or holds a request with an issued cookie.
LEMMA SlotStep ==
    ASSUME SessionInv, NEW t \in Tabs, NEW q \in Request \cup {Null},
           req' = [req EXCEPT ![t] = q],
           q # Null => /\ q.cookie # Null => q.cookie \in Issued
                       /\ q.kind = "logout" /\ q.stage = "accepted" => q.cookie # Null,
           Issued \subseteq Issued'
    PROVE  req' \in [Tabs -> Request \cup {Null}] /\ CookiesIssued'
<1>1. req' \in [Tabs -> Request \cup {Null}]
  BY DEF SessionInv
<1>2. ASSUME NEW u \in Tabs, req'[u] # Null
      PROVE  /\ req'[u].cookie # Null => req'[u].cookie \in Issued'
             /\ req'[u].kind = "logout" /\ req'[u].stage = "accepted" => req'[u].cookie # Null
  <2>1. CASE u = t
    BY <1>2, <2>1 DEF SessionInv
  <2>2. CASE u # t
    BY <1>2, <2>2 DEF SessionInv, CookiesIssued
  <2> QED
    BY <2>1, <2>2
<1> QED
  BY <1>1, <1>2 DEF CookiesIssued

\* A tab sends a cookie that was issued, or none.
LEMMA SendStep ==
    ASSUME SessionInv, NEW t \in Tabs, Send(t)
    PROVE  SessionInv'
<1>1. PICK kind \in {"login", "logout", "call", "bearer"}, c \in Issued \cup {Null} :
         req' = [req EXCEPT ![t] = [kind |-> kind, cookie |-> c, stage |-> "sent"]]
  BY DEF Send
<1> DEFINE q == [kind |-> kind, cookie |-> c, stage |-> "sent"]
<1>2. q \in Request /\ q.cookie = c /\ q.stage = "sent"
  BY DEF Request, Issued
<1>3. UNCHANGED <<mode, clock, active, expiry, ended>> /\ Issued' = Issued
  BY DEF Send, Issued
<1> HIDE DEF q
<1>4. req' \in [Tabs -> Request \cup {Null}] /\ CookiesIssued'
  BY <1>1, <1>2, <1>3, SlotStep DEF q
<1> QED
  BY <1>3, <1>4 DEF SessionInv, TableIsHistory, EndedIssued

\* An expired session leaves the table; nobody misses it.
LEMMA AuthenticateStep ==
    ASSUME SessionInv, NEW t \in Tabs, Authenticate(t)
    PROVE  SessionInv'
<1> DEFINE q == req[t]
           r == IF Authenticated(q) THEN [q EXCEPT !.stage = "accepted"] ELSE Null
<1>1. q \in Request /\ q # Null
  BY DEF Authenticate, SessionInv
<1>2. /\ req' = [req EXCEPT ![t] = r]
      /\ active' = IF Lapsed(q) THEN [active EXCEPT ![q.cookie] = Null] ELSE active
      /\ UNCHANGED <<mode, clock, expiry, ended>> /\ Issued' = Issued
  BY DEF Authenticate, Issued
<1>3. q.cookie # Null => q.cookie \in Issued
  BY <1>1 DEF SessionInv, CookiesIssued
<1>4. /\ r \in Request \cup {Null}
      /\ r # Null => /\ r.cookie = q.cookie /\ r.kind = q.kind
                     /\ q.kind = "logout" => q.cookie # Null
  <2>1. [q EXCEPT !.stage = "accepted"] \in Request
    BY <1>1 DEF Request
  <2>2. /\ [q EXCEPT !.stage = "accepted"].cookie = q.cookie
        /\ [q EXCEPT !.stage = "accepted"].kind = q.kind
    BY <1>1 DEF Request
  <2>3. Authenticated(q) /\ q.kind = "logout" => q.cookie # Null
    BY DEF Authenticated, Valid
  <2> QED
    BY <2>1, <2>2, <2>3
<1> HIDE DEF r
<1>5. req' \in [Tabs -> Request \cup {Null}] /\ CookiesIssued'
  BY <1>2, <1>3, <1>4, SlotStep
<1>6. active' \in [Ids -> Nat \cup {Null}]
  BY <1>2 DEF SessionInv
<1>7. TableIsHistory'
  <2>1. SUFFICES ASSUME NEW id \in Ids
                 PROVE  /\ active'[id] # Null => expiry[id] # Null /\ id \notin ended
                        /\ expiry[id] # Null /\ id \notin ended /\ clock <= expiry[id] => active'[id] # Null
    BY <1>2 DEF TableIsHistory
  <2>2. CASE Lapsed(q) /\ id = q.cookie
    <3>1. active'[id] = Null /\ clock > expiry[id]
      BY <1>2, <2>2 DEF Lapsed, SessionInv
    <3>2. expiry[id] # Null => ~(clock <= expiry[id])
      BY <3>1 DEF SessionInv
    <3> QED
      BY <3>1, <3>2
  <2>3. CASE ~(Lapsed(q) /\ id = q.cookie)
    <3>1. active'[id] = active[id]
      BY <1>2, <2>3 DEF SessionInv
    <3> QED
      BY <3>1 DEF SessionInv, TableIsHistory
  <2> QED
    BY <2>2, <2>3
<1> QED
  BY <1>2, <1>5, <1>6, <1>7 DEF SessionInv, EndedIssued

\* A request that ends takes its cookie with it.
LEMMA HandlerTypes ==
    ASSUME SessionInv, NEW t \in Tabs, req' = [req EXCEPT ![t] = Null], Issued \subseteq Issued'
    PROVE  req' \in [Tabs -> Request \cup {Null}] /\ CookiesIssued'
BY SlotStep

\* A login issues an id that was neither issued nor ended before.
LEMMA LoginStep ==
    ASSUME SessionInv, NEW t \in Tabs, Login(t)
    PROVE  SessionInv'
<1>1. req' = [req EXCEPT ![t] = Null] /\ UNCHANGED <<mode, clock, ended>>
  BY DEF Login
<1>2. CASE UNCHANGED <<active, expiry>>
  <2>1. Issued' = Issued
    BY <1>2 DEF Issued
  <2> QED
    BY <1>1, <1>2, <2>1, HandlerTypes DEF SessionInv, TableIsHistory, EndedIssued
<1>3. ASSUME NEW id \in Ids, expiry[id] = Null,
             expiry' = [expiry EXCEPT ![id] = clock + TTL],
             active' = [active EXCEPT ![id] = clock + TTL]
      PROVE  SessionInv'
  <2>1. clock + TTL \in Nat /\ clock + TTL # Null /\ clock <= clock + TTL
    BY ServiceAssumption DEF SessionInv
  <2>2. expiry' \in [Ids -> Nat \cup {Null}] /\ active' \in [Ids -> Nat \cup {Null}]
    BY <1>3, <2>1 DEF SessionInv
  <2>3. Issued \subseteq Issued'
    BY <1>3, <2>1 DEF Issued, SessionInv
  <2>4. id \notin ended
    BY <1>3 DEF SessionInv, EndedIssued, Issued
  <2>5. EndedIssued'
    BY <1>1, <2>3 DEF SessionInv, EndedIssued
  <2>6. TableIsHistory'
    <3>1. SUFFICES ASSUME NEW i \in Ids
                   PROVE  /\ active'[i] # Null => expiry'[i] # Null /\ i \notin ended
                          /\ expiry'[i] # Null /\ i \notin ended /\ clock <= expiry'[i] => active'[i] # Null
      BY <1>1 DEF TableIsHistory
    <3>2. CASE i = id
      BY <1>3, <2>1, <2>4, <3>2 DEF SessionInv
    <3>3. CASE i # id
      <4>1. active'[i] = active[i] /\ expiry'[i] = expiry[i]
        BY <1>3, <3>3 DEF SessionInv
      <4> QED
        BY <4>1 DEF SessionInv, TableIsHistory
    <3> QED
      BY <3>2, <3>3
  <2>7. req' \in [Tabs -> Request \cup {Null}] /\ CookiesIssued'
    BY <1>1, <2>3, HandlerTypes
  <2> QED
    BY <1>1, <2>2, <2>5, <2>6, <2>7 DEF SessionInv
<1> QED
  BY <1>2, <1>3 DEF Login

\* A logout ends the session in the table and in the history alike.
LEMMA LogoutStep ==
    ASSUME SessionInv, NEW t \in Tabs, Logout(t)
    PROVE  SessionInv'
<1> DEFINE c == req[t].cookie
<1>1. c \in Issued
  BY DEF Logout, Handling, SessionInv, CookiesIssued
<1>2. /\ req' = [req EXCEPT ![t] = Null]
      /\ active' = [active EXCEPT ![c] = Null] /\ ended' = ended \cup {c}
      /\ UNCHANGED <<mode, clock, expiry>> /\ Issued' = Issued
  BY DEF Logout, Issued
<1> HIDE DEF c
<1>3. c \in Ids
  BY <1>1 DEF Issued
<1>4. active' \in [Ids -> Nat \cup {Null}] /\ ended' \subseteq Ids /\ EndedIssued'
  BY <1>1, <1>2, <1>3 DEF SessionInv, EndedIssued
<1>5. TableIsHistory'
  <2>1. SUFFICES ASSUME NEW id \in Ids
                 PROVE  /\ active'[id] # Null => expiry[id] # Null /\ id \notin ended'
                        /\ expiry[id] # Null /\ id \notin ended' /\ clock <= expiry[id] => active'[id] # Null
    BY <1>2 DEF TableIsHistory
  <2>2. CASE id = c
    <3>1. active'[id] = Null /\ id \in ended'
      BY <1>2, <1>3, <2>2 DEF SessionInv
    <3> QED
      BY <3>1
  <2>3. CASE id # c
    <3>1. active'[id] = active[id] /\ (id \in ended' <=> id \in ended)
      BY <1>2, <2>3 DEF SessionInv
    <3> QED
      BY <3>1 DEF SessionInv, TableIsHistory
  <2> QED
    BY <2>2, <2>3
<1> QED
  BY <1>2, <1>4, <1>5, HandlerTypes DEF SessionInv

\* A handler that is neither leaves the sessions alone.
LEMMA CallStep ==
    ASSUME SessionInv, NEW t \in Tabs, Call(t)
    PROVE  SessionInv'
<1>1. req' = [req EXCEPT ![t] = Null] /\ UNCHANGED <<mode, clock, active, expiry, ended>>
      /\ Issued' = Issued
  BY DEF Call, Issued
<1> QED
  BY <1>1, HandlerTypes DEF SessionInv, TableIsHistory, EndedIssued

\* The clock passes expiries; the table keeps those rows until they are asked for.
LEMMA TickStep ==
    ASSUME SessionInv, Tick
    PROVE  SessionInv'
<1>1. clock' = clock + 1 /\ clock' \in 0..MaxClock /\ clock \in Nat
  BY ServiceAssumption DEF Tick, SessionInv
<1>2. UNCHANGED <<mode, active, expiry, ended, req>> /\ Issued' = Issued
  BY DEF Tick, Issued
<1>3. ASSUME NEW id \in Ids, expiry[id] # Null, clock' <= expiry[id]
      PROVE  clock <= expiry[id]
  BY <1>1, <1>3 DEF SessionInv
<1>4. TableIsHistory'
  BY <1>2, <1>3 DEF SessionInv, TableIsHistory
<1> QED
  BY <1>1, <1>2, <1>4 DEF SessionInv, CookiesIssued, EndedIssued

\* The end of the process empties the table and ends every session issued.
LEMMA EndsStep ==
    ASSUME SessionInv, NEW to, Ends(to)
    PROVE  SessionInv'
<1>1. /\ active' = [id \in Ids |-> Null] /\ ended' = Issued /\ req' = [t \in Tabs |-> Null]
      /\ UNCHANGED <<mode, clock, expiry>> /\ Issued' = Issued
  BY DEF Ends, Issued
<1>2. TableIsHistory' /\ CookiesIssued' /\ EndedIssued'
  BY <1>1 DEF TableIsHistory, CookiesIssued, EndedIssued, Issued
<1> QED
  BY <1>1, <1>2 DEF SessionInv, Issued

-----------------------------------------------------------------------------
(* Every step, and the theorems.                                             *)

\* The phases of a server that is not copying keys.
LEMMA FreePhases ==
    /\ {"up", "read version", "listening", "deaf", "draining", "overdue", "stopped", "down"}
         \subseteq Phase \ {"copy keys"}
    /\ Server \in Procs
BY ServiceAssumption DEF Phase, MigrationPhase, Opening, Closed

\* Listen, Signal and the like: one move of the server that leaves the sessions alone.
LEMMA MoveStep ==
    ASSUME IInv, NEW from, NEW to \in Phase \ {"copy keys"}, Move(from, to),
           failures' \in 0..MaxFailures, UNCHANGED sessionVars
    PROVE  IInv'
<1>1. MigrationInv'
  BY TwoParts, FreePhases, ProcessStep DEF Move
<1>2. SessionInv'
  BY TwoParts, SessionsStay
<1> QED
  BY <1>1, <1>2, TwoPartsNext

\* Every step keeps the invariant.
LEMMA NextStep == IInv /\ [Next]_vars => IInv'
<1> SUFFICES ASSUME IInv, [Next]_vars PROVE IInv'
  OBVIOUS
<1> USE FreePhases
<1>a. MigrationInv /\ SessionInv
  BY TwoParts
<1>b. failures \in 0..MaxFailures
  BY <1>a DEF MigrationInv, MigrationTypeOK
<1>1. ASSUME NEW p \in Procs, Runs(p) PROVE IInv'
  <2>1. MigrationInv'
    BY <1>1, <1>a, LookStep, MigrateStep DEF Runs, Open
  <2> QED
    BY <1>1, <1>a, <2>1, SessionsStay, TwoPartsNext DEF Runs
<1>2. ASSUME NEW p \in Procs, CommandEnds(p) PROVE IInv'
  <2>1. MigrationInv'
    BY <1>2, <1>a, <1>b, ProcessStep DEF CommandEnds
  <2> QED
    BY <1>2, <1>a, <2>1, SessionsStay, TwoPartsNext DEF CommandEnds
<1>3. ASSUME NEW p \in Procs, GiveUp(p), UNCHANGED sessionVars PROVE IInv'
  BY <1>3, <1>a, GiveUpStep, SessionsStay, TwoPartsNext
<1>4. CASE Open(Server, "stopped") /\ UNCHANGED sessionVars
  BY <1>4, <1>a, LookStep, SessionsStay, TwoPartsNext DEF Open
<1>5. ASSUME NEW t \in Tabs, Send(t) \/ Serve(t) PROVE IInv'
  <2>1. UNCHANGED migrationVars
    BY <1>5 DEF Send, Serve, Authenticate, Login, Logout, Call
  <2>2. SessionInv'
    BY <1>5, <1>a, SendStep, AuthenticateStep, LoginStep, LogoutStep, CallStep DEF Serve
  <2> QED
    BY <1>a, <2>1, <2>2, MigrationStays, TwoPartsNext
<1>6. CASE Tick
  <2>1. UNCHANGED migrationVars
    BY <1>6 DEF Tick
  <2> QED
    BY <1>6, <1>a, <2>1, TickStep, MigrationStays, TwoPartsNext
<1>7. CASE Listen \/ Signal \/ DrainTimeout
  BY <1>7, <1>b, MoveStep DEF Listen, Signal, DrainTimeout
<1>8. CASE ListenFails
  <2>1. failures' \in 0..MaxFailures
    BY <1>8, <1>b, FailureTypes DEF ListenFails
  <2>2. PICK to \in {"down", "deaf"} : Move({"up"}, to)
    BY <1>8 DEF ListenFails
  <2> QED
    BY <1>8, <2>1, <2>2, MoveStep DEF ListenFails
<1>9. CASE Close \/ Crash
  <2>1. PICK to \in {"stopped", "down"} : Ends(to)
    BY <1>9 DEF Close, Crash
  <2>2. failures' \in 0..MaxFailures
    BY <1>9, <1>b, FailureTypes DEF Close, Crash
  <2>3. MigrationInv'
    BY <1>a, <2>1, <2>2, ProcessStep DEF Ends
  <2>4. SessionInv'
    BY <1>a, <2>1, EndsStep
  <2> QED
    BY <2>3, <2>4, TwoPartsNext
<1>10. CASE UNCHANGED vars
  BY <1>10, <1>a, MigrationStays, SessionsStay, TwoPartsNext DEF vars
<1> QED
  BY <1>1, <1>2, <1>3, <1>4, <1>5, <1>6, <1>7, <1>8, <1>9, <1>10 DEF Next

\* The invariant holds of every state of the service.
THEOREM ServiceInvariant == Spec => []IInv
<1>1. IInv /\ [Next]_vars => IInv'
  BY NextStep
<1> QED
  BY InitIInv, <1>1, PTL DEF Spec

\* Every variable of the service and of the migration keeps its type.
THEOREM ServiceTypes == Spec => []TypeOK
<1>1. IInv => TypeOK
  BY DEF IInv
<1> QED
  BY ServiceInvariant, <1>1, PTL

\* However many processes migrate, are killed and fail, the path of a readable key
\* file is dropped only after the key was copied into its project.
THEOREM KeysSurvive == Spec => []NoKeyLost
<1>1. IInv => NoKeyLost
  BY DEF IInv
<1> QED
  BY ServiceInvariant, <1>1, PTL

\* In every step that answers the middleware's question, the answer is that of the
\* history: with any number of tabs, sessions, logouts and restarts.
THEOREM SessionsAreExact == Spec => AcceptedIffLive
<1> DEFINE Step == \A t \in Tabs : req[t] # Null /\ req[t].stage = "sent" /\ phase'[Server] = phase[Server]
                                    /\ req'[t] # req[t] =>
                     ((req'[t] # Null) <=> (req[t].kind \in {"login", "bearer"} \/ Live(req[t].cookie)))
<1>1. IInv /\ [Next]_vars => [Step]_vars
  <2> SUFFICES ASSUME IInv, Next, NEW t \in Tabs,
                      req[t] # Null, req[t].stage = "sent",
                      phase'[Server] = phase[Server], req'[t] # req[t]
               PROVE  (req'[t] # Null) <=> (req[t].kind \in {"login", "bearer"} \/ Live(req[t].cookie))
    OBVIOUS
  <2>a. SessionInv /\ req[t] \in Request /\ phase \in [Procs -> Phase]
    BY TwoParts DEF SessionInv, MigrationInv
  <2>1. Authenticate(t)
    <3>1. ASSUME NEW to, Ends(to), to # phase[Server] PROVE FALSE
      BY <2>a, <3>1, FreePhases DEF Ends, Goto
    <3>2. ~Close /\ ~Crash
      BY <3>1 DEF Close, Crash, MayClose
    <3>3. UNCHANGED req => FALSE
      OBVIOUS
    <3>4. PICK u \in Tabs : Send(u) \/ Serve(u)
      BY <3>2, <3>3 DEF Next, Runs, CommandEnds, Tick, Listen, ListenFails, Signal, DrainTimeout, sessionVars
    <3>5. PICK v : req' = [req EXCEPT ![u] = v]
      BY <3>4 DEF Send, Serve, Authenticate, Login, Logout, Call
    <3>6. u = t
      BY <2>a, <3>5 DEF SessionInv
    <3> QED
      BY <3>4, <3>6 DEF Send, Serve, Login, Logout, Call, Handling
  <2>2. (req'[t] # Null) <=> Authenticated(req[t])
    <3> DEFINE q == req[t]
               r == [q EXCEPT !.stage = "accepted"]
    <3>1. r \in Request /\ r # Null
      BY <2>a, ServiceAssumption DEF Request
    <3>2. req' = [req EXCEPT ![t] = IF Authenticated(q) THEN r ELSE Null]
      BY <2>1 DEF Authenticate
    <3> HIDE DEF q, r
    <3> QED
      BY <2>a, <3>1, <3>2 DEF SessionInv, q
  <2>3. ASSUME NEW id \in Issued PROVE Valid(id) <=> Live(id)
    <3>1. id \in Ids /\ id # Null /\ expiry[id] # Null
      BY ServiceAssumption DEF Issued
    <3> QED
      BY <2>a, <3>1 DEF SessionInv, TableIsHistory, Valid, Live
  <2>4. req[t].cookie = Null \/ req[t].cookie \in Issued
    BY <2>a DEF SessionInv, CookiesIssued
  <2> QED
    BY <2>2, <2>3, <2>4 DEF Authenticated, Valid, Live
<1> QED
  BY ServiceInvariant, <1>1, PTL DEF Spec, AcceptedIffLive

-----------------------------------------------------------------------------
(* The abstract sessions.                                                    *)

\* What the table accepts, from the history alone.
LEMMA AcceptedAreLive ==
    ASSUME SessionInv
    PROVE  Accepted = {id \in Issued : id \notin ended /\ clock <= expiry[id]}
<1>1. ASSUME NEW id \in Issued PROVE Valid(id) <=> (id \notin ended /\ clock <= expiry[id])
  <2>1. id \in Ids /\ id # Null /\ expiry[id] # Null
    BY ServiceAssumption DEF Issued
  <2> QED
    BY <2>1 DEF SessionInv, TableIsHistory, Valid
<1> QED
  BY <1>1 DEF Accepted

\* The same of the state a step leads to.
LEMMA AcceptedAreLiveNext ==
    ASSUME SessionInv'
    PROVE  Accepted' = {id \in Issued' : id \notin ended' /\ clock' <= expiry'[id]}
<1>1. ASSUME NEW id \in Issued'
      PROVE  Valid(id)' <=> (id \notin ended' /\ clock' <= expiry'[id])
  <2>1. id \in Ids /\ id # Null /\ expiry'[id] # Null
    BY ServiceAssumption DEF Issued
  <2> QED
    BY <2>1 DEF SessionInv, TableIsHistory, Valid
<1> QED
  BY <1>1 DEF Accepted

\* A step that changes no history changes nobody's session: cleaning the table up,
\* for one, is not seen.
LEMMA HistoryStays ==
    ASSUME SessionInv, SessionInv', UNCHANGED <<clock, expiry, ended>>
    PROVE  UNCHANGED S!vars
<1>1. Issued' = Issued
  BY DEF Issued
<1>2. Accepted' = Accepted
  BY <1>1, AcceptedAreLive, AcceptedAreLiveNext
<1> QED
  BY <1>2 DEF S!vars

\* A login opens a session that was never opened.
LEMMA LoginOpens ==
    ASSUME SessionInv, SessionInv', NEW t \in Tabs, Login(t)
    PROVE  [S!Next]_(S!vars)
<1>1. UNCHANGED <<clock, ended>>
  BY DEF Login
<1>2. CASE UNCHANGED <<active, expiry>>
  BY <1>1, <1>2, HistoryStays
<1>3. ASSUME NEW id \in Ids, expiry[id] = Null, expiry' = [expiry EXCEPT ![id] = clock + TTL]
      PROVE  S!Login(id)
  <2>1. clock \in Nat /\ clock + TTL \in Nat /\ clock + TTL # Null /\ clock <= clock + TTL
    BY ServiceAssumption DEF SessionInv
  <2>2. id \notin ended
    BY <1>3 DEF SessionInv, EndedIssued, Issued
  <2>3. expiry'[id] = clock + TTL /\ \A i \in Ids : i # id => expiry'[i] = expiry[i]
    BY <1>3 DEF SessionInv
  <2>4. Issued' = Issued \cup {id}
    BY <1>3, <2>1, <2>3 DEF Issued
  <2>5. \A i \in Ids : i \in Accepted' <=> i \in Accepted \/ i = id
    BY <1>1, <1>3, <2>1, <2>2, <2>3, <2>4, AcceptedAreLive, AcceptedAreLiveNext DEF Issued
  <2>6. Accepted' = Accepted \cup {id}
    BY <2>5 DEF Accepted, Issued
  <2> QED
    BY <1>1, <1>3, <2>6 DEF S!Login
<1> QED
  BY <1>2, <1>3 DEF Login, S!Next

\* A logout revokes one; so does a second one that crossed it.
LEMMA LogoutRevokes ==
    ASSUME SessionInv, SessionInv', NEW t \in Tabs, Logout(t)
    PROVE  [S!Next]_(S!vars)
<1> DEFINE c == req[t].cookie
<1>1. c \in Issued
  BY DEF Logout, Handling, SessionInv, CookiesIssued
<1>2. ended' = ended \cup {c} /\ UNCHANGED <<clock, expiry>> /\ Issued' = Issued
  BY DEF Logout, Issued
<1> HIDE DEF c
<1>3. Accepted' = Accepted \ {c}
  BY <1>2, AcceptedAreLive, AcceptedAreLiveNext
<1>4. c \in Ids /\ c \in S!Opened
  BY <1>1 DEF Issued, S!Opened
<1>5. S!Logout(c)
  BY <1>2, <1>3, <1>4 DEF S!Logout
<1> QED
  BY <1>4, <1>5 DEF S!Next

\* The end of the process loses all of them.
LEMMA EndsLoses ==
    ASSUME SessionInv, SessionInv', NEW to, Ends(to)
    PROVE  [S!Next]_(S!vars)
<1>1. ended' = Issued /\ UNCHANGED <<clock, expiry>> /\ Issued' = Issued
  BY DEF Ends, Issued
<1>2. Accepted' = {}
  BY <1>1, AcceptedAreLiveNext
<1>3. S!LoseAll
  BY <1>1, <1>2 DEF S!LoseAll, S!Opened, Issued
<1> QED
  BY <1>3 DEF S!Next

\* The clock ends those whose last second has passed, in the table or not.
LEMMA TickPasses ==
    ASSUME SessionInv, SessionInv', Tick
    PROVE  [S!Next]_(S!vars)
<1>1. clock \in Nat /\ clock' = clock + 1 /\ UNCHANGED <<expiry, ended>> /\ Issued' = Issued
  BY ServiceAssumption DEF Tick, SessionInv, Issued
<1>2. ASSUME NEW id \in Issued, clock' <= expiry[id] PROVE clock <= expiry[id]
  <2> expiry[id] \in Nat
    BY DEF Issued, SessionInv
  <2> QED
    BY <1>1, <1>2
<1>3. Accepted' = {id \in Accepted : clock' <= expiry[id]}
  BY <1>1, <1>2, AcceptedAreLive, AcceptedAreLiveNext
<1>4. S!Pass
  BY <1>1, <1>3 DEF S!Pass
<1> QED
  BY <1>4 DEF S!Next

\* The server's cookies and table implement the abstract sessions: whatever crosses,
\* fails or restarts, a session is accepted to its last second unless it was revoked,
\* and never again afterwards (sessionManager).
THEOREM SessionsRefined == Spec => ImplementsSessions
<1>1. Init => S!Init
  BY DEF Init, S!Init, Accepted, Issued
<1>2. ASSUME IInv, IInv', [Next]_vars PROVE [S!Next]_(S!vars)
  <2>a. SessionInv /\ SessionInv'
    BY <1>2, TwoParts, SessionPartNext
  <2>1. CASE UNCHANGED <<clock, expiry, ended>>
    BY <2>a, <2>1, HistoryStays
  <2>2. ASSUME NEW t \in Tabs, Send(t) \/ Serve(t) PROVE [S!Next]_(S!vars)
    <3>1. CASE Login(t)
      BY <2>a, <3>1, LoginOpens
    <3>2. CASE Logout(t)
      BY <2>a, <3>2, LogoutRevokes
    <3> QED
      BY <2>1, <2>2, <3>1, <3>2 DEF Send, Serve, Authenticate, Call
  <2>3. CASE Tick
    BY <2>a, <2>3, TickPasses
  <2>4. CASE Close \/ Crash
    <3> PICK to \in {"stopped", "down"} : Ends(to)
      BY <2>4 DEF Close, Crash
    <3> QED
      BY <2>a, EndsLoses
  <2> QED
    BY <1>2, <2>1, <2>2, <2>3, <2>4
    DEF Next, Runs, CommandEnds, Listen, ListenFails, Signal, DrainTimeout, vars, sessionVars
<1> QED
  BY <1>1, <1>2, ServiceInvariant, PTL DEF Spec, ImplementsSessions, S!Spec

-----------------------------------------------------------------------------
(* The schema.                                                               *)

\* The columns of projects, from no table to the newest.
Newest == {"ssh_private_key", "ssh_host_key"}

Layouts == {{}, {"ssh_key_path"}, {"ssh_key_path", "ssh_private_key"}, {"ssh_private_key"}, Newest}

Upgrades ==
    {<<{}, Newest>>,
     <<{"ssh_key_path"}, {"ssh_key_path", "ssh_private_key"}>>,
     <<{"ssh_key_path", "ssh_private_key"}, {"ssh_private_key"}>>,
     <<{"ssh_private_key"}, Newest>>}

\* Versions are recorded in order, and only what they stand for was done: but a
\* version says nothing of ssh_private_key, which the first v2 migration dropped.
VersionsFit ==
    /\ versions \in {{}, {1}, {1, 2}, {1, 2, 3}, {1, 2, 3, 4}}
    /\ cols \in Layouts
    /\ versions = {} => cols \in {{}, Newest}
    /\ versions # {} => cols # {}
    /\ 3 \in versions => "ssh_key_path" \notin cols
    /\ 4 \in versions => "ssh_host_key" \in cols

\* What a process may rely on at its next statement, whatever the others did since
\* it read the version.
StatementFits(p) ==
    /\ cur[p] \in versions \cup {0}
    /\ phase[p] = "apply schema" => cols \in {{}, Newest}
    /\ phase[p] \in {"v2 add", "v3 look", "v3 look again", "v3 add"} => cols # {}
    /\ phase[p] \in {"list keys", "copy keys"} => "ssh_private_key" \in cols
    /\ phase[p] \in {"v4 look", "v4 add", "record"} => "ssh_key_path" \notin cols /\ cols # {}
    /\ phase[p] = "record" => "ssh_host_key" \in cols
    /\ phase[p] \notin Opening \cup Closed => cols = Newest /\ versions = {1, 2, 3, 4}

SchemaInv == VersionsFit /\ \A p \in Procs : StatementFits(p)

\* The versions there are.
LEMMA OneToFour == 1..4 = {1, 2, 3, 4}
OBVIOUS

\* The columns of each old database are those of its versions.
LEMMA InitSchema == Init => SchemaInv
<1> SUFFICES ASSUME Init PROVE SchemaInv
  OBVIOUS
<1>1. VersionsFit
  BY OneToFour
  DEF Init, MigrationInit, VersionsFit, Layouts, Newest, Fresh, FromV1, FromBadV2, FromV2, FromV3, FromV4
<1>2. ASSUME NEW p \in Procs PROVE StatementFits(p)
  BY DEF Init, MigrationInit, StatementFits, Closed
<1> QED
  BY <1>1, <1>2 DEF SchemaInv

\* The last version recorded is the maximum.
LEMMA CurrentIsLast ==
    ASSUME VersionsFit
    PROVE  /\ Current = 0 <=> versions = {}
           /\ Current = 1 <=> versions = {1}
           /\ Current = 2 <=> versions = {1, 2}
           /\ Current = 3 <=> versions = {1, 2, 3}
           /\ Current \notin {0, 1, 2, 3} <=> versions = {1, 2, 3, 4}
           /\ Current \in versions \cup {0}
<1> DEFINE IsLast(v) == v \in versions \cup {0} /\ \A w \in versions : w <= v
<1>1. ASSUME NEW v \in {0, 1, 2, 3, 4}, IsLast(v) PROVE Current = v
  <2>1. IsLast(Current)
    BY <1>1 DEF Current
  <2> QED
    BY <1>1, <2>1 DEF VersionsFit
<1>2. CASE versions = {}
  <2>1. IsLast(0)
    BY <1>2
  <2> QED
    BY <1>1, <1>2, <2>1
<1>3. CASE versions = {1}
  <2>1. IsLast(1)
    BY <1>3
  <2> QED
    BY <1>1, <1>3, <2>1
<1>4. CASE versions = {1, 2}
  <2>1. IsLast(2)
    BY <1>4
  <2> QED
    BY <1>1, <1>4, <2>1
<1>5. CASE versions = {1, 2, 3}
  <2>1. IsLast(3)
    BY <1>5
  <2> QED
    BY <1>1, <1>5, <2>1
<1>6. CASE versions = {1, 2, 3, 4}
  <2>1. IsLast(4)
    BY <1>6
  <2> QED
    BY <1>1, <1>6, <2>1
<1> QED
  BY <1>2, <1>3, <1>4, <1>5, <1>6 DEF VersionsFit

\* What a process relies on survives the statements of the others.
LEMMA OthersFit ==
    ASSUME VersionsFit, VersionsFit', versions \subseteq versions',
           cols' = cols \/ <<cols, cols'>> \in Upgrades,
           NEW q \in Procs, StatementFits(q), phase'[q] = phase[q], cur'[q] = cur[q]
    PROVE  StatementFits(q)'
<1>1. cur'[q] \in versions' \cup {0}
  BY DEF StatementFits
<1>2. /\ cols # {} => cols' # {}
      /\ "ssh_private_key" \in cols => "ssh_private_key" \in cols'
      /\ "ssh_key_path" \notin cols /\ cols # {} => "ssh_key_path" \notin cols'
      /\ "ssh_host_key" \in cols => "ssh_host_key" \in cols'
      /\ cols \in {{}, Newest} => cols' \in {{}, Newest}
      /\ cols = Newest => cols' = Newest
  BY DEF VersionsFit, Layouts, Upgrades, Newest
<1>3. versions = {1, 2, 3, 4} => versions' = {1, 2, 3, 4}
  BY DEF VersionsFit
<1> QED
  BY <1>1, <1>2, <1>3 DEF StatementFits

\* A process that only looks, closes or fails leaves the schema to the others.
LEMMA SchemaLookStep ==
    ASSUME MigrationInv, SchemaInv, UNCHANGED <<versions, cols>>, NEW p \in Procs,
           \A q \in Procs \ {p} : phase'[q] = phase[q] /\ cur'[q] = cur[q],
           StatementFits(p)'
    PROVE  SchemaInv'
<1>1. VersionsFit'
  BY DEF SchemaInv, VersionsFit
<1> QED
  BY <1>1, OthersFit DEF SchemaInv

\* Where Open goes on, only its own process moves.
LEMMA ContinueMoves ==
    ASSUME MigrationInv, NEW p \in Procs, NEW to, Continue(p, to)
    PROVE  /\ phase'[p] = to
           /\ cur'[p] = IF to \in Opening THEN cur[p] ELSE 0
           /\ \A q \in Procs \ {p} : phase'[q] = phase[q] /\ cur'[q] = cur[q]
BY DEF Continue, Goto, MigrationInv, MigrationTypeOK

\* A closed or a starting process relies on nothing.
LEMMA NothingNeeded ==
    ASSUME MigrationInv, SchemaInv, NEW p \in Procs, NEW to \in Closed \cup {"read version"},
           UNCHANGED versions, Continue(p, to)
    PROVE  StatementFits(p)'
<1>1. phase'[p] = to /\ cur'[p] \in versions \cup {0}
  BY ContinueMoves DEF SchemaInv, StatementFits
<1> QED
  BY <1>1 DEF StatementFits, Closed, Opening

\* Every statement of Open leaves columns that fit the versions, and knows what it found.
LEMMA SchemaMigrateStep ==
    ASSUME MigrationInv, SchemaInv, NEW p \in Procs, Migrate(p)
    PROVE  SchemaInv'
<1> USE DEF Opening, Closed
<1>a. VersionsFit /\ StatementFits(p) /\ \A q \in Procs : StatementFits(q)
  BY DEF SchemaInv
\* A step that changes the schema is an upgrade of it.
<1>b. ASSUME VersionsFit', versions \subseteq versions',
             cols' = cols \/ <<cols, cols'>> \in Upgrades,
             \A q \in Procs \ {p} : phase'[q] = phase[q] /\ cur'[q] = cur[q],
             StatementFits(p)'
      PROVE  SchemaInv'
  BY <1>a, <1>b, OthersFit DEF SchemaInv
<1>1. CASE ReadVersion(p)
  <2>1. /\ UNCHANGED <<versions, cols>>
        /\ \A q \in Procs \ {p} : phase'[q] = phase[q] /\ cur'[q] = cur[q]
    BY <1>1 DEF ReadVersion, Goto, schema, MigrationInv, MigrationTypeOK
  <2> DEFINE to == CASE Current = 0 -> "apply schema" [] Current = 1 -> "v2 add"
                     [] Current = 2 -> "v3 look" [] Current = 3 -> "v4 look" [] OTHER -> "up"
  <2>2. phase'[p] = to /\ cur'[p] = IF to = "up" THEN 0 ELSE Current
    BY <1>1 DEF ReadVersion, Goto, MigrationInv, MigrationTypeOK
  <2>a. /\ Current = 0 => to = "apply schema"
        /\ Current = 1 => to = "v2 add"
        /\ Current = 2 => to = "v3 look"
        /\ Current = 3 => to = "v4 look"
        /\ Current \notin {0, 1, 2, 3} => to = "up"
    OBVIOUS
  <2> HIDE DEF to
  <2>3. StatementFits(p)'
    <3>1. CASE Current = 0
      <4>1. phase'[p] = "apply schema" /\ cur'[p] = 0
        BY <2>2, <2>a, <3>1
      <4> QED
        BY <1>a, <2>1, <3>1, <4>1, CurrentIsLast DEF StatementFits, VersionsFit
    <3>2. CASE Current = 1
      <4>1. phase'[p] = "v2 add" /\ cur'[p] = 1
        BY <2>2, <2>a, <3>2
      <4> QED
        BY <1>a, <2>1, <3>2, <4>1, CurrentIsLast DEF StatementFits, VersionsFit
    <3>3. CASE Current = 2
      <4>1. phase'[p] = "v3 look" /\ cur'[p] = 2
        BY <2>2, <2>a, <3>3
      <4> QED
        BY <1>a, <2>1, <3>3, <4>1, CurrentIsLast DEF StatementFits, VersionsFit
    <3>4. CASE Current = 3
      <4>1. phase'[p] = "v4 look" /\ cur'[p] = 3
        BY <2>2, <2>a, <3>4
      <4> QED
        BY <1>a, <2>1, <3>4, <4>1, CurrentIsLast DEF StatementFits, VersionsFit
    <3>5. CASE Current \notin {0, 1, 2, 3}
      <4>1. phase'[p] = "up" /\ cur'[p] = 0
        BY <2>2, <2>a, <3>5
      <4>2. versions = {1, 2, 3, 4} /\ cols = Newest
        BY <1>a, <3>5, CurrentIsLast DEF VersionsFit, Layouts, Newest
      <4> QED
        BY <2>1, <4>1, <4>2 DEF StatementFits
    <3> QED
      BY <3>1, <3>2, <3>3, <3>4, <3>5
  <2> QED
    BY <2>1, <2>3, SchemaLookStep
<1>2. CASE ApplySchema(p)
  <2>1. cols \in {{}, Newest} /\ cols' = Newest /\ versions' = versions
    BY <1>2, <1>a DEF ApplySchema, StatementFits, Newest
  <2>2. Continue(p, "record")
    BY <1>2 DEF ApplySchema
  <2>3. VersionsFit'
    BY <1>a, <2>1 DEF VersionsFit, Layouts, Newest
  <2>4. phase'[p] = "record" /\ cur'[p] = cur[p]
    BY <2>2, ContinueMoves
  <2>5. StatementFits(p)'
    BY <1>a, <2>1, <2>4 DEF StatementFits, Newest
  <2>6. cols' = cols \/ <<cols, cols'>> \in Upgrades
    BY <2>1 DEF Upgrades
  <2> QED
    BY <1>b, <2>1, <2>2, <2>3, <2>5, <2>6, ContinueMoves
<1>3. CASE \/ AddColumn(p, "v2 add", "ssh_private_key", "list keys")
           \/ AddColumn(p, "v3 add", "ssh_private_key", "list keys")
  <2>1. /\ versions' = versions /\ cols' = cols \cup {"ssh_private_key"} /\ cols # {}
        /\ Continue(p, IF "ssh_private_key" \in cols THEN "down" ELSE "list keys")
    BY <1>3, <1>a DEF AddColumn, StatementFits
  <2>2. CASE "ssh_private_key" \in cols
    <3>1. cols' = cols /\ Continue(p, "down")
      BY <2>1, <2>2
    <3> QED
      BY <2>1, <3>1, NothingNeeded, SchemaLookStep, ContinueMoves
  <2>3. CASE "ssh_private_key" \notin cols
    <3>1. cols = {"ssh_key_path"} /\ cols' = {"ssh_key_path", "ssh_private_key"}
      BY <1>a, <2>1, <2>3 DEF VersionsFit, Layouts, Newest
    <3>2. VersionsFit' /\ <<cols, cols'>> \in Upgrades
      BY <1>a, <2>1, <3>1 DEF VersionsFit, Layouts, Newest, Upgrades
    <3>3. phase'[p] = "list keys" /\ cur'[p] = cur[p]
      BY <2>1, <2>3, ContinueMoves
    <3>4. StatementFits(p)'
      BY <1>a, <2>1, <3>1, <3>3 DEF StatementFits
    <3> QED
      BY <1>b, <2>1, <3>2, <3>4, ContinueMoves
  <2> QED
    BY <2>2, <2>3
<1>4. CASE ListKeys(p)
  <2>1. UNCHANGED <<versions, cols>>
    BY <1>4 DEF ListKeys, schema
  <2>2. CASE "ssh_key_path" \in cols
    <3>1. /\ phase'[p] = "copy keys" /\ cur' = cur
          /\ \A q \in Procs \ {p} : phase'[q] = phase[q]
      BY <1>4, <2>2 DEF ListKeys, MigrationInv
    <3>2. StatementFits(p)'
      BY <1>4, <1>a, <2>1, <3>1 DEF StatementFits, ListKeys
    <3> QED
      BY <2>1, <3>1, <3>2, SchemaLookStep
  <2>3. CASE "ssh_key_path" \notin cols
    <3>1. Continue(p, "down")
      BY <1>4, <2>3 DEF ListKeys
    <3> QED
      BY <2>1, <3>1, NothingNeeded, SchemaLookStep, ContinueMoves
  <2> QED
    BY <2>2, <2>3
<1>5. ASSUME NEW x \in Projects, CopyKey(p, x) PROVE SchemaInv'
  <2>1. UNCHANGED <<versions, cols, phase, cur>>
    BY <1>5 DEF CopyKey
  <2>2. StatementFits(p)'
    BY <1>a, <2>1 DEF StatementFits
  <2> QED
    BY <2>1, <2>2, SchemaLookStep
<1>6. CASE DropPath(p)
  <2>1. /\ versions' = versions /\ cols' = cols \ {"ssh_key_path"} /\ "ssh_private_key" \in cols
        /\ Continue(p, IF "ssh_key_path" \notin cols THEN "down"
                       ELSE IF cur[p] = 1 THEN "v3 look" ELSE "v4 look")
    BY <1>6, <1>a DEF DropPath, KeysCopied, StatementFits
  <2>2. CASE "ssh_key_path" \notin cols
    <3>1. cols' = cols /\ Continue(p, "down")
      BY <2>1, <2>2
    <3> QED
      BY <2>1, <3>1, NothingNeeded, SchemaLookStep, ContinueMoves
  <2>3. CASE "ssh_key_path" \in cols
    <3>1. cols = {"ssh_key_path", "ssh_private_key"} /\ cols' = {"ssh_private_key"}
      BY <1>a, <2>1, <2>3 DEF VersionsFit, Layouts, Newest
    <3>2. VersionsFit' /\ <<cols, cols'>> \in Upgrades
      BY <1>a, <2>1, <3>1 DEF VersionsFit, Layouts, Newest, Upgrades
    <3>3. phase'[p] \in {"v3 look", "v4 look"} /\ cur'[p] = cur[p]
      BY <2>1, <2>3, ContinueMoves
    <3>4. StatementFits(p)'
      BY <1>a, <2>1, <3>1, <3>3 DEF StatementFits
    <3> QED
      BY <1>b, <2>1, <3>2, <3>4, ContinueMoves
  <2> QED
    BY <2>2, <2>3
<1>7. CASE V3Look(p) \/ V3LookAgain(p) \/ V4Look(p)
  <2>1. UNCHANGED <<versions, cols>>
    BY <1>7 DEF V3Look, V3LookAgain, V4Look, Look, schema
  <2>2. PICK to \in {"v3 look again", "v4 look", "list keys", "v3 add", "v4 add", "record"} :
           /\ Continue(p, to)
           /\ cols # {}
           /\ to = "list keys" => "ssh_private_key" \in cols
           /\ to \in {"v4 look", "v4 add", "record"} => "ssh_key_path" \notin cols
           /\ to = "record" => "ssh_host_key" \in cols
    <3>1. CASE V3Look(p)
      BY <1>a, <3>1 DEF V3Look, Look, StatementFits
    <3>2. CASE V3LookAgain(p)
      BY <1>a, <3>2 DEF V3LookAgain, Look, StatementFits
    <3>3. CASE V4Look(p)
      BY <1>a, <3>3 DEF V4Look, Look, StatementFits
    <3> QED
      BY <1>7, <3>1, <3>2, <3>3
  <2>3. phase'[p] = to /\ cur'[p] = cur[p]
    BY <2>2, ContinueMoves
  <2>4. StatementFits(p)'
    BY <1>a, <2>1, <2>2, <2>3 DEF StatementFits
  <2> QED
    BY <2>1, <2>2, <2>4, SchemaLookStep, ContinueMoves
<1>8. CASE AddColumn(p, "v4 add", "ssh_host_key", "record")
  <2>1. /\ versions' = versions /\ cols' = cols \cup {"ssh_host_key"}
        /\ cols # {} /\ "ssh_key_path" \notin cols
        /\ Continue(p, IF "ssh_host_key" \in cols THEN "down" ELSE "record")
    BY <1>8, <1>a DEF AddColumn, StatementFits
  <2>2. CASE "ssh_host_key" \in cols
    <3>1. cols' = cols /\ Continue(p, "down")
      BY <2>1, <2>2
    <3> QED
      BY <2>1, <3>1, NothingNeeded, SchemaLookStep, ContinueMoves
  <2>3. CASE "ssh_host_key" \notin cols
    <3>1. cols = {"ssh_private_key"} /\ cols' = Newest
      BY <1>a, <2>1, <2>3 DEF VersionsFit, Layouts, Newest
    <3>2. VersionsFit' /\ <<cols, cols'>> \in Upgrades
      BY <1>a, <2>1, <3>1 DEF VersionsFit, Layouts, Newest, Upgrades
    <3>3. phase'[p] = "record" /\ cur'[p] = cur[p]
      BY <2>1, <2>3, ContinueMoves
    <3>4. StatementFits(p)'
      BY <1>a, <2>1, <3>1, <3>3 DEF StatementFits, Newest
    <3> QED
      BY <1>b, <2>1, <3>2, <3>4, ContinueMoves
  <2> QED
    BY <2>2, <2>3
<1>9. CASE Record(p)
  <2>1. /\ cols' = cols /\ "ssh_host_key" \in cols /\ cur[p] \in versions \cup {0} /\ cur[p] < 4
        /\ \A q \in Procs \ {p} : phase'[q] = phase[q] /\ cur'[q] = cur[q]
    BY <1>9, <1>a
    DEF Record, StatementFits, Goto, MigrationInv, MigrationTypeOK, VersionsBehind, schemaVersion
  <2>2. PICK v : v = cur[p] + 1
    OBVIOUS
  <2>3. /\ versions' = versions \cup {v}
        /\ phase'[p] = IF v \in versions THEN "down" ELSE IF v = 4 THEN "up" ELSE "record"
        /\ cur'[p] = IF v \notin versions /\ v # 4 THEN v ELSE 0
    BY <1>9, <2>2 DEF Record, Goto, MigrationInv, MigrationTypeOK, schemaVersion
  <2>4. cols = Newest
    BY <1>a, <2>1 DEF VersionsFit, Layouts, Newest
  <2>5. VersionsFit'
    <3>1. versions' \in {{}, {1}, {1, 2}, {1, 2, 3}, {1, 2, 3, 4}}
      BY <1>a, <2>1, <2>2, <2>3 DEF VersionsFit
    <3> QED
      BY <1>a, <2>1, <2>4, <3>1 DEF VersionsFit, Newest
  <2>6. v = 4 => versions' = {1, 2, 3, 4}
    BY <1>a, <2>1, <2>2, <2>3 DEF VersionsFit
  <2>7. StatementFits(p)'
    <3>1. cur'[p] \in versions' \cup {0}
      BY <2>3
    <3>2. phase'[p] \in {"down", "up", "record"} /\ (phase'[p] = "up" => v = 4)
      BY <2>3
    <3> QED
      BY <2>1, <2>4, <2>6, <3>1, <3>2 DEF StatementFits, Newest
  <2> QED
    BY <1>b, <2>1, <2>3, <2>5, <2>7
<1> QED
  BY <1>1, <1>2, <1>3, <1>4, <1>5, <1>6, <1>7, <1>8, <1>9 DEF Migrate

\* The server's own steps keep it among the phases that need the newest schema, or end it.
LEMMA SchemaServerStep ==
    ASSUME MigrationInv, SchemaInv, NEW p \in Procs, NEW to, Goto(p, to), UNCHANGED <<schema, cur>>,
           phase[p] \notin Opening \cup Closed, to \notin Opening
    PROVE  SchemaInv'
<1>1. phase'[p] = to /\ \A q \in Procs \ {p} : phase'[q] = phase[q]
  BY DEF Goto, MigrationInv
<1>2. UNCHANGED <<versions, cols, cur>>
  BY DEF schema
<1>3. StatementFits(p)'
  BY <1>1, <1>2 DEF SchemaInv, StatementFits, Opening
<1> QED
  BY <1>1, <1>2, <1>3, SchemaLookStep

\* No other step touches the columns, so every step keeps that.
LEMMA NextSchema ==
    ASSUME IInv, SchemaInv, [Next]_vars
    PROVE  SchemaInv'
<1> USE DEF Opening, Closed
<1>a. MigrationInv /\ SessionInv
  BY TwoParts
<1>b. Server \in Procs
  BY ServiceAssumption
<1>1. ASSUME NEW p \in Procs, Runs(p) PROVE SchemaInv'
  <2>1. CASE Open(p, "down")
    BY <1>a, <2>1, NothingNeeded, SchemaLookStep, ContinueMoves DEF Open, Look, schema
  <2> QED
    BY <1>1, <1>a, <2>1, SchemaMigrateStep DEF Runs
<1>2. ASSUME NEW p \in Procs, CommandEnds(p) PROVE SchemaInv'
  BY <1>2, <1>a, SchemaServerStep DEF CommandEnds
<1>3. ASSUME NEW p \in Procs, GiveUp(p) PROVE SchemaInv'
  BY <1>3, <1>a, NothingNeeded, SchemaLookStep, ContinueMoves DEF GiveUp, schema
<1>4. CASE Open(Server, "stopped")
  BY <1>4, <1>a, <1>b, NothingNeeded, SchemaLookStep, ContinueMoves DEF Open, Look, schema
<1>5. CASE UNCHANGED migrationVars
  BY <1>5 DEF migrationVars, schema, SchemaInv, VersionsFit, StatementFits
<1>6. CASE Listen \/ ListenFails \/ Signal \/ DrainTimeout
  <2>1. PICK from \in {"up", "listening", "deaf", "draining"}, to \in {"listening", "deaf", "down", "draining", "overdue"} :
          phase[Server] = from /\ Goto(Server, to) /\ UNCHANGED <<schema, cur>>
    BY <1>6 DEF Listen, ListenFails, Signal, DrainTimeout, Move
  <2> QED
    BY <1>a, <1>b, <2>1, SchemaServerStep
<1>7. CASE Close \/ Crash
  <2>1. PICK to \in {"stopped", "down"} : Goto(Server, to) /\ UNCHANGED <<schema, cur>>
    BY <1>7 DEF Close, Crash, Ends
  <2>2. phase[Server] \in {"up", "listening", "deaf", "draining", "overdue"}
    BY <1>7 DEF Close, Crash, MayClose
  <2> QED
    BY <1>a, <1>b, <2>1, <2>2, SchemaServerStep
<1> QED
  BY <1>1, <1>2, <1>3, <1>4, <1>5, <1>6, <1>7
  DEF Next, vars, Send, Serve, Authenticate, Login, Logout, Call, Tick

\* Whichever version the database came from and however many processes migrate it at
\* once, are killed or fail, one that has it open finds the newest columns and versions.
THEOREM SchemaIsComplete == Spec => []SchemaComplete
<1>1. IInv /\ SchemaInv /\ [Next]_vars => SchemaInv'
  BY NextSchema
<1>2. SchemaInv => SchemaComplete
  BY OneToFour DEF SchemaInv, StatementFits, SchemaComplete, Newest, schemaVersion
<1> QED
  BY ServiceInvariant, InitSchema, <1>1, <1>2, PTL DEF Spec

=============================================================================
