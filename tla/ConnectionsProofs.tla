-------------------------- MODULE ConnectionsProofs -------------------------
(***************************************************************************)
(* The safety of Connections for every set of hosts, keys, rows and        *)
(* requests: which keys the program talks to, when it may answer "key      *)
(* mismatch", what a saved pin stands for, and which columns a request     *)
(* changes.                                                                *)
(***************************************************************************)
EXTENDS Connections, FiniteSetTheorems, TLAPS

-----------------------------------------------------------------------------
(* What holds of a request in flight.                                        *)

StagesOf(op) ==
    CASE op = "patch" -> {"write"}
      [] op = "test" -> {"scan", "login", "path", "write"}
      [] op = "draft" -> {"scan", "login", "path"}
      [] op = "browse" -> {"scan", "path", "list"}
      [] op = "run" -> {"login"}

StageFits(q) == q.stage \in StagesOf(q.op) \cup {"answered"}

\* A row that is worked on has no blank column.
CopyIsValid(q) == q.stage # "answered" \/ q.answer = "key mismatch" => Valid(q.copy)

\* Past the scan a request trusts one key, that of the pin if there is one; a run
\* has nothing but the pin.
KeyFits(q) ==
    /\ q.stage \in {"login", "path", "list", "write"} /\ q.op \in {"test", "draft", "browse"} =>
         q.key \in SshKeys /\ q.copy.pin \in {Null, q.key}
    /\ q.stage = "login" /\ q.op = "run" => q.key = q.copy.pin

IsVerified(k) == \E v \in verified : v.key = k

\* Nobody invents a pin.
PinIsVerified(r) == r.pin # Null => IsVerified(r.pin)

\* What a test is about to write, it got through to, and there was no pin.
Connection(q) ==
    [host |-> q.copy.host, account |-> q.copy.account, path |-> q.copy.path, key |-> q.key]

WritesWhatItTested(q) ==
    q.op = "test" /\ q.stage = "write" => q.copy.pin = Null /\ Connection(q) \in verified

MetTrusted(q) ==
    \A k \in q.met :
        /\ q.copy.pin \in {Null, k}
        /\ q.op = "run" => IsVerified(k) \/ <<q.copy.host, k>> \in KnownHosts

\* The key that was offered in place of the pinned one is still there, unless the
\* host has replaced a key since.
OtherKeyOffered(q) ==
    q.answer = "key mismatch" =>
        /\ q.copy.pin # Null
        /\ q.copy.host \in rotated \/ \E k \in hostKeys[q.copy.host] \cap SshKeys : k # q.copy.pin

\* A writer that nobody overtook holds the present row with its own edit.
CopyIsCurrent(q) ==
    q.op \in {"patch", "test"} /\ q.stage # "answered" /\ ~q.late =>
        row # Null /\ q.copy = Apply(q.edit, row)

RequestOK(q) ==
    /\ q \in Request
    /\ StageFits(q) /\ CopyIsValid(q) /\ KeyFits(q)
    /\ PinIsVerified(q.copy) /\ WritesWhatItTested(q)
    /\ MetTrusted(q) /\ OtherKeyOffered(q) /\ CopyIsCurrent(q)

\* A verified key was an ssh- key of its host, and still is until the host rotates.
VerifiedKeysOffered ==
    \A v \in verified : v.key \in SshKeys /\ (v.host \in rotated \/ v.key \in hostKeys[v.host])

IInv ==
    /\ TypeOK
    /\ \A c \in Clients : req[c] # Null => RequestOK(req[c])
    /\ row # Null => PinIsVerified(row)
    /\ VerifiedKeysOffered

\* With no request in flight the invariant holds.
LEMMA InitIInv == Init => IInv
BY ConnectionsAssumption
DEF Init, IInv, TypeOK, VerifiedKeysOffered

-----------------------------------------------------------------------------
(* Rows and requests.                                                        *)

\* An empty body changes no column.
LEMMA NoEdit ==
    ASSUME NEW r \in Row
    PROVE  Apply(<<>>, r) = r
BY DEF Row, Apply

\* A body says nothing of the pin.
LEMMA ApplyRow ==
    ASSUME NEW e \in Edits \cup {<<>>}, NEW r \in Row
    PROVE  Apply(e, r) \in Row /\ Apply(e, r).pin = r.pin
<1>1. CASE e = <<>>
  BY <1>1, NoEdit
<1>2. CASE e \in Edits
  <2>1. Apply(e, r) \in Row /\ "pin" \notin DOMAIN e
    BY <1>2, ConnectionsAssumption
  <2> QED
    BY <2>1 DEF Apply, Row
<1> QED
  BY <1>1, <1>2

\* A valid row is a row without blank columns.
LEMMA ValidRows ==
    ASSUME NEW r
    PROVE  r \in ValidRow <=> r \in Row /\ Valid(r)
BY DEF ValidRow, Valid

\* What is left of a request that failed needs no proof.
LEMMA FailureOK ==
    ASSUME NEW op \in Operation, NEW a \in Answers \ {"key mismatch"}
    PROVE  RequestOK(Failure(op, a))
<1>1. Unsaved \in Row
  BY DEF Unsaved, Row
<1>2. Failure(op, a) \in Request
  BY <1>1 DEF Failure, Request, Stage
<1> QED
  BY <1>2
  DEF RequestOK, Failure, Unsaved, StageFits, CopyIsValid, KeyFits, PinIsVerified,
      WritesWhatItTested, MetTrusted, OtherKeyOffered, CopyIsCurrent

\* As long as the row stays, keys are verified and hosts rotate, nothing that holds of a
\* request is lost.
LEMMA RequestStays ==
    ASSUME NEW q, RequestOK(q), UNCHANGED row,
           verified \subseteq verified', rotated \subseteq rotated',
           \A h \in Hosts \ rotated' : hostKeys'[h] = hostKeys[h]
    PROVE  RequestOK(q)'
<1>1. \A k : IsVerified(k) => IsVerified(k)'
  BY DEF IsVerified
<1>2. PinIsVerified(q.copy)' /\ WritesWhatItTested(q)' /\ MetTrusted(q)' /\ CopyIsCurrent(q)'
  BY <1>1 DEF RequestOK, PinIsVerified, WritesWhatItTested, MetTrusted, CopyIsCurrent, Connection
<1>3. OtherKeyOffered(q)'
  <2>1. q.answer = "key mismatch" => q.copy.host \in Hosts
    BY DEF RequestOK, CopyIsValid, Valid, Request, Row
  <2> QED
    BY <2>1 DEF RequestOK, OtherKeyOffered
<1> QED
  BY <1>2, <1>3 DEF RequestOK, StageFits, CopyIsValid, KeyFits

\* A step of one request that leaves everything else alone.
LEMMA ContinueStep ==
    ASSUME IInv, NEW c \in Clients, NEW q, q = Null \/ RequestOK(q),
           req' = [req EXCEPT ![c] = q], UNCHANGED <<row, hostKeys, verified, rotated>>
    PROVE  IInv'
<1>1. TypeOK'
  BY DEF IInv, TypeOK, RequestOK
<1>2. ASSUME NEW d \in Clients, req'[d] # Null PROVE RequestOK(req[d])'
  <2>1. PICK r : r = req'[d] /\ RequestOK(r)
    BY <1>2 DEF IInv, TypeOK
  <2>2. RequestOK(r)'
    BY <2>1, RequestStays
  <2> QED
    BY <2>1, <2>2 DEF RequestOK
<1>3. (row # Null => PinIsVerified(row))' /\ VerifiedKeysOffered'
  BY DEF IInv, PinIsVerified, IsVerified, VerifiedKeysOffered
<1> QED
  BY <1>1, <1>2, <1>3 DEF IInv

-----------------------------------------------------------------------------
(* The steps.                                                                *)

\* An answer of failure, other than "key mismatch", needs nothing to be known.
LEMMA FailStep ==
    ASSUME IInv, NEW c \in Clients, req[c] # Null, NEW a \in Answers \ {"key mismatch"}, Fail(c, a)
    PROVE  IInv'
<1>1. req[c].op \in Operation
  BY DEF IInv, RequestOK, Request
<1>2. RequestOK(Failure(req[c].op, a))
  BY <1>1, FailureOK
<1> QED
  BY <1>2, ContinueStep DEF Fail, Continue

\* Where a request of each operation starts: a browser of a pinned project has its key.
StartsAt(op, stage, r) ==
    \/ stage = "write" /\ op = "patch"
    \/ stage = "scan" /\ op \in {"test", "draft", "browse"}
    \/ stage = "path" /\ op = "browse" /\ r.pin # Null
    \/ stage = "login" /\ op = "run"

\* A handler that starts at its first stage fits the invariant, with the row it copied.
LEMMA BeginStep ==
    ASSUME IInv, NEW c \in Clients, NEW op \in Operation, NEW e \in Edits \cup {<<>>},
           NEW r \in Row, NEW stage \in Stage, PinIsVerified(r), StartsAt(op, stage, r),
           op \in {"patch", "test"} => r = row /\ row # Null,
           Begin(c, op, e, r, stage)
    PROVE  IInv'
<1> DEFINE copy == Apply(e, r)
           q == [op |-> op, stage |-> stage, copy |-> copy, edit |-> e, key |-> copy.pin,
                 met |-> {}, answer |-> Null, late |-> FALSE]
<1>1. copy \in Row /\ copy.pin = r.pin
  BY ApplyRow
<1>2. copy.pin \in Keys \cup {Null}
  BY <1>1 DEF Row
<1>3. ASSUME Valid(copy) PROVE RequestOK(q)
  <2> HIDE DEF copy
  <2>1. q \in Request
    BY <1>1, <1>2 DEF Request
  <2>2. StageFits(q)
    BY DEF StartsAt, StageFits, StagesOf
  <2>3. CopyIsValid(q)
    BY <1>3 DEF CopyIsValid
  <2>4. copy.pin # Null => copy.pin \in SshKeys
    BY <1>1 DEF IInv, PinIsVerified, IsVerified, VerifiedKeysOffered
  <2>5. KeyFits(q)
    BY <2>4, <1>1, <1>2 DEF KeyFits, StartsAt
  <2>6. PinIsVerified(q.copy)
    BY <1>1 DEF PinIsVerified
  <2>7. WritesWhatItTested(q) /\ MetTrusted(q)
    BY DEF WritesWhatItTested, MetTrusted, StartsAt
  <2>8. OtherKeyOffered(q)
    BY ConnectionsAssumption DEF OtherKeyOffered, Answers
  <2>9. CopyIsCurrent(q)
    BY DEF CopyIsCurrent, copy
  <2> QED
    BY <2>1, <2>2, <2>3, <2>5, <2>6, <2>7, <2>8, <2>9 DEF RequestOK
<1>4. RequestOK(Failure(op, "bad request"))
  BY FailureOK DEF Answers
<1>5. PICK x : x = (IF Valid(copy) THEN q ELSE Failure(op, "bad request")) /\ Continue(c, x)
  BY DEF Begin
<1>6. RequestOK(x)
  <2> HIDE DEF q, copy
  <2> QED
    BY <1>3, <1>4, <1>5
<1> QED
  BY <1>5, <1>6, ContinueStep DEF Continue

\* Every handler starts so: a PATCH, a test, a draft, a browse and a run.
LEMMA StartStep ==
    ASSUME IInv, NEW c \in Clients, Start(c)
    PROVE  IInv'
<1>1. row # Null => row \in Row /\ PinIsVerified(row)
  BY DEF IInv, TypeOK, ValidRow
<1>2. \A r \in Forms : r \in Row /\ PinIsVerified(r)
  BY ConnectionsAssumption DEF PinIsVerified, ValidRow
<1>3. ConnectionEdits \subseteq Edits \cup {<<>>}
  BY DEF ConnectionEdits
<1>4. CASE BeginPatch(c)
  <2>1. PICK e \in Edits : row # Null /\ Begin(c, "patch", e, row, "write")
    BY <1>4 DEF BeginPatch
  <2> QED
    BY <1>1, <2>1, BeginStep DEF StartsAt, Operation, Stage
<1>5. CASE BeginTest(c)
  <2>1. PICK e \in ConnectionEdits : row # Null /\ Begin(c, "test", e, row, "scan")
    BY <1>5 DEF BeginTest
  <2> QED
    BY <1>1, <1>3, <2>1, BeginStep DEF StartsAt, Operation, Stage
<1>6. CASE BeginDraft(c)
  <2>1. PICK r \in Forms, op \in {"draft", "browse"} : Begin(c, op, <<>>, r, "scan")
    BY <1>6 DEF BeginDraft
  <2> QED
    BY <1>2, <2>1, BeginStep DEF StartsAt, Operation, Stage
<1>7. CASE BeginBrowse(c)
  <2>1. PICK e \in ConnectionEdits :
          row # Null /\ Begin(c, "browse", e, row, IF row.pin = Null THEN "scan" ELSE "path")
    BY <1>7 DEF BeginBrowse
  <2>2. CASE row.pin = Null
    BY <1>1, <1>3, <2>1, <2>2, BeginStep DEF StartsAt, Operation, Stage
  <2>3. CASE row.pin # Null
    BY <1>1, <1>3, <2>1, <2>3, BeginStep DEF StartsAt, Operation, Stage
  <2> QED
    BY <2>2, <2>3
<1>8. CASE BeginRun(c)
  <2>1. row # Null /\ Begin(c, "run", <<>>, row, "login")
    BY <1>8 DEF BeginRun
  <2> QED
    BY <1>1, <2>1, BeginStep DEF StartsAt, Operation, Stage
<1>9. CASE Missing(c)
  <2>1. PICK op \in {"patch", "test", "browse"} : Continue(c, Failure(op, "missing"))
    BY <1>9 DEF Missing
  <2>2. RequestOK(Failure(op, "missing"))
    BY FailureOK DEF Operation, Answers
  <2> QED
    BY <2>1, <2>2, ContinueStep DEF Continue
<1> QED
  BY <1>4, <1>5, <1>6, <1>7, <1>8, <1>9 DEF Start

\* ssh-keyscan: the key that goes on is offered by the host, and the pin if there is one.
LEMMA ScanStep ==
    ASSUME IInv, NEW c \in Clients, Scan(c)
    PROVE  IInv'
<1> DEFINE q == req[c]
<1>1. q # Null /\ q.stage = "scan" /\ RequestOK(q)
  BY DEF Scan, IInv
<1>2. q \in Request /\ q.op \in {"test", "draft", "browse"} /\ Valid(q.copy)
  BY <1>1 DEF RequestOK, StageFits, StagesOf, CopyIsValid, Request, Operation
<1>3. CASE Fail(c, "unreachable")
  BY <1>1, <1>3, FailStep DEF Answers
<1>4. ASSUME NEW k \in KeysOffered(q.copy.host), q.copy.pin \in {Null, k},
             Continue(c, [q EXCEPT !.key = k, !.stage = IF q.op = "browse" THEN "path" ELSE "login"])
      PROVE  IInv'
  <2> DEFINE n == [q EXCEPT !.key = k, !.stage = IF q.op = "browse" THEN "path" ELSE "login"]
  <2>1. k \in Keys /\ k \in SshKeys
    BY ConnectionsAssumption DEF KeysOffered
  <2>2. n \in Request
    BY <1>2, <2>1 DEF Request, Stage
  <2>3. StageFits(n) /\ CopyIsValid(n) /\ KeyFits(n)
    BY <1>2, <1>4, <2>1 DEF Request, StageFits, StagesOf, CopyIsValid, KeyFits
  <2>4. PinIsVerified(n.copy) /\ WritesWhatItTested(n) /\ MetTrusted(n) /\ OtherKeyOffered(n)
    BY <1>1, <1>2
    DEF RequestOK, Request, PinIsVerified, WritesWhatItTested, MetTrusted, OtherKeyOffered
  <2>5. CopyIsCurrent(n)
    BY <1>1, <1>2 DEF RequestOK, Request, CopyIsCurrent
  <2>6. RequestOK(n)
    BY <2>2, <2>3, <2>4, <2>5 DEF RequestOK
  <2> QED
    BY <1>4, <2>6, ContinueStep DEF Continue
<1>5. ASSUME NEW k \in KeysOffered(q.copy.host), q.copy.pin \notin {Null, k},
             Continue(c, Answered(q, "key mismatch"))
      PROVE  IInv'
  <2> DEFINE n == Answered(q, "key mismatch")
  <2>1. n \in Request /\ n.copy = q.copy /\ n.met = q.met /\ n.op = q.op /\ n.stage = "answered"
    BY <1>2 DEF Request, Answered, Stage, Answers
  <2>2. StageFits(n) /\ CopyIsValid(n) /\ KeyFits(n) /\ WritesWhatItTested(n) /\ CopyIsCurrent(n)
    BY <1>2, <2>1 DEF StageFits, CopyIsValid, KeyFits, WritesWhatItTested, CopyIsCurrent
  <2>3. PinIsVerified(n.copy) /\ MetTrusted(n)
    BY <1>1, <2>1 DEF RequestOK, MetTrusted
  <2>4. OtherKeyOffered(n)
    BY <1>5, <2>1 DEF OtherKeyOffered, KeysOffered
  <2>5. RequestOK(n)
    BY <2>1, <2>2, <2>3, <2>4 DEF RequestOK
  <2> QED
    BY <1>5, <2>5, ContinueStep DEF Continue
<1> QED
  BY <1>3, <1>4, <1>5 DEF Scan

\* A session is had with a trusted server only.
LEMMA SessionMeets ==
    ASSUME NEW q, RequestOK(q), q.stage \in {"login", "path", "list"}, NEW k, Session(q, k)
    PROVE  /\ k \in Keys
           /\ Met(q, k) \in Request
           /\ q.op # "run" => k = q.key
           /\ MetTrusted(Met(q, k))
<1>1. q \in Request /\ q.op \in Operation
  BY DEF RequestOK, Request
<1>2. k \in Trusted(q) /\ k \in Keys
  BY <1>1 DEF Session, Trusted, Request
<1>3. Met(q, k) \in Request
  BY <1>1, <1>2 DEF Met, Request
<1>4. q.op # "run" => q.key # Null /\ k = q.key /\ q.copy.pin \in {Null, k}
  <2>1. q.op # "run" => q.op \in {"test", "draft", "browse"}
    BY <1>1 DEF RequestOK, StageFits, StagesOf, Operation
  <2>2. q.op # "run" => q.key \in SshKeys /\ q.copy.pin \in {Null, q.key}
    BY <2>1 DEF RequestOK, KeyFits
  <2> QED
    BY <2>2, <1>2, ConnectionsAssumption DEF Trusted
<1>5. q.op = "run" => /\ q.copy.pin \in {Null, k}
                      /\ IsVerified(k) \/ <<q.copy.host, k>> \in KnownHosts
  <2>1. q.op = "run" => q.key = q.copy.pin
    BY DEF RequestOK, KeyFits, StageFits, StagesOf
  <2>2. q.op = "run" /\ q.key # Null => k = q.copy.pin /\ IsVerified(k)
    BY <1>2, <2>1 DEF RequestOK, PinIsVerified, Trusted
  <2>3. q.op = "run" /\ q.key = Null => q.copy.pin = Null /\ <<q.copy.host, k>> \in KnownHosts
    BY <1>2, <2>1 DEF Trusted
  <2> QED
    BY <2>2, <2>3
<1>6. MetTrusted(Met(q, k))
  <2>1. /\ Met(q, k).met = q.met \cup {k} /\ Met(q, k).copy = q.copy /\ Met(q, k).op = q.op
    BY <1>1 DEF Met, Request
  <2> QED
    BY <1>4, <1>5, <2>1 DEF RequestOK, MetTrusted
<1> QED
  BY <1>2, <1>3, <1>4, <1>6

\* A request that goes on after a session, and is not about to write.
LEMMA SessionStep ==
    ASSUME IInv, NEW c \in Clients, req[c] # Null, NEW k, Session(req[c], k),
           req[c].stage \in {"login", "path", "list"},
           NEW stage \in {"path", "list"}, stage \in StagesOf(req[c].op),
           Continue(c, [Met(req[c], k) EXCEPT !.stage = stage])
    PROVE  IInv'
<1> DEFINE q == req[c]
           n == [Met(q, k) EXCEPT !.stage = stage]
<1>1. RequestOK(q) /\ q \in Request
  BY DEF IInv, RequestOK
<1>2. Met(q, k) \in Request /\ MetTrusted(Met(q, k))
  BY <1>1, SessionMeets
<1>3. /\ n.op = q.op /\ n.copy = q.copy /\ n.key = q.key /\ n.edit = q.edit /\ n.late = q.late
      /\ n.answer = q.answer /\ n.stage = stage /\ n.met = Met(q, k).met
      /\ Met(q, k).op = q.op /\ Met(q, k).copy = q.copy
  BY <1>1, <1>2 DEF Met, Request
<1>4. n \in Request
  BY <1>2 DEF Request, Stage
<1>5. StageFits(n) /\ CopyIsValid(n) /\ WritesWhatItTested(n)
  BY <1>1, <1>3 DEF RequestOK, StageFits, CopyIsValid, WritesWhatItTested
<1>6. KeyFits(n)
  <2>1. q.op \in {"test", "draft", "browse"} => n.key \in SshKeys /\ n.copy.pin \in {Null, n.key}
    BY <1>1, <1>3 DEF RequestOK, KeyFits
  <2> QED
    BY <2>1, <1>3 DEF KeyFits
<1>7. PinIsVerified(n.copy) /\ MetTrusted(n) /\ OtherKeyOffered(n) /\ CopyIsCurrent(n)
  <2> HIDE DEF n
  <2>1. PinIsVerified(n.copy) /\ OtherKeyOffered(n)
    BY <1>1, <1>3 DEF RequestOK, OtherKeyOffered
  <2>2. MetTrusted(n)
    BY <1>2, <1>3 DEF MetTrusted
  <2>3. CopyIsCurrent(n)
    BY <1>1, <1>3 DEF RequestOK, CopyIsCurrent
  <2> QED
    BY <2>1, <2>2, <2>3
<1>8. RequestOK(n)
  BY <1>4, <1>5, <1>6, <1>7 DEF RequestOK
<1> QED
  BY <1>8, ContinueStep DEF Continue

\* A request that ends with its last session.
LEMMA LastSessionOK ==
    ASSUME NEW q, RequestOK(q), q.stage \in {"login", "path", "list"}, NEW k, Session(q, k)
    PROVE  RequestOK(Answered(Met(q, k), "ok"))
<1> DEFINE n == Answered(Met(q, k), "ok")
<1>1. q \in Request /\ Met(q, k) \in Request /\ MetTrusted(Met(q, k))
  BY SessionMeets DEF RequestOK
<1>2. /\ n.op = q.op /\ n.copy = q.copy /\ n.met = Met(q, k).met
      /\ n.answer = "ok" /\ n.stage = "answered"
      /\ Met(q, k).op = q.op /\ Met(q, k).copy = q.copy
  BY <1>1 DEF Met, Answered, Request
<1>3. n \in Request
  BY <1>1 DEF Answered, Request, Stage, Answers
<1> QED
  BY <1>1, <1>2, <1>3
  DEF RequestOK, StageFits, CopyIsValid, KeyFits, WritesWhatItTested, MetTrusted, OtherKeyOffered,
      CopyIsCurrent

\* A session is with the host and key that the request trusts; a test records it.
LEMMA LoginStep ==
    ASSUME IInv, NEW c \in Clients, Login(c)
    PROVE  IInv'
<1> DEFINE q == req[c]
<1>1. q # Null /\ q.stage = "login" /\ RequestOK(q)
  BY DEF Login, IInv
<1>2. q.op \in {"test", "draft", "run"}
  BY <1>1 DEF RequestOK, Request, Operation, StageFits, StagesOf
<1>3. CASE Fail(c, IF q.op = "run" THEN "failed" ELSE "auth failed")
  BY <1>1, <1>3, FailStep DEF Answers
<1>4. ASSUME NEW k \in Keys, Session(q, k),
             Continue(c, IF q.op = "run" THEN Answered(Met(q, k), "ok")
                                           ELSE [Met(q, k) EXCEPT !.stage = "path"])
      PROVE  IInv'
  <2>1. CASE q.op = "run"
    <3>1. RequestOK(Answered(Met(q, k), "ok"))
      BY <1>1, <1>4, LastSessionOK
    <3> QED
      BY <1>4, <2>1, <3>1, ContinueStep DEF Continue
  <2>2. CASE q.op # "run"
    <3>1. "path" \in StagesOf(q.op)
      BY <1>2, <2>2 DEF StagesOf
    <3> QED
      BY <1>1, <1>4, <2>2, <3>1, SessionStep
  <2> QED
    BY <2>1, <2>2
<1> QED
  BY <1>3, <1>4 DEF Login

\* Looking for the path and listing it take the trusted key along.
LEMMA BrowseStep ==
    ASSUME IInv, NEW c \in Clients, ResolvePath(c) \/ ListChildNames(c)
    PROVE  IInv'
<1> DEFINE q == req[c]
<1>1. q # Null /\ q.stage \in {"path", "list"} /\ RequestOK(q)
  BY DEF ResolvePath, ListChildNames, IInv
<1>2. ASSUME NEW a \in {"auth failed", "path not found"}, Fail(c, a)
      PROVE  IInv'
  BY <1>1, <1>2, FailStep DEF Answers
<1>3. ASSUME q.op = "browse", Session(q, q.key), Continue(c, [Met(q, q.key) EXCEPT !.stage = "list"])
      PROVE  IInv'
  <2>1. "list" \in StagesOf(q.op)
    BY <1>3 DEF StagesOf
  <2> QED
    BY <1>1, <1>3, <2>1, SessionStep
<1>4. ASSUME Session(q, q.key), Continue(c, Answered(Met(q, q.key), "ok"))
      PROVE  IInv'
  <2>1. RequestOK(Answered(Met(q, q.key), "ok"))
    BY <1>1, <1>4, LastSessionOK
  <2> QED
    BY <1>4, <2>1, ContinueStep DEF Continue
<1> QED
  BY <1>2, <1>3, <1>4 DEF ResolvePath, ListChildNames

\* The last step of a test: the connection is verified, and a first test goes on to write it.
LEMMA VerifyPathStep ==
    ASSUME IInv, NEW c \in Clients, VerifyPath(c)
    PROVE  IInv'
<1> DEFINE q == req[c]
           k == q.key
           v == [host |-> q.copy.host, account |-> q.copy.account, path |-> q.copy.path, key |-> k]
<1>1. q # Null /\ q.stage = "path" /\ q.op \in {"test", "draft"} /\ RequestOK(q)
  BY DEF VerifyPath, IInv
<1>2. CASE \E a \in {"auth failed", "path not found", "failed"} : Fail(c, a)
  BY <1>1, <1>2, FailStep DEF Answers
<1>3. ASSUME Session(q, k),
             req' = [req EXCEPT ![c] =
                       IF q.op = "test" /\ q.copy.pin = Null
                       THEN [Met(q, k) EXCEPT !.stage = "write"]
                       ELSE Answered(Met(q, k), "ok")],
             verified' = verified \cup (IF q.op = "draft" THEN {} ELSE {v}),
             UNCHANGED <<row, hostKeys, rotated>>
      PROVE  IInv'
  <2>1. q \in Request /\ Valid(q.copy) /\ q.copy \in Row
    BY <1>1 DEF RequestOK, CopyIsValid, Request
  <2>2. k \in SshKeys /\ k \in hostKeys[q.copy.host] /\ k \in Keys
    BY <1>1, <1>3, ConnectionsAssumption DEF RequestOK, KeyFits, Session
  <2>3. v \in [host : Hosts, account : Accounts, path : Paths, key : Keys]
    BY <2>1, <2>2 DEF Valid, Row
  <2>4. Met(q, k) \in Request /\ MetTrusted(Met(q, k))
    BY <1>1, <1>3, SessionMeets
  <2>5. PICK n : req' = [req EXCEPT ![c] = n] /\
                 n = (IF q.op = "test" /\ q.copy.pin = Null
                      THEN [Met(q, k) EXCEPT !.stage = "write"] ELSE Answered(Met(q, k), "ok"))
    BY <1>3
  <2>6. RequestOK(n)'
    <3>1. CASE ~(q.op = "test" /\ q.copy.pin = Null)
      <4>1. n = Answered(Met(q, k), "ok")
        BY <2>5, <3>1
      <4>2. RequestOK(n)
        BY <1>1, <1>3, <4>1, LastSessionOK
      <4> QED
        BY <1>3, <4>2, RequestStays
    <3>2. CASE q.op = "test" /\ q.copy.pin = Null
      <4>1. /\ n.op = "test" /\ n.copy = q.copy /\ n.key = k /\ n.edit = q.edit /\ n.late = q.late
            /\ n.answer = q.answer /\ n.stage = "write" /\ n.met = Met(q, k).met
            /\ Met(q, k).op = q.op /\ Met(q, k).copy = q.copy /\ n \in Request
        BY <2>1, <2>4, <2>5, <3>2 DEF Met, Request, Stage
      <4>2. StageFits(n) /\ CopyIsValid(n) /\ KeyFits(n)
        BY <2>1, <2>2, <3>2, <4>1 DEF StageFits, StagesOf, CopyIsValid, KeyFits
      <4>3. WritesWhatItTested(n)'
        BY <1>3, <3>2, <4>1 DEF WritesWhatItTested, Connection
      <4>4. PinIsVerified(n.copy)' /\ MetTrusted(n)'
        BY <2>4, <3>2, <4>1 DEF MetTrusted, PinIsVerified
      <4>5. OtherKeyOffered(n)' /\ CopyIsCurrent(n)'
        BY <1>1, <1>3, <3>2, <4>1 DEF RequestOK, OtherKeyOffered, CopyIsCurrent
      <4> QED
        BY <4>1, <4>2, <4>3, <4>4, <4>5 DEF RequestOK, StageFits, CopyIsValid, KeyFits
    <3> QED
      BY <3>1, <3>2
  <2>7. TypeOK'
    <3>1. n \in Request
      BY <2>6 DEF RequestOK
    <3> QED
      BY <1>3, <2>3, <2>5, <3>1 DEF IInv, TypeOK
  <2>8. ASSUME NEW d \in Clients, req'[d] # Null PROVE RequestOK(req[d])'
    <3>1. CASE d = c
      <4>1. req'[d] = n
        BY <2>5, <3>1 DEF IInv, TypeOK
      <4> QED
        BY <2>6, <4>1 DEF RequestOK
    <3>2. CASE d # c
      <4>1. PICK r : r = req'[d] /\ RequestOK(r)
        BY <2>5, <2>8, <3>2 DEF IInv, TypeOK
      <4>2. RequestOK(r)'
        BY <1>3, <4>1, RequestStays
      <4> QED
        BY <4>1, <4>2 DEF RequestOK
    <3> QED
      BY <3>1, <3>2
  <2>9. (row # Null => PinIsVerified(row))'
    BY <1>3 DEF IInv, PinIsVerified, IsVerified
  <2>10. VerifiedKeysOffered'
    BY <1>3, <2>2 DEF IInv, VerifiedKeysOffered
  <2> QED
    BY <2>7, <2>8, <2>9, <2>10 DEF IInv
<1> QED
  BY <1>2, <1>3 DEF VerifyPath

\* A request whose copy is old, or is not written, loses nothing when the row is written.
LEMMA RequestOvertaken ==
    ASSUME NEW q, RequestOK(q), UNCHANGED <<hostKeys, verified, rotated>>,
           q.op \in {"patch", "test"} /\ q.stage # "answered" => q.late
    PROVE  RequestOK(q)'
<1>1. PinIsVerified(q.copy)' /\ WritesWhatItTested(q)' /\ MetTrusted(q)' /\ OtherKeyOffered(q)'
  BY DEF RequestOK, PinIsVerified, WritesWhatItTested, MetTrusted, OtherKeyOffered, Connection,
         IsVerified
<1>2. CopyIsCurrent(q)'
  BY DEF CopyIsCurrent
<1> QED
  BY <1>1, <1>2 DEF RequestOK, StageFits, CopyIsValid, KeyFits

\* A request that is overtaken is still what it was.
LEMMA LateOK ==
    ASSUME NEW q, RequestOK(q)
    PROVE  RequestOK([q EXCEPT !.late = TRUE])
<1> DEFINE n == [q EXCEPT !.late = TRUE]
<1>1. q \in Request
  BY DEF RequestOK
<1>2. /\ n \in Request /\ n.late
      /\ n.op = q.op /\ n.copy = q.copy /\ n.key = q.key /\ n.edit = q.edit
      /\ n.answer = q.answer /\ n.stage = q.stage /\ n.met = q.met
  BY <1>1 DEF Request
<1> HIDE DEF n
<1>3. StageFits(n) /\ CopyIsValid(n) /\ KeyFits(n)
  BY <1>2 DEF RequestOK, StageFits, CopyIsValid, KeyFits
<1>4. PinIsVerified(n.copy) /\ MetTrusted(n)
  BY <1>2 DEF RequestOK, MetTrusted
<1>5. WritesWhatItTested(n) /\ OtherKeyOffered(n) /\ CopyIsCurrent(n)
  BY <1>2 DEF RequestOK, WritesWhatItTested, Connection, OtherKeyOffered, CopyIsCurrent
<1> QED
  BY <1>2, <1>3, <1>4, <1>5 DEF RequestOK, n

\* So is one that is answered.
LEMMA AnsweredOK ==
    ASSUME NEW q, RequestOK(q), q.stage # "answered"
    PROVE  RequestOK(Answered(q, "ok"))
<1> DEFINE n == Answered(q, "ok")
<1>1. q \in Request
  BY DEF RequestOK
<1>2. /\ n \in Request /\ n.op = q.op /\ n.copy = q.copy
      /\ n.answer = "ok" /\ n.stage = "answered" /\ n.met = q.met
  BY <1>1 DEF Request, Answered, Stage, Answers
<1> HIDE DEF n
<1>3. StageFits(n) /\ CopyIsValid(n) /\ KeyFits(n) /\ OtherKeyOffered(n)
  BY <1>2 DEF StageFits, CopyIsValid, KeyFits, OtherKeyOffered
<1>4. PinIsVerified(n.copy) /\ MetTrusted(n)
  BY <1>2 DEF RequestOK, MetTrusted
<1>5. WritesWhatItTested(n) /\ CopyIsCurrent(n)
  BY <1>2 DEF WritesWhatItTested, CopyIsCurrent
<1> QED
  BY <1>2, <1>3, <1>4, <1>5 DEF RequestOK, n

\* UpdateProject: the whole row goes back; a pin that is new to it was verified by its test.
LEMMA WriteStep ==
    ASSUME IInv, NEW c \in Clients, Write(c)
    PROVE  IInv'
<1> DEFINE q == req[c]
<1>1. q # Null /\ q.stage = "write" /\ RequestOK(q) /\ q \in Request
  BY DEF Write, IInv, RequestOK
<1>2. q.op \in {"patch", "test"} /\ Valid(q.copy) /\ q.copy \in Row
  BY <1>1 DEF RequestOK, StageFits, StagesOf, CopyIsValid, Request, Operation
<1>3. CASE Fail(c, "failed")
  BY <1>1, <1>3, FailStep DEF Answers
<1>4. ASSUME UpdateProject(c, IF q.op = "test" THEN [q.copy EXCEPT !.pin = q.key] ELSE q.copy)
      PROVE  IInv'
  <2>1. row' \in ValidRow /\ PinIsVerified(row')
    <3>1. q.op = "test" => /\ q.key \in Keys
                           /\ IsVerified(q.key)
      BY <1>1, ConnectionsAssumption DEF RequestOK, KeyFits, WritesWhatItTested, Connection, IsVerified
    <3> QED
      BY <1>1, <1>2, <1>4, <3>1
      DEF UpdateProject, ValidRow, Valid, Row, RequestOK, PinIsVerified
  <2>2. UNCHANGED <<hostKeys, verified, rotated>>
    BY <1>4 DEF UpdateProject
  <2>3. ASSUME NEW d \in Clients, req'[d] # Null PROVE req'[d] \in Request /\ RequestOK(req[d])'
    <3>1. PICK r : r = req'[d] /\ RequestOK(r) /\ (r.op \in {"patch", "test"} /\ r.stage # "answered" => r.late)
      <4>1. CASE d = c
        <5>1. req'[d] = Answered(q, "ok")
          BY <1>4, <4>1 DEF UpdateProject
        <5>2. req'[d].stage = "answered"
          BY <1>1, <5>1 DEF Answered, Request
        <5> QED
          BY <1>1, <5>1, <5>2, AnsweredOK
      <4>2. CASE d # c /\ req[d] # Null /\ req[d].op \in {"patch", "test"}
        <5>1. req'[d] = [req[d] EXCEPT !.late = TRUE] /\ RequestOK(req[d])
          BY <1>4, <4>2 DEF UpdateProject, IInv
        <5>2. req'[d].late
          BY <5>1 DEF RequestOK, Request
        <5> QED
          BY <5>1, <5>2, LateOK
      <4>3. CASE d # c /\ ~(req[d] # Null /\ req[d].op \in {"patch", "test"})
        <5>1. req'[d] = req[d]
          BY <1>4, <4>3 DEF UpdateProject
        <5> QED
          BY <2>3, <4>3, <5>1 DEF IInv
      <4> QED
        BY <4>1, <4>2, <4>3
    <3>2. RequestOK(r)'
      BY <2>2, <3>1, RequestOvertaken
    <3> QED
      BY <3>1, <3>2 DEF RequestOK
  <2>4. TypeOK'
    <3>1. \E f : req' = [d \in Clients |-> f[d]]
      <4>1. req' = [d \in Clients |-> req'[d]]
        BY <1>4 DEF UpdateProject
      <4> QED
        BY <4>1
    <3> QED
      BY <2>1, <2>2, <2>3, <3>1 DEF IInv, TypeOK
  <2>5. (row # Null => PinIsVerified(row))'
    BY <2>1, <2>2 DEF PinIsVerified, IsVerified
  <2>6. VerifiedKeysOffered'
    BY <2>2 DEF IInv, VerifiedKeysOffered
  <2> QED
    BY <2>3, <2>4, <2>5, <2>6 DEF IInv
<1> QED
  BY <1>3, <1>4 DEF Write

\* The client takes its answer and the request is gone.
LEMMA ReceiveStep ==
    ASSUME IInv, NEW c \in Clients, Receive(c)
    PROVE  IInv'
BY ContinueStep DEF Receive

\* While there is no row, every writer has been overtaken or has its answer.
LEMMA CreateStep ==
    ASSUME IInv, CreateProject
    PROVE  IInv'
<1>1. row' \in ValidRow /\ row'.pin = Null
  BY ConnectionsAssumption DEF CreateProject
<1>2. TypeOK'
  BY <1>1 DEF CreateProject, IInv, TypeOK
<1>3. ASSUME NEW d \in Clients, req'[d] # Null PROVE RequestOK(req[d])'
  <2>1. RequestOK(req[d])
    BY <1>3 DEF CreateProject, IInv
  <2>2. PICK r : r = req[d] /\ RequestOK(r)
    BY <2>1
  <2>3. r.op \in {"patch", "test"} /\ r.stage # "answered" => r.late
    BY <2>2 DEF CreateProject, RequestOK, CopyIsCurrent
  <2>4. RequestOK(r)'
    BY <2>2, <2>3, RequestOvertaken DEF CreateProject
  <2> QED
    BY <2>2, <2>4 DEF CreateProject, RequestOK
<1>4. (row # Null => PinIsVerified(row))' /\ VerifiedKeysOffered'
  BY <1>1 DEF CreateProject, IInv, VerifiedKeysOffered, PinIsVerified
<1> QED
  BY <1>2, <1>3, <1>4 DEF IInv

\* A host that changes its key makes no earlier session wrong.
LEMMA RotateStep ==
    ASSUME IInv, NEW h \in Hosts, RotateKey(h)
    PROVE  IInv'
<1>1. rotated' = rotated \cup {h} /\ UNCHANGED <<row, req, verified>>
  BY DEF RotateKey
<1>2. /\ hostKeys' \in [Hosts -> SUBSET Keys]
      /\ \A g \in Hosts \ {h} : hostKeys'[g] = hostKeys[g]
  BY DEF RotateKey, IInv, TypeOK
<1>3. TypeOK'
  BY <1>1, <1>2 DEF IInv, TypeOK
<1>4. ASSUME NEW d \in Clients, req'[d] # Null PROVE RequestOK(req[d])'
  <2>1. PICK r : r = req[d] /\ RequestOK(r)
    BY <1>1, <1>4 DEF IInv
  <2>2. RequestOK(r)'
    BY <1>1, <1>2, <2>1, RequestStays
  <2> QED
    BY <1>1, <2>1, <2>2 DEF RequestOK
<1>5. (row # Null => PinIsVerified(row))'
  BY <1>1 DEF IInv, PinIsVerified, IsVerified
<1>6. VerifiedKeysOffered'
  BY <1>1, <1>2 DEF IInv, TypeOK, VerifiedKeysOffered
<1> QED
  BY <1>3, <1>4, <1>5, <1>6 DEF IInv

-----------------------------------------------------------------------------
(* The theorems.                                                             *)

\* Every step keeps the invariant.
LEMMA NextIInv == IInv /\ [Next]_vars => IInv'
<1> SUFFICES ASSUME IInv, [Next]_vars PROVE IInv'
  OBVIOUS
<1>1. CASE CreateProject
  BY <1>1, CreateStep
<1>2. ASSUME NEW c \in Clients, Start(c) PROVE IInv'
  BY <1>2, StartStep
<1>3. ASSUME NEW c \in Clients, Work(c) PROVE IInv'
  BY <1>3, ScanStep, LoginStep, VerifyPathStep, BrowseStep, WriteStep, ReceiveStep DEF Work
<1>4. ASSUME NEW h \in Hosts, RotateKey(h) PROVE IInv'
  BY <1>4, RotateStep
<1>5. CASE UNCHANGED vars
  <2>1. TypeOK' /\ (row # Null => PinIsVerified(row))' /\ VerifiedKeysOffered'
    BY <1>5 DEF vars, IInv, TypeOK, PinIsVerified, IsVerified, VerifiedKeysOffered
  <2>2. ASSUME NEW d \in Clients, req'[d] # Null PROVE RequestOK(req[d])'
    <3>1. PICK r : r = req[d] /\ RequestOK(r)
      BY <1>5, <2>2 DEF vars, IInv
    <3>2. RequestOK(r)'
      BY <1>5, <3>1, RequestStays DEF vars
    <3> QED
      BY <1>5, <3>1, <3>2 DEF vars, RequestOK
  <2> QED
    BY <2>1, <2>2 DEF IInv
<1> QED
  BY <1>1, <1>2, <1>3, <1>4, <1>5 DEF Next

\* Whatever the operators edit and the hosts do, the invariant holds.
THEOREM ConnectionsInvariant == Spec => []IInv
<1>1. Init => IInv
  BY InitIInv
<1>2. IInv /\ [Next]_vars => IInv'
  BY NextIInv
<1> QED
  BY <1>1, <1>2, PTL DEF Spec

\* Rows, keys and requests keep their types.
THEOREM ConnectionsTypes == Spec => []TypeOK
<1>1. IInv => TypeOK
  BY DEF IInv
<1> QED
  BY <1>1, ConnectionsInvariant, PTL

\* Every session of every request was with a server whose key it should trust.
THEOREM SessionsAreTrusted == Spec => []TrustedSessions
<1>1. IInv => TrustedSessions
  BY DEF IInv, RequestOK, MetTrusted, IsVerified, TrustedSessions
<1> QED
  BY <1>1, ConnectionsInvariant, PTL

\* Two different hosts, keys or clients are more than one.
LEMMA TwoElements ==
    ASSUME NEW S, IsFiniteSet(S), NEW x \in S, NEW y \in S, x # y
    PROVE  Cardinality(S) > 1
<1>1. Cardinality({x}) = 1 /\ IsFiniteSet({x})
  BY FS_Singleton
<1>2. Cardinality({x} \cup {y}) = 2
  BY <1>1, FS_AddElement
<1>3. Cardinality({x} \cup {y}) <= Cardinality(S)
  BY FS_Subset
<1>4. Cardinality(S) \in Nat
  BY FS_CardinalityType
<1> QED
  BY <1>2, <1>3, <1>4

\* A test that answers "key mismatch" has a reason to.
THEOREM MismatchIsReal == Spec => []MismatchHasCause
<1>1. IInv => MismatchHasCause
  <2> SUFFICES ASSUME IInv, NEW c \in Clients, req[c] # Null, req[c].answer = "key mismatch",
                      req[c].copy.host \notin rotated,
                      NEW v \in verified, v.host = req[c].copy.host, v.key = req[c].copy.pin
               PROVE  Cardinality(hostKeys[req[c].copy.host] \cap SshKeys) > 1
    BY DEF MismatchHasCause
  <2> DEFINE S == hostKeys[req[c].copy.host] \cap SshKeys
  <2>1. RequestOK(req[c])
    BY DEF IInv
  <2>2. PICK k \in S : k # req[c].copy.pin
    BY <2>1 DEF RequestOK, OtherKeyOffered
  <2>3. req[c].copy.pin \in S
    BY DEF IInv, VerifiedKeysOffered
  <2>4. IsFiniteSet(S)
    BY ConnectionsAssumption, FS_Subset
  <2> QED
    BY <2>2, <2>3, <2>4, TwoElements
<1> QED
  BY <1>1, ConnectionsInvariant, PTL

\* The row changes by its creation, or as a writer in its last step says.
LEMMA RowChanges ==
    ASSUME IInv, [Next]_vars, row' # row
    PROVE  \/ row = Null /\ row'.pin = Null
           \/ \E c \in Clients :
                /\ Writes(c) /\ RequestOK(req[c]) /\ req[c].op \in {"patch", "test"}
                /\ req[c].stage = "write"
                /\ row' = IF req[c].op = "test" THEN [req[c].copy EXCEPT !.pin = req[c].key]
                                                ELSE req[c].copy
<1>1. CASE CreateProject
  BY <1>1, ConnectionsAssumption DEF CreateProject
<1>2. ASSUME NEW c \in Clients, Start(c) PROVE FALSE
  BY <1>2 DEF Start, BeginPatch, BeginTest, BeginDraft, BeginBrowse, BeginRun, Missing, Begin, Continue
<1>3. ASSUME NEW c \in Clients, Work(c)
      PROVE  /\ Writes(c) /\ RequestOK(req[c]) /\ req[c].op \in {"patch", "test"}
             /\ req[c].stage = "write"
             /\ row' = IF req[c].op = "test" THEN [req[c].copy EXCEPT !.pin = req[c].key]
                                             ELSE req[c].copy
  <2>1. Write(c)
    BY <1>3 DEF Work, Scan, Login, VerifyPath, ResolvePath, ListChildNames, Receive, Fail, Continue
  <2>2. req[c] # Null /\ req[c].stage = "write" /\ RequestOK(req[c]) /\ req[c] \in Request
    BY <2>1 DEF Write, IInv, RequestOK
  <2>3. UpdateProject(c, IF req[c].op = "test" THEN [req[c].copy EXCEPT !.pin = req[c].key]
                                               ELSE req[c].copy)
    BY <2>1 DEF Write, Fail, Continue
  <2>4. req'[c] = Answered(req[c], "ok")
    BY <2>3 DEF UpdateProject
  <2>5. req'[c] # Null /\ req'[c].answer = "ok"
    <3>1. Answered(req[c], "ok") \in Request
      BY <2>2, AnsweredOK DEF RequestOK
    <3>2. Answered(req[c], "ok").answer = "ok"
      BY <2>2 DEF Answered, Request
    <3> QED
      BY <2>4, <3>1, <3>2, ConnectionsAssumption
  <2>6. req[c].op \in {"patch", "test"}
    BY <2>2 DEF RequestOK, StageFits, StagesOf, Request, Operation
  <2> QED
    BY <2>2, <2>3, <2>5, <2>6 DEF Writes, UpdateProject
<1>4. ASSUME NEW h \in Hosts, RotateKey(h) PROVE FALSE
  BY <1>4 DEF RotateKey
<1> QED
  BY <1>1, <1>2, <1>3, <1>4 DEF Next, vars

\* A writer that nobody overtook holds the pin that the row has.
LEMMA CopyHasPin ==
    ASSUME IInv, NEW q, RequestOK(q), q.op \in {"patch", "test"}, q.stage = "write", ~q.late
    PROVE  row \in Row /\ q.copy \in Row /\ q.copy.pin = row.pin
<1>1. row # Null /\ q.copy = Apply(q.edit, row) /\ q.edit \in Edits \cup {<<>>} /\ q.copy \in Row
  BY DEF RequestOK, CopyIsCurrent, Request
<1>2. row \in Row
  BY <1>1 DEF IInv, TypeOK, ValidRow
<1> QED
  BY <1>1, <1>2, ApplyRow

\* A pin is only saved with the connection that a test got through with.
THEOREM PinsAreTested == Spec => PinnedAsTested
<1>1. ASSUME IInv, [Next]_vars,
             row' # Null, row'.pin # Null, row = Null \/ row.pin # row'.pin
      PROVE  \/ [host |-> row'.host, account |-> row'.account,
                 path |-> row'.path, key |-> row'.pin] \in verified
             \/ \E c \in Clients : Writes(c) /\ req[c].op = "patch" /\ req[c].late
  <2>1. PICK c \in Clients :
               /\ Writes(c) /\ RequestOK(req[c]) /\ req[c].op \in {"patch", "test"}
               /\ req[c].stage = "write"
               /\ row' = IF req[c].op = "test" THEN [req[c].copy EXCEPT !.pin = req[c].key]
                                               ELSE req[c].copy
    BY <1>1, RowChanges
  <2>2. CASE req[c].op = "test"
    <3>1. Connection(req[c]) \in verified /\ req[c].copy \in Row
      BY <2>1, <2>2 DEF RequestOK, WritesWhatItTested, Request
    <3> QED
      BY <2>1, <2>2, <3>1 DEF Connection, Row
  <2>3. CASE req[c].op = "patch" /\ ~req[c].late
    <3>1. row'.pin = row.pin
      BY <1>1, <2>1, <2>3, CopyHasPin
    <3>2. row # Null
      BY <1>1, <2>1, <2>3 DEF RequestOK, CopyIsCurrent
    <3> QED
      BY <1>1, <3>1, <3>2
  <2> QED
    BY <2>1, <2>2, <2>3
<1>2. IInv /\ [Next]_vars
        => [row' # Null /\ row'.pin # Null /\ (row = Null \/ row.pin # row'.pin)
              => \/ [host |-> row'.host, account |-> row'.account,
                     path |-> row'.path, key |-> row'.pin] \in verified
                 \/ \E c \in Clients : Writes(c) /\ req[c].op = "patch" /\ req[c].late]_vars
  BY <1>1
<1> QED
  BY <1>2, ConnectionsInvariant, PTL DEF Spec, PinnedAsTested

=============================================================================
