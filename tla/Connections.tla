---------------------------- MODULE Connections ----------------------------
(***************************************************************************)
(* One project's SSH columns, the requests that read and write them, and   *)
(* the worker hosts they connect to.                                       *)
(*                                                                         *)
(* A connection test scans the host's key, logs in with the project's      *)
(* credentials under strict host key checking, looks for the project       *)
(* directory and, when the project had no pinned key, writes the whole row *)
(* back with the key.  It works for seconds on a copy of the row.  PATCH   *)
(* and the CLI's enable/disable write whole rows too.  The directory       *)
(* browser and the scheduler's runs only read the row.                     *)
(*                                                                         *)
(* The port is part of the host, the user and private key are one account. *)
(***************************************************************************)
EXTENDS Naturals, FiniteSets

CONSTANTS
    Hosts, Keys, Accounts, Paths,
    SshKeys,        \* the keys whose type starts with "ssh-"; the others are ecdsa
    FirstKeys,      \* the key sets hosts may have at first: a set of [Hosts -> SUBSET Keys]
    Authorized,     \* pairs <<host, account>> that may log in
    Directories,    \* pairs <<host, path>> that exist
    KnownHosts,     \* pairs <<host, key>> of the container's own known_hosts
    Forms,          \* rows an operator fills in, for a new project or a draft
    MaxRotations,   \* bound: hosts that replace a key, once each
    Clients,        \* requests that may be in flight at once
    Edits,          \* request bodies: partial rows
    Blank,          \* an empty or missing value of a required column
    Null

VARIABLES
    row,            \* the project's row, or Null
    hostKeys,       \* the keys of each host's ssh server
    req,            \* client -> its request in flight, or Null
    verified,       \* what the project's tests got through to: host, account, path, key
    rotated         \* hosts that replaced a key

vars == <<row, hostKeys, req, verified, rotated>>

Row == [host : Hosts \cup {Blank}, account : Accounts \cup {Blank},
        path : Paths \cup {Blank}, pin : Keys \cup {Null}, enabled : BOOLEAN]

ValidRow == {r \in Row : Blank \notin {r.host, r.account, r.path}}

\* Mutant of Valid: no column is checked.
AlwaysValid(r) == TRUE

Valid(r) == Blank \notin {r.host, r.account, r.path}

Operation == {"patch", "test", "draft", "browse", "run"}

Stage == {"scan", "login", "path", "list", "write", "answered"}

Answers == {"ok", "bad request", "missing", "unreachable", "auth failed",
            "key mismatch", "path not found", "failed"}

Request == [op : Operation, stage : Stage, copy : Row, edit : Edits \cup {<<>>},
            key : Keys \cup {Null},       \* the key the known_hosts file is made of
            met : SUBSET Keys,            \* keys of the servers it had sessions with
            answer : Answers \cup {Null},
            late : BOOLEAN]               \* a writer's: the row was written since it was read

TypeOK ==
    /\ row \in ValidRow \cup {Null}
    /\ hostKeys \in [Hosts -> SUBSET Keys]
    /\ req \in [Clients -> Request \cup {Null}]
    /\ verified \subseteq [host : Hosts, account : Accounts, path : Paths, key : Keys]
    /\ rotated \subseteq Hosts

Init ==
    /\ row = Null
    /\ hostKeys \in FirstKeys
    /\ req = [c \in Clients |-> Null]
    /\ verified = {}
    /\ rotated = {}

-----------------------------------------------------------------------------
\* Requests

\* The row with the fields of the body that are present.
Apply(edit, r) == [col \in DOMAIN r |-> IF col \in DOMAIN edit THEN edit[col] ELSE r[col]]

\* A body's fields have the types of the columns they are for.
ASSUME ConnectionsAssumption ==
    /\ IsFiniteSet(Keys) /\ SshKeys \subseteq Keys
    /\ FirstKeys \subseteq [Hosts -> SUBSET Keys]
    /\ Null \notin Keys \cup Row \cup Request \cup Answers
    /\ Forms \subseteq {r \in ValidRow : r.pin = Null}
    /\ Blank \notin Hosts \cup Accounts \cup Paths
    /\ \A e \in Edits : /\ DOMAIN e \subseteq {"host", "account", "path", "enabled"}
                        /\ \A r \in Row : Apply(e, r) \in Row

Unsaved == [host |-> Blank, account |-> Blank, path |-> Blank, pin |-> Null, enabled |-> TRUE]

Answered(q, a) == [q EXCEPT !.stage = "answered", !.answer = a]

\* An answer without a row: what the request had read is of no more use.
Failure(op, a) == [op |-> op, stage |-> "answered", copy |-> Unsaved, edit |-> <<>>, key |-> Null,
                   met |-> {}, answer |-> a, late |-> FALSE]

Continue(c, q) ==
    /\ req' = [req EXCEPT ![c] = q]
    /\ UNCHANGED <<row, hostKeys, verified, rotated>>

Fail(c, a) == Continue(c, Failure(req[c].op, a))

\* A request that has read the row r; a body that leaves a column blank is refused.
Begin(c, op, edit, r, stage) ==
    LET copy == Apply(edit, r)
        q == [op |-> op, stage |-> stage, copy |-> copy, edit |-> edit, key |-> copy.pin,
              met |-> {}, answer |-> Null, late |-> FALSE]
    IN /\ req[c] = Null
       /\ Continue(c, IF Valid(copy) THEN q ELSE Failure(op, "bad request"))

\* UpdateProject: every column of r; the other requests' copies are now old.
UpdateProject(c, r) ==
    /\ row' = r
    /\ req' = [d \in Clients |->
                 IF d = c THEN Answered(req[d], "ok")
                 ELSE IF req[d] # Null /\ req[d].op \in {"patch", "test"}
                      THEN [req[d] EXCEPT !.late = TRUE] ELSE req[d]]
    /\ UNCHANGED <<hostKeys, verified, rotated>>

ConnectionEdits == {e \in Edits \cup {<<>>} : "enabled" \notin DOMAIN e}

\* POST /projects and `project add`: a new project has no pin.
CreateProject ==
    /\ row = Null
    /\ row' \in Forms
    /\ UNCHANGED <<hostKeys, req, verified, rotated>>

\* PATCH /projects/{id} and `project enable|disable`: the read and the new values.
BeginPatch(c) == row # Null /\ \E e \in Edits : Begin(c, "patch", e, row, "write")

BeginTest(c) == row # Null /\ \E e \in ConnectionEdits : Begin(c, "test", e, row, "scan")

\* POST /ssh/test and /ssh/list-dirs, of a form that is not saved.
BeginDraft(c) == \E r \in Forms, op \in {"draft", "browse"} : Begin(c, op, <<>>, r, "scan")

\* The path of a browse request is the directory to list, and no override.
BeginBrowse(c) ==
    /\ row # Null
    /\ \E e \in ConnectionEdits :
         /\ "path" \notin DOMAIN e
         /\ Begin(c, "browse", e, row, IF row.pin = Null THEN "scan" ELSE "path")

\* tryStart reads an enabled project; the run makes its known_hosts from that copy.
BeginRun(c) == row # Null /\ row.enabled /\ Begin(c, "run", <<>>, row, "login")

\* The project is gone or was never there.
Missing(c) ==
    /\ row = Null /\ req[c] = Null
    /\ \E op \in {"patch", "test", "browse"} :
         Continue(c, Failure(op, "missing"))

-----------------------------------------------------------------------------
\* Connections

\* Mutant of KeysOffered: ecdsa keys are taken too.
KeysOfAnyType(h) == hostKeys[h]

\* ssh-keyscan prints the host's keys in any order; the first "ssh-" one is taken.
KeysOffered(h) == hostKeys[h] \cap SshKeys

\* Mutant of Scan: the scanned key is not compared with the pinned one.
ScanUnchecked(c) ==
    LET q == req[c] IN
    /\ q # Null /\ q.stage = "scan"
    /\ \/ Fail(c, "unreachable")
       \/ \E k \in KeysOffered(q.copy.host) :
            Continue(c, [q EXCEPT !.key = k, !.stage = IF q.op = "browse" THEN "path" ELSE "login"])

Scan(c) ==
    LET q == req[c] IN
    /\ q # Null /\ q.stage = "scan"
    /\ \/ Fail(c, "unreachable")
       \/ \E k \in KeysOffered(q.copy.host) :
            IF q.copy.pin \in {Null, k}
            THEN Continue(c, [q EXCEPT !.key = k, !.stage = IF q.op = "browse" THEN "path" ELSE "login"])
            ELSE Continue(c, Answered(q, "key mismatch"))

\* The keys ssh trusts the host with: the one line of the temporary file, or,
\* for a run of a project without a pin, the container's known_hosts.
Trusted(q) ==
    IF q.key # Null THEN {q.key} ELSE {k \in Keys : <<q.copy.host, k>> \in KnownHosts}

\* StrictHostKeyChecking=yes: a session needs a trusted host key and a login.
Session(q, k) ==
    /\ k \in Trusted(q) \cap hostKeys[q.copy.host]
    /\ <<q.copy.host, q.copy.account>> \in Authorized

Met(q, k) == [q EXCEPT !.met = @ \cup {k}]

\* Mutant of Login: a first test saves the key before it has looked for the path.
LoginThenSave(c) ==
    LET q == req[c] IN
    /\ q # Null /\ q.stage = "login"
    /\ \/ Fail(c, IF q.op = "run" THEN "failed" ELSE "auth failed")
       \/ \E k \in Keys :
            /\ Session(q, k)
            /\ Continue(c, IF q.op = "run" THEN Answered(Met(q, k), "ok")
                           ELSE [Met(q, k) EXCEPT !.stage =
                                   IF q.op = "test" /\ q.copy.pin = Null THEN "write" ELSE "path"])

\* `echo ok` of a test; a run's command.
Login(c) ==
    LET q == req[c] IN
    /\ q # Null /\ q.stage = "login"
    /\ \/ \E k \in Keys :
            /\ Session(q, k)
            /\ Continue(c, IF q.op = "run" THEN Answered(Met(q, k), "ok")
                                           ELSE [Met(q, k) EXCEPT !.stage = "path"])
       \/ Fail(c, IF q.op = "run" THEN "failed" ELSE "auth failed")

\* `test -d path`, then the fingerprint, which may fail for want of ssh-keygen.
VerifyPath(c) ==
    LET q == req[c] IN
    /\ q # Null /\ q.stage = "path" /\ q.op \in {"test", "draft"}
    /\ \/ /\ Session(q, q.key)
          /\ <<q.copy.host, q.copy.path>> \in Directories
          /\ req' = [req EXCEPT ![c] =
                       IF q.op = "test" /\ q.copy.pin = Null
                       THEN [Met(q, q.key) EXCEPT !.stage = "write"]
                       ELSE Answered(Met(q, q.key), "ok")]
          /\ verified' = verified \cup (IF q.op = "draft" THEN {} ELSE
                            {[host |-> q.copy.host, account |-> q.copy.account,
                              path |-> q.copy.path, key |-> q.key]})
          /\ UNCHANGED <<row, hostKeys, rotated>>
       \/ \E a \in {"auth failed", "path not found", "failed"} : Fail(c, a)

\* Browse: resolve the directory, then list it, each over a connection of its own.
ResolvePath(c) ==
    LET q == req[c] IN
    /\ q # Null /\ q.stage = "path" /\ q.op = "browse"
    /\ \/ Session(q, q.key) /\ Continue(c, [Met(q, q.key) EXCEPT !.stage = "list"])
       \/ \E a \in {"auth failed", "path not found"} : Fail(c, a)

ListChildNames(c) ==
    LET q == req[c] IN
    /\ q # Null /\ q.stage = "list"
    /\ \/ Session(q, q.key) /\ Continue(c, Answered(Met(q, q.key), "ok"))
       \/ \E a \in {"auth failed", "path not found"} : Fail(c, a)

\* The second half of a PATCH, and the pin of a first successful test: both
\* write the copy, with every column it was read with.
Write(c) ==
    LET q == req[c] IN
    /\ q # Null /\ q.stage = "write"
    /\ \/ UpdateProject(c, IF q.op = "test" THEN [q.copy EXCEPT !.pin = q.key] ELSE q.copy)
       \/ Fail(c, "failed")

\* The client has its answer.
Receive(c) ==
    /\ req[c] # Null /\ req[c].stage = "answered"
    /\ req' = [req EXCEPT ![c] = Null]
    /\ UNCHANGED <<row, hostKeys, verified, rotated>>

\* A worker's administrator replaces a host key.
RotateKey(h) ==
    /\ h \notin rotated /\ Cardinality(rotated) < MaxRotations
    /\ \E old \in hostKeys[h], new \in Keys \ UNION {hostKeys[x] : x \in Hosts} :
         hostKeys' = [hostKeys EXCEPT ![h] = (@ \ {old}) \cup {new}]
    /\ rotated' = rotated \cup {h}
    /\ UNCHANGED <<row, req, verified>>

-----------------------------------------------------------------------------

Work(c) == Scan(c) \/ Login(c) \/ VerifyPath(c) \/ ResolvePath(c) \/ ListChildNames(c)
           \/ Write(c) \/ Receive(c)

Start(c) == BeginPatch(c) \/ BeginTest(c) \/ BeginDraft(c) \/ BeginBrowse(c) \/ BeginRun(c)
            \/ Missing(c)

Next ==
    \/ CreateProject
    \/ \E c \in Clients : Start(c) \/ Work(c)
    \/ \E h \in Hosts : RotateKey(h)

Spec == Init /\ [][Next]_vars

-----------------------------------------------------------------------------
\* Properties

Writes(c) == req[c] # Null /\ req[c].stage = "write" /\ req'[c] # Null /\ req'[c].answer = "ok"

\* A pin is stored only with the host, account and path that a finished test
\* logged in to with that key: never the key of a failed test, and never beside
\* the columns of another connection (runSSHTest saves what it tested).
PinnedAsTested ==
    [][row' # Null /\ row'.pin # Null /\ (row = Null \/ row.pin # row'.pin)
       => \/ [host |-> row'.host, account |-> row'.account,
              path |-> row'.path, key |-> row'.pin] \in verified
          \/ \E c \in Clients : Writes(c) /\ req[c].op = "patch" /\ req[c].late]_vars

\* No request talks to a server whose key it should not trust: with a pinned
\* project only to the pinned key, whatever keys the host changes to between its
\* connections, and a run only to a key some test verified or the container knows.
TrustedSessions ==
    \A c \in Clients : req[c] # Null =>
        \A k \in req[c].met :
            /\ req[c].copy.pin \in {Null, k}
            /\ req[c].op = "run" => \/ \E v \in verified : v.key = k
                                    \/ <<req[c].copy.host, k>> \in KnownHosts

\* A test answers "key mismatch" only for a reason: the host has replaced a key,
\* it has several ssh- keys and offered another one first, or the pinned key was
\* never verified on this host.
MismatchHasCause ==
    \A c \in Clients : req[c] # Null /\ req[c].answer = "key mismatch" =>
        LET h == req[c].copy.host IN
        \/ h \in rotated
        \/ Cardinality(hostKeys[h] \cap SshKeys) > 1
        \/ ~ \E v \in verified : v.host = h /\ v.key = req[c].copy.pin

\* "A successful test saves the host's public key.  A change of the host key
\* after the pin is an explicit error" (specs/03): a pin, once saved, stays.  The
\* code breaks this: a second test, or a PATCH, that read the row before the pin
\* was saved puts another key, or none, in its place.
PinStays == [][row # Null /\ row.pin # Null => row'.pin = row.pin]_vars

=============================================================================
