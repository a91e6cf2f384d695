------------------------------ MODULE Service ------------------------------
(***************************************************************************)
(* The life of a server process, `serve` or `daemon --http-addr`, over one *)
(* database: it migrates, listens, keeps login sessions in memory, serves  *)
(* the requests of a browser, drains on SIGTERM, closes the database and   *)
(* exits.  A CLI command opens the same database beside it.                *)
(*                                                                         *)
(* A session is a signed cookie and an entry of the table of the process   *)
(* that issued it.  Requests pass the middleware (Authenticate) and then   *)
(* run their handler (Handle); any number of steps may lie between.        *)
(***************************************************************************)
EXTENDS Migration

CONSTANTS
    Server,         \* the server's process, an element of Procs
    Tabs,           \* requests that may be in flight at once, of tabs and browsers
    Ids,            \* bound: session ids
    TTL,            \* SESSION_TTL in seconds
    MaxClock,       \* bound: the clock
    Null

VARIABLES
    mode,           \* the server's command: "serve" or "daemon"; it never changes
    clock,
    active,         \* session id -> its expiry in the server's table, or Null
    expiry,         \* session id -> the expiry signed into its cookie, Null if never issued
    ended,          \* ids logged out of, or issued by a process that is gone
    req             \* tab -> its request in flight, or Null

sessionVars == <<mode, clock, active, expiry, ended, req>>

vars == <<migrationVars, sessionVars>>

Phase == MigrationPhase \cup {"listening", "deaf", "draining", "overdue"}

\* A login needs no cookie; a "bearer" call carries the API token instead of one.
Request == [kind : {"login", "logout", "call", "bearer"}, cookie : Ids \cup {Null},
            stage : {"sent", "accepted"}]

ASSUME ServiceAssumption ==
    /\ Server \in Procs
    /\ TTL \in Nat /\ MaxClock \in Nat
    /\ Null \notin Ids \cup Nat \cup Request

TypeOK ==
    /\ MigrationTypeOK
    /\ phase \in [Procs -> Phase]
    /\ mode \in {"serve", "daemon"}
    /\ clock \in 0..MaxClock
    /\ active \in [Ids -> Nat \cup {Null}]
    /\ expiry \in [Ids -> Nat \cup {Null}]
    /\ ended \subseteq Ids
    /\ req \in [Tabs -> Request \cup {Null}]

Init ==
    /\ MigrationInit
    /\ mode \in {"serve", "daemon"}
    /\ clock = 0
    /\ active = [i \in Ids |-> Null]
    /\ expiry = [i \in Ids |-> Null]
    /\ ended = {}
    /\ req = [t \in Tabs |-> Null]

-----------------------------------------------------------------------------
\* Sessions

Up == phase[Server] \in {"listening", "draining", "overdue"}

Issued == {id \in Ids : expiry[id] # Null}

\* A browser may have kept any cookie it was given, or have none.  Shutdown closes the
\* listener: a draining server only finishes what it has accepted.
Send(t) ==
    /\ phase[Server] = "listening"
    /\ req[t] = Null
    /\ \E kind \in {"login", "logout", "call", "bearer"}, c \in Issued \cup {Null} :
         /\ kind \in {"login", "bearer"} => c = Null
         /\ req' = [req EXCEPT ![t] = [kind |-> kind, cookie |-> c, stage |-> "sent"]]
    /\ UNCHANGED <<migrationVars, mode, clock, active, expiry, ended>>

\* Mutant of Valid: the table is all that is looked at.
InTable(id) == id # Null /\ active[id] # Null

\* sessionManager.valid of a cookie that verifies: not past its second, and in the table.
Valid(id) == id # Null /\ clock <= expiry[id] /\ active[id] # Null

\* Mutant of Authenticated: only the signature and the signed expiry are looked at.
SignedOnly(q) == q.kind \in {"login", "bearer"} \/ (q.cookie # Null /\ clock <= expiry[q.cookie])

Authenticated(q) == q.kind \in {"login", "bearer"} \/ Valid(q.cookie)

\* valid() removes a session it finds expired.
Lapsed(q) == q.cookie # Null /\ clock > expiry[q.cookie]

\* withAuth; a refused request is answered 401 at once.
Authenticate(t) ==
    LET q == req[t] IN
    /\ Up /\ q # Null /\ q.stage = "sent"
    /\ req' = [req EXCEPT ![t] = IF Authenticated(q) THEN [q EXCEPT !.stage = "accepted"] ELSE Null]
    /\ active' = IF Lapsed(q) THEN [active EXCEPT ![q.cookie] = Null] ELSE active
    /\ UNCHANGED <<migrationVars, mode, clock, expiry, ended>>

Handling(t, kind) == Up /\ req[t] # Null /\ req[t].stage = "accepted" /\ req[t].kind = kind

\* handleLogin; wrong credentials are answered 401.  The id is a new uuid.
Login(t) ==
    /\ Handling(t, "login")
    /\ req' = [req EXCEPT ![t] = Null]
    /\ \/ \E id \in Ids :
            /\ expiry[id] = Null
            /\ expiry' = [expiry EXCEPT ![id] = clock + TTL]
            /\ active' = [active EXCEPT ![id] = clock + TTL]
       \/ UNCHANGED <<active, expiry>>
    /\ UNCHANGED <<migrationVars, mode, clock, ended>>

\* handleLogout: the session of the request's cookie is revoked.
Logout(t) ==
    /\ Handling(t, "logout")
    /\ req' = [req EXCEPT ![t] = Null]
    /\ active' = [active EXCEPT ![req[t].cookie] = Null]
    /\ ended' = ended \cup {req[t].cookie}
    /\ UNCHANGED <<migrationVars, mode, clock, expiry>>

\* Any other handler; what it does to the tables is in Clients and Connections.
Call(t) ==
    /\ Handling(t, "call") \/ Handling(t, "bearer")
    /\ req' = [req EXCEPT ![t] = Null]
    /\ UNCHANGED <<migrationVars, mode, clock, active, expiry, ended>>

Tick ==
    /\ clock < MaxClock
    /\ clock' = clock + 1
    /\ UNCHANGED <<migrationVars, mode, active, expiry, ended, req>>

-----------------------------------------------------------------------------
\* The process

Move(from, to) ==
    /\ phase[Server] \in from
    /\ Goto(Server, to)
    /\ UNCHANGED <<schema, cur>>

\* The process ends: its table and its requests go with it.
Ends(to) ==
    /\ Goto(Server, to)
    /\ active' = [id \in Ids |-> Null]
    /\ ended' = Issued
    /\ req' = [t \in Tabs |-> Null]
    /\ UNCHANGED <<schema, cur, mode, clock, expiry>>

\* Bound: commands run while the server is starting for the first time.  One that
\* comes later finds version 4 and changes nothing.
CommandsDone == \A p \in Procs \ {Server} : phase[p] = "stopped"

Listen ==
    /\ CommandsDone
    /\ Move({"up"}, "listening")
    /\ UNCHANGED <<failures, sessionVars>>

\* The address is taken: serve exits; the daemon logs it and goes on without HTTP.
ListenFails ==
    /\ failures < MaxFailures /\ failures' = failures + 1
    /\ Move({"up"}, IF mode = "serve" THEN "down" ELSE "deaf")
    /\ UNCHANGED sessionVars

\* SIGTERM or SIGINT.
Signal == Move({"listening", "deaf"}, "draining") /\ UNCHANGED <<failures, sessionVars>>

\* Mutant of DrainTimeout: Shutdown gets a context without a deadline.
WaitForEver == FALSE

\* Shutdown has waited httpShutdownWait.
DrainTimeout == Move({"draining"}, "overdue") /\ UNCHANGED <<failures, sessionVars>>

Idle == \A t \in Tabs : req[t] = Null

\* serve closes the database after startHTTPServer has returned; the daemon after
\* its own loop has, which does not wait for the goroutine of the HTTP server.
MayClose ==
    \/ phase[Server] = "overdue"
    \/ phase[Server] = "draining" /\ (Idle \/ mode = "daemon")

Close ==
    /\ MayClose
    /\ Ends("stopped")
    /\ UNCHANGED failures

Crash ==
    /\ phase[Server] \in {"up", "listening", "deaf", "draining", "overdue"}
    /\ failures < MaxFailures /\ failures' = failures + 1
    /\ Ends("down")

\* A CLI command closes the database when it is done.
CommandEnds(p) ==
    /\ p # Server /\ phase[p] = "up"
    /\ Goto(p, "stopped")
    /\ UNCHANGED <<schema, cur, failures, sessionVars>>

-----------------------------------------------------------------------------

Serve(t) == Authenticate(t) \/ Login(t) \/ Logout(t) \/ Call(t)

\* docker's restart policy or an operator trying again, and what a process does by itself.
Runs(p) == (Open(p, "down") \/ Migrate(p)) /\ UNCHANGED sessionVars

Next ==
    \/ \E p \in Procs : Runs(p) \/ CommandEnds(p)
    \/ \E p \in Procs : GiveUp(p) /\ UNCHANGED sessionVars
    \/ Open(Server, "stopped") /\ UNCHANGED sessionVars
    \/ \E t \in Tabs : Send(t) \/ Serve(t)
    \/ Tick \/ Listen \/ ListenFails \/ Signal \/ DrainTimeout \/ Close \/ Crash

Spec == Init /\ [][Next]_vars

\* restart: unless-stopped; statements return; Shutdown has its timeout.
FairSpec ==
    /\ Spec
    /\ \A p \in Procs : WF_vars(Runs(p))
    /\ \A p \in Procs : WF_vars(CommandEnds(p))
    /\ WF_vars(Listen) /\ WF_vars(DrainTimeout) /\ WF_vars(Close)

-----------------------------------------------------------------------------
\* Properties

\* The session was issued, nobody has logged out of it, its process is alive and it
\* has not expired: said of the history, not of the table.
Live(id) == id # Null /\ id \notin ended /\ clock <= expiry[id]

\* Across logins, logouts in another tab, expiry and restarts a request gets past the
\* middleware exactly when it needs no session, has the token, or its session is live.
AcceptedIffLive ==
    [][\A t \in Tabs : req[t] # Null /\ req[t].stage = "sent" /\ phase'[Server] = phase[Server]
                       /\ req'[t] # req[t] =>
         ((req'[t] # Null) <=> (req[t].kind \in {"login", "bearer"} \/ Live(req[t].cookie)))]_vars

\* The ids whose cookie the middleware would let in.
Accepted == {id \in Issued : Valid(id)}

S == INSTANCE Sessions WITH now <- clock, until <- expiry, revoked <- ended, accepted <- Accepted

\* Cookies, the table that is cleaned up only when an expired cookie comes, crossing
\* logouts, drains, crashes and restarts implement the abstract sessions: opened once,
\* accepted to their last second unless revoked, never again afterwards
\* (sessionManager's issue, valid and revoke).
ImplementsSessions == S!Spec

\* The server listens again and again, unless it is told to stop, or a failure left
\* the database half migrated, or the daemon could not have its address.
ServesOrStuck ==
    \/ []<>(phase[Server] \in {"listening", "draining", "overdue", "stopped"})
    \/ <>[](failures > 0 /\ (HalfMigrated \/ phase[Server] = "deaf"))

\* A signalled server exits, however long its requests take.
SignalledServerExits == phase[Server] = "draining" ~> phase[Server] \in Closed

=============================================================================
