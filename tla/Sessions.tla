------------------------------ MODULE Sessions ------------------------------
(***************************************************************************)
(* What a login promises, without cookies, tables, requests or processes:  *)
(* a session is opened once and is accepted from then on until its time    *)
(* has passed, somebody logs out of it, or all sessions are lost at once;  *)
(* nothing else ends it and nothing brings it back.                        *)
(***************************************************************************)
EXTENDS Naturals

CONSTANTS
    Ids,
    TTL,
    Null

VARIABLES
    now,
    until,       \* id -> the last second of its session, Null before it is opened
    revoked,     \* ids that were logged out of, or lost
    accepted     \* ids that are let in

vars == <<now, until, revoked, accepted>>

Opened == {id \in Ids : until[id] # Null}

Init ==
    /\ now = 0
    /\ until = [id \in Ids |-> Null]
    /\ revoked = {}
    /\ accepted = {}

Login(id) ==
    /\ until[id] = Null
    /\ until' = [until EXCEPT ![id] = now + TTL]
    /\ accepted' = accepted \cup {id}
    /\ UNCHANGED <<now, revoked>>

\* A second logout of the same session changes nothing.
Logout(id) ==
    /\ id \in Opened
    /\ revoked' = revoked \cup {id}
    /\ accepted' = accepted \ {id}
    /\ UNCHANGED <<now, until>>

LoseAll ==
    /\ revoked' = Opened
    /\ accepted' = {}
    /\ UNCHANGED <<now, until>>

Pass ==
    /\ now' = now + 1
    /\ accepted' = {id \in accepted : now' <= until[id]}
    /\ UNCHANGED <<until, revoked>>

Next ==
    \/ \E id \in Ids : Login(id) \/ Logout(id)
    \/ LoseAll
    \/ Pass

Spec == Init /\ [][Next]_vars

=============================================================================
