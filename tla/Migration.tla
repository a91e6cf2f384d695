----------------------------- MODULE Migration -----------------------------
(***************************************************************************)
(* store.Open: the schema versions, and what happens when a process dies   *)
(* between two statements or two processes open one database.              *)
(*                                                                         *)
(* Every statement commits by itself; there is no transaction around a     *)
(* migration.  The version is read once, then statements run, then the     *)
(* versions are recorded one by one.  Of the schema only the columns of    *)
(* projects that versions differ in are modelled.                          *)
(***************************************************************************)
EXTENDS Naturals

CONSTANTS
    Procs,          \* processes that open the database: the server, a CLI command
    Projects,       \* projects of an old database
    MaxFailures     \* bound: kills and failed statements

ASSUME MigrationAssumption == MaxFailures \in Nat

VARIABLES
    versions,       \* rows of schema_migrations
    cols,           \* the columns of projects that changed; {} is no table yet
    keyFile,        \* project -> what its ssh_key_path names; "none" without the column
    inline,         \* projects whose ssh_private_key holds a key
    phase,          \* process -> the next statement of its Open
    cur,            \* process -> the last version it knows of; 0 outside of migrate
    todo,           \* process -> projects whose key file is still to be read
    lost,           \* a readable key file's path was dropped before its key was copied
    failures

schema == <<versions, cols, keyFile, inline, lost>>
migrationVars == <<schema, phase, cur, todo, failures>>

schemaVersion == 4

Column == {"ssh_key_path", "ssh_private_key", "ssh_host_key"}

Opening == {"read version", "apply schema", "v2 add", "list keys", "copy keys",
            "v3 look", "v3 look again", "v3 add", "v4 look", "v4 add", "record"}

\* "up" has the database open; "down" is not running, "stopped" was told to stop.
Closed == {"down", "stopped"}
MigrationPhase == Opening \cup Closed \cup {"up"}

MigrationTypeOK ==
    /\ versions \subseteq 1..schemaVersion
    /\ cols \subseteq Column
    /\ keyFile \in [Projects -> {"none", "readable", "unreadable"}]
    /\ inline \subseteq Projects
    /\ cur \in [Procs -> 0..schemaVersion]
    /\ todo \in [Procs -> SUBSET Projects]
    /\ lost \in BOOLEAN
    /\ failures \in 0..MaxFailures

\* The databases that versions of the program have left behind, the one of the
\* first v2 migration, which dropped the wrong column, among them.
Fresh == versions = {} /\ cols = {}
FromV1 == versions = {1} /\ cols = {"ssh_key_path"}
FromBadV2 == versions = {1, 2} /\ cols = {"ssh_key_path"}
FromV2 == versions = {1, 2} /\ cols = {"ssh_private_key"}
FromV3 == versions = {1, 2, 3} /\ cols = {"ssh_private_key"}
FromV4 == versions = 1..4 /\ cols = {"ssh_private_key", "ssh_host_key"}

MigrationInit ==
    /\ \/ Fresh /\ keyFile = [p \in Projects |-> "none"] /\ inline = {}
       \/ (FromV1 \/ FromBadV2) /\ inline = {} /\ keyFile \in [Projects -> {"none", "readable", "unreadable"}]
       \/ (FromV2 \/ FromV3 \/ FromV4) /\ inline = Projects /\ keyFile = [p \in Projects |-> "none"]
    /\ phase = [p \in Procs |-> "down"]
    /\ cur = [p \in Procs |-> 0]
    /\ todo = [p \in Procs |-> {}]
    /\ lost = FALSE
    /\ failures = 0

-----------------------------------------------------------------------------

\* Where Open goes on; when it returns, its local variables are gone.
Goto(p, to) ==
    /\ phase' = [phase EXCEPT ![p] = to]
    /\ todo' = IF to \in Opening THEN todo ELSE [todo EXCEPT ![p] = {}]

Continue(p, to) == Goto(p, to) /\ cur' = IF to \in Opening THEN cur ELSE [cur EXCEPT ![p] = 0]

\* A statement that changes nothing of the schema.
Look(p, from, to) ==
    /\ phase[p] = from
    /\ Continue(p, to)
    /\ UNCHANGED <<schema, failures>>

Open(p, from) == Look(p, from, "read version")

Current == CHOOSE v \in versions \cup {0} : \A w \in versions : w <= v

\* SELECT MAX(version), and the switch over it.
ReadVersion(p) ==
    /\ phase[p] = "read version"
    /\ LET to == CASE Current = 0 -> "apply schema" [] Current = 1 -> "v2 add"
                   [] Current = 2 -> "v3 look" [] Current = 3 -> "v4 look" [] OTHER -> "up"
       IN Goto(p, to) /\ cur' = [cur EXCEPT ![p] = IF to = "up" THEN 0 ELSE Current]
    /\ UNCHANGED <<schema, failures>>

\* CREATE TABLE IF NOT EXISTS.
ApplySchema(p) ==
    /\ phase[p] = "apply schema"
    /\ cols' = IF cols = {} THEN {"ssh_private_key", "ssh_host_key"} ELSE cols
    /\ Continue(p, "record")
    /\ UNCHANGED <<versions, keyFile, inline, lost, failures>>

\* ALTER TABLE ADD COLUMN fails when the column is there: Open fails.
AddColumn(p, from, col, to) ==
    /\ phase[p] = from
    /\ cols' = cols \cup {col}
    /\ Continue(p, IF col \in cols THEN "down" ELSE to)
    /\ UNCHANGED <<versions, keyFile, inline, lost, failures>>

\* The body of migrateV1ToV2 after its first statement, and of migrateV2ToV3
\* from its SELECT on, are the same.  The SELECT fails without its column.
ListKeys(p) ==
    /\ phase[p] = "list keys"
    /\ IF "ssh_key_path" \in cols
       THEN /\ phase' = [phase EXCEPT ![p] = "copy keys"]
            /\ todo' = [todo EXCEPT ![p] = {x \in Projects : keyFile[x] # "none"}]
            /\ UNCHANGED cur
       ELSE Continue(p, "down")
    /\ UNCHANGED <<schema, failures>>

\* A file that cannot be read is passed over.  The path was read by the SELECT: it
\* is used even when another process has dropped the column since.
CopyKey(p, x) ==
    /\ phase[p] = "copy keys" /\ x \in todo[p]
    /\ \/ inline' = inline \cup {x} /\ keyFile[x] # "unreadable"
       \/ inline' = inline /\ keyFile[x] # "readable"
    /\ todo' = [todo EXCEPT ![p] = @ \ {x}]
    /\ UNCHANGED <<versions, cols, keyFile, lost, phase, cur, failures>>

\* Mutant of KeysCopied: the column is dropped while files are still to be read.
KeysListed(p) == phase[p] = "copy keys"

KeysCopied(p) == phase[p] = "copy keys" /\ todo[p] = {}

\* ALTER TABLE DROP COLUMN; version 2 falls through to version 3's look, version 3 to 4's.
DropPath(p) ==
    /\ KeysCopied(p)
    /\ cols' = cols \ {"ssh_key_path"}
    /\ keyFile' = [x \in Projects |-> "none"]
    /\ lost' = (lost \/ \E x \in Projects : keyFile[x] = "readable" /\ x \notin inline)
    /\ Continue(p, IF "ssh_key_path" \notin cols THEN "down"
                   ELSE IF cur[p] = 1 THEN "v3 look" ELSE "v4 look")
    /\ UNCHANGED <<versions, inline, failures>>

\* Mutant of V3Look: nobody looks whether the repair is needed.
V3AddAnyway(p) == Look(p, "v3 look", "v3 add")

V3Look(p) == Look(p, "v3 look", IF "ssh_key_path" \in cols THEN "v3 look again" ELSE "v4 look")
V3LookAgain(p) == Look(p, "v3 look again", IF "ssh_private_key" \in cols THEN "list keys" ELSE "v3 add")

\* Mutant of V4Look: the migration of version 4 is left out.
V4Skip(p) == Look(p, "v4 look", "record")

V4Look(p) == Look(p, "v4 look", IF "ssh_host_key" \in cols THEN "record" ELSE "v4 add")

\* Mutant of Record: one version too many.
RecordOneMore(p) ==
    /\ phase[p] = "record"
    /\ LET v == cur[p] + 1
           to == IF v \in versions THEN "down" ELSE IF v > schemaVersion THEN "up" ELSE "record"
       IN /\ versions' = versions \cup {v}
          /\ Goto(p, to)
          /\ cur' = [cur EXCEPT ![p] = IF to = "record" THEN v ELSE 0]
    /\ UNCHANGED <<cols, keyFile, inline, lost, failures>>

\* INSERT INTO schema_migrations, one version at a time; one that is there fails.
Record(p) ==
    /\ phase[p] = "record"
    /\ LET v == cur[p] + 1
           to == IF v \in versions THEN "down" ELSE IF v = schemaVersion THEN "up" ELSE "record"
       IN /\ versions' = versions \cup {v}
          /\ Goto(p, to)
          /\ cur' = [cur EXCEPT ![p] = IF to = "record" THEN v ELSE 0]
    /\ UNCHANGED <<cols, keyFile, inline, lost, failures>>

\* A statement fails, or the process is killed before it: nothing is undone.
GiveUp(p) ==
    /\ phase[p] \in Opening
    /\ failures < MaxFailures
    /\ failures' = failures + 1
    /\ Continue(p, "down")
    /\ UNCHANGED schema

Migrate(p) ==
    \/ ReadVersion(p) \/ ApplySchema(p)
    \/ AddColumn(p, "v2 add", "ssh_private_key", "list keys")
    \/ ListKeys(p) \/ (\E x \in Projects : CopyKey(p, x)) \/ DropPath(p)
    \/ V3Look(p) \/ V3LookAgain(p) \/ AddColumn(p, "v3 add", "ssh_private_key", "list keys")
    \/ V4Look(p) \/ AddColumn(p, "v4 add", "ssh_host_key", "record")
    \/ Record(p)

-----------------------------------------------------------------------------

\* A process that has opened the database finds the columns its statements name,
\* whichever version it came from and whoever else was migrating.
SchemaComplete ==
    \A p \in Procs : phase[p] \notin Opening \cup Closed =>
        cols = {"ssh_private_key", "ssh_host_key"} /\ versions = 1..schemaVersion

\* The path column is dropped only after every readable key file was copied in, and
\* a copied key stays.
NoKeyLost == ~lost

\* What a death between migrateV1ToV2's ADD COLUMN and the record, or in the middle
\* of a new database's records, leaves: every later Open adds the column again and fails.
HalfMigrated == Current = 1 /\ "ssh_private_key" \in cols

=============================================================================
