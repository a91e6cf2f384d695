------------------------------ MODULE Clients ------------------------------
(***************************************************************************)
(* What operators do to the tables while daemons run: the create and PATCH *)
(* handlers of the HTTP API (internal/api) and the add, enable and disable *)
(* commands of the CLI (internal/cli).  They run concurrently with the     *)
(* daemon: in its process (the HTTP server) or in another one (the CLI).   *)
(*                                                                         *)
(* Editing a task is two statements with no transaction around them: the   *)
(* whole row is read, fields of the copy are changed, the whole row is     *)
(* written back, columns the edit never mentioned included.                *)
(***************************************************************************)
EXTENDS Store

CONSTANTS
    Clients,     \* concurrent requests and commands
    Editable,    \* the tasks they edit
    MaxEdits     \* bound: edits started

ASSUME ClientsAssumption == Editable \subseteq Tasks /\ MaxEdits \in Nat

VARIABLES
    copy,        \* client -> the task it has read and not yet written
    edits        \* edits started so far

clientVars == <<copy, edits>>

ClientsTypeOK ==
    /\ copy \in [Clients -> TaskCopy \cup {Null}]
    /\ edits \in Nat

ClientsInit ==
    /\ copy = [c \in Clients |-> Null]
    /\ edits = 0

-----------------------------------------------------------------------------

CountEdit == edits < MaxEdits /\ edits' = edits + 1

\* GetTask: the first half of PATCH /tasks/{id} and of task enable / disable.
ReadTask(c, t) ==
    /\ copy[c] = Null /\ tasks[t] # Null
    /\ CountEdit
    /\ copy' = [copy EXCEPT ![c] = [id |-> t, row |-> tasks[t]]]
    /\ UNCHANGED <<now, tables>>

\* What applyTaskPatch may make of a row: any of enabled and interval_seconds
\* changed, or neither (a new name, prompt or command).
Patched(row) ==
    {[row EXCEPT !.enabled = new.enabled, !.interval = new.interval] :
        new \in [enabled : BOOLEAN, interval : Intervals]}

\* UpdateTask: the second half writes the copy back, last_run_at and next_run_at
\* as they were when it was read.
WriteTask(c) ==
    /\ copy[c] # Null
    /\ \E row \in Patched(copy[c].row) : UpdateTask(copy[c].id, row)
    /\ copy' = [copy EXCEPT ![c] = Null]
    /\ UNCHANGED <<now, edits>>

\* The handler fails between its two statements: the row is not written.
Abandon(c) ==
    /\ copy[c] # Null
    /\ copy' = [copy EXCEPT ![c] = Null]
    /\ UNCHANGED <<now, tables, edits>>

\* PATCH /projects/{id}, project enable / disable, and the host-key pin of an SSH
\* test.  Of the columns written back only enabled is modelled, and what is
\* written there is the value wanted or the one read earlier: either boolean.
PatchProject(p) ==
    /\ projects[p] # Null
    /\ CountEdit
    /\ \E e \in BOOLEAN : UpdateProject(p, [projects[p] EXCEPT !.enabled = e])
    /\ UNCHANGED <<now, copy>>

AddProject(p) ==
    /\ CountEdit
    /\ \E row \in ProjectRow : CreateProject(p, row)
    /\ UNCHANGED <<now, copy>>

\* The project is looked up first; once there it stays.
AddTask(t) ==
    /\ CountEdit
    /\ \E row \in NewTask : CreateTask(t, row)
    /\ UNCHANGED <<now, copy>>

ClientStep ==
    \/ \E c \in Clients : WriteTask(c) \/ Abandon(c)
    \/ \E c \in Clients, t \in Editable : ReadTask(c, t)
    \/ \E p \in Projects : PatchProject(p) \/ AddProject(p)
    \/ \E t \in Tasks : AddTask(t)

=============================================================================
