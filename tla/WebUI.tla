-------------------------------- MODULE WebUI -------------------------------
(***************************************************************************)
(* One browser tab of the web UI: the tasks page and the runs page, the    *)
(* fetches they have in flight, and the login page.                        *)
(*                                                                         *)
(* A handler asks the API and awaits the answer; meanwhile the operator    *)
(* clicks on and other fetches are sent.  The server answers in any order  *)
(* and answers arrive in any order; whichever arrives is rendered, with    *)
(* the page as it is by then.  Leaving the page drops what is in flight.   *)
(*                                                                         *)
(* Of a task, enabled and one text stand for all fields; runs are ids.     *)
(* Creating a task is left out, and so is the projects page, whose table   *)
(* and dialog work as those of the tasks page.                             *)
(***************************************************************************)
EXTENDS Naturals, Sequences, SequencesExt

CONSTANTS
    Projects, Tasks, Runs,
    ProjectOf,      \* the project of a task or a run
    Texts,
    MaxFetches,     \* bound: fetches in flight
    Null

VARIABLES
    tasks,          \* the server's table: task -> row
    session,        \* the cookie is accepted
    page,           \* "tasks", "runs" or "login"
    url,            \* the project the page's URL names, until loadProjects looks at it
    listed,         \* the projects have been put into the select
    choice,         \* the page's project select, or filter; Null is none, or all
    table,          \* what the page's table shows
    flash,          \* an error is shown above it
    form,           \* the task dialog, or Null
    detail,         \* the run dialog, or Null
    fetches,        \* fetches in flight, in the order they were sent
    overtaken,      \* ghost: on this page an answer came before that of an older fetch of its kind
    unseen          \* ghost: the table of tasks changed and the page was not told

place == <<page, url, listed, choice>>
pageVars == <<place, table, flash, form, detail, fetches, overtaken>>
vars == <<tasks, session, pageVars, unseen>>

Row == [enabled : BOOLEAN, text : Texts]
RowCopy == [id : Tasks, row : Row]

\* "labels" stands for the fetches of every project's tasks, by which the runs page
\* knows their names.
Kind == {"projects", "labels", "list", "task", "toggle", "save", "run", "log", "logout"}

\* What a fetch is about, what it sends, and its answer once there is one.
Fetch == [kind : Kind, of : Projects \cup Tasks \cup Runs \cup {Null}, body : Row \cup {Null},
          answer : {Null, "ok", "failed", "unauthorized"}, data : SUBSET RowCopy]

\* The table shows rows, or a line of text; "of" is the project it was loaded for.
Table == [shows : {"rows", "loading", "failed", "nothing"},
          of : Projects \cup {Null}, rows : SUBSET RowCopy]

Nothing == [shows |-> "nothing", of |-> Null, rows |-> {}]
Loading == [Nothing EXCEPT !.shows = "loading"]

\* "calm" is a ghost: when the dialog opened, no task was on its way that could be
\* put into it and no save that would close it.
Form == [id : Tasks, row : Row, calm : BOOLEAN]

\* The run the dialog is for; the runs whose fields and whose log it shows.
Detail == [id : Runs, fields : Runs \cup {Null}, log : Runs \cup {Null}]

ASSUME WebUIAssumption ==
    /\ Null \notin Projects \cup Tasks \cup Runs \cup Row \cup Form \cup Detail
    /\ Null \notin {"ok", "failed", "unauthorized"}
    /\ ProjectOf \in [Tasks \cup Runs -> Projects]
    /\ MaxFetches \in Nat \ {0}

TypeOK ==
    /\ tasks \in [Tasks -> Row]
    /\ session \in BOOLEAN
    /\ page \in {"tasks", "runs", "login"}
    /\ url \in Projects \cup {Null} /\ choice \in Projects \cup {Null}
    /\ listed \in BOOLEAN /\ flash \in BOOLEAN
    /\ table \in Table
    /\ form \in Form \cup {Null}
    /\ detail \in Detail \cup {Null}
    /\ fetches \in Seq(Fetch) /\ Len(fetches) <= MaxFetches
    /\ overtaken \in BOOLEAN /\ unseen \in BOOLEAN

-----------------------------------------------------------------------------
\* Sending

Request(kind, of, body) ==
    [kind |-> kind, of |-> of, body |-> body, answer |-> Null, data |-> {}]

Busy == Len(fetches) = MaxFetches

Ask(kind, of, body) == ~Busy /\ fetches' = Append(fetches, Request(kind, of, body))

\* loadTasks and loadRuns, with the other fetches that are in flight then: without
\* a project the tasks page has nothing to ask for.  The runs page writes its filter
\* into the URL.
Load(pg, project, others) ==
    /\ flash' = FALSE /\ url' = Null
    /\ IF pg = "tasks" /\ project = Null
         THEN table' = Nothing /\ fetches' = others
         ELSE table' = Loading /\ fetches' = Append(others, Request("list", project, Null))

\* A page is opened: from a link, by the login page, by a reload.  The URL may name a
\* project; the table of the runs page says "Loading..." from the start.
OpenPage(pg) ==
    /\ page' = pg /\ listed' = FALSE /\ choice' = Null
    /\ url' \in Projects \cup {Null}
    /\ table' = IF pg = "runs" THEN Loading ELSE Nothing
    /\ fetches' = <<Request("projects", Null, Null)>>
    /\ flash' = FALSE /\ form' = Null /\ detail' = Null
    /\ overtaken' = FALSE

Init ==
    /\ tasks \in [Tasks -> Row]
    /\ session = TRUE
    /\ page = "login" /\ url = Null /\ listed = FALSE /\ choice = Null
    /\ table = Nothing /\ flash = FALSE
    /\ form = Null /\ detail = Null /\ fetches = <<>>
    /\ overtaken = FALSE /\ unseen = FALSE

Visit(pg) ==
    /\ page # "login"
    /\ OpenPage(pg)
    /\ UNCHANGED <<tasks, session, unseen>>

\* login.js: with a session, or after a successful login, on to the page asked for.
Login ==
    /\ page = "login"
    /\ session' = TRUE
    /\ \E pg \in {"tasks", "runs"} : OpenPage(pg)
    /\ UNCHANGED <<tasks, unseen>>

\* The select is behind an open dialog, and has no projects before they are listed;
\* the runs page's other filter, the status, loads the runs too.
Select(project) ==
    /\ page # "login" /\ form = Null /\ detail = Null
    /\ IF page = "tasks" THEN listed /\ project # choice ELSE listed \/ project = Null
    /\ ~Busy
    /\ choice' = project
    /\ Load(page, project, fetches)
    /\ UNCHANGED <<tasks, session, page, listed, form, detail, overtaken, unseen>>

\* The page is left when this is answered.
Logout ==
    /\ page # "login" /\ form = Null /\ detail = Null
    /\ Ask("logout", Null, Null)
    /\ UNCHANGED <<tasks, session, place, table, flash, form, detail, overtaken, unseen>>

\* Mutant of Clickable: the dialog does not cover the page.
RowShown(c) == table.shows = "rows" /\ c \in table.rows

Clickable(c) == table.shows = "rows" /\ c \in table.rows /\ form = Null

ClickEdit(c) ==
    /\ page = "tasks" /\ Clickable(c)
    /\ Ask("task", c.id, Null)
    /\ UNCHANGED <<tasks, session, place, table, flash, form, detail, overtaken, unseen>>

\* The button's label is the opposite of the badge beside it.
ClickToggle(c) ==
    /\ page = "tasks" /\ Clickable(c)
    /\ flash' = FALSE
    /\ Ask("toggle", c.id, [c.row EXCEPT !.enabled = ~@])
    /\ UNCHANGED <<tasks, session, place, table, form, detail, overtaken, unseen>>

Type(row) ==
    /\ form # Null
    /\ form' = [form EXCEPT !.row = row]
    /\ UNCHANGED <<tasks, session, place, table, flash, detail, fetches, overtaken, unseen>>

\* saveTask sends every field of the form if a project is selected; the dialog stays
\* open until the answer, and nothing keeps the operator from submitting again.
Submit ==
    /\ form # Null /\ choice # Null
    /\ Ask("save", form.id, form.row)
    /\ UNCHANGED <<tasks, session, place, table, flash, form, detail, overtaken, unseen>>

CloseDialog ==
    /\ form # Null \/ detail # Null
    /\ form' = Null /\ detail' = Null
    /\ UNCHANGED <<tasks, session, place, table, flash, fetches, overtaken, unseen>>

\* openRunDetail: the fields are blank until their answers come.
ClickView(r) ==
    /\ page = "runs" /\ detail = Null /\ table.shows = "rows"
    /\ table.of \in {Null, ProjectOf[r]}
    /\ detail' = [id |-> r, fields |-> Null, log |-> Null]
    /\ Ask("run", r, Null)
    /\ UNCHANGED <<tasks, session, place, table, flash, form, overtaken, unseen>>

-----------------------------------------------------------------------------
\* The server

RowsOf(project) == {[id |-> t, row |-> tasks[t]] : t \in {t \in Tasks : ProjectOf[t] = project}}

Answer(i, answer, data) ==
    fetches' = [fetches EXCEPT ![i].answer = answer, ![i].data = data]

\* A PATCH writes the fields it has; a toggle's has only enabled.
Patched(f) ==
    [tasks EXCEPT ![f.of] = IF f.kind = "toggle" THEN [@ EXCEPT !.enabled = f.body.enabled]
                                               ELSE f.body]

Patches(f) == f.kind \in {"toggle", "save"}

Serve(i) ==
    LET f == fetches[i] IN
    /\ session /\ f.answer = Null
    /\ tasks' = IF Patches(f) THEN Patched(f) ELSE tasks
    /\ session' = (f.kind # "logout")
    /\ \/ /\ Answer(i, "ok", CASE f.kind = "task" -> {[id |-> f.of, row |-> tasks[f.of]]}
                               [] f.kind = "list" /\ page = "tasks" -> RowsOf(f.of)
                               [] OTHER -> {})
          /\ UNCHANGED unseen
       \/ /\ Answer(i, "failed", {})       \* the answer is lost on the way
          /\ unseen' = (unseen \/ tasks' # tasks)
    /\ UNCHANGED <<place, table, flash, form, detail, overtaken>>

\* The request is lost, or the server fails it.
ServeNot(i) ==
    /\ fetches[i].answer = Null
    /\ Answer(i, "failed", {})
    /\ UNCHANGED <<tasks, session, place, table, flash, form, detail, overtaken, unseen>>

Refuse(i) ==
    /\ ~session /\ fetches[i].answer = Null
    /\ Answer(i, "unauthorized", {})
    /\ UNCHANGED <<tasks, session, place, table, flash, form, detail, overtaken, unseen>>

\* A logout in another tab, the session's end, a restart of the server.
SessionEnds ==
    /\ session /\ session' = FALSE
    /\ UNCHANGED <<tasks, pageVars, unseen>>

\* The CLI or another browser edits a task, or the request of a page that was left
\* reaches the server late.
OtherEdit ==
    /\ \E t \in Tasks : \E row \in Row \ {tasks[t]} : tasks' = [tasks EXCEPT ![t] = row]
    /\ unseen' = TRUE
    /\ UNCHANGED <<session, pageVars>>

-----------------------------------------------------------------------------
\* Answers

\* The answer of fetch i arrives, and the handler that awaited it goes on.
Arrives(i, kind, answer) ==
    /\ fetches[i].kind = kind /\ fetches[i].answer = answer
    /\ overtaken' = (overtaken \/ \E j \in 1 .. i - 1 : fetches[j].kind = kind)

Rest(i) == RemoveAt(fetches, i)

\* loadProjects: the select takes the project of the URL.  The tasks page loads its
\* table, the runs page the names of tasks first.
ShowProjects(i) ==
    /\ Arrives(i, "projects", "ok")
    /\ listed' = TRUE /\ choice' = url
    /\ IF page = "tasks"
         THEN Load(page, url, Rest(i))
         ELSE /\ fetches' = Append(Rest(i), Request("labels", Null, Null))
              /\ url' = Null
              /\ UNCHANGED <<table, flash>>
    /\ UNCHANGED <<tasks, session, page, form, detail, unseen>>

\* Nobody asks for the projects again; what the table shows stays.
ProjectsFail(i) ==
    /\ Arrives(i, "projects", "failed")
    /\ flash' = TRUE
    /\ fetches' = Rest(i)
    /\ UNCHANGED <<tasks, session, place, table, form, detail, unseen>>

\* Names that cannot be had are done without.
LabelsSettle(i) ==
    /\ \E answer \in {"ok", "failed"} : Arrives(i, "labels", answer)
    /\ Load(page, choice, Rest(i))
    /\ UNCHANGED <<tasks, session, page, listed, choice, form, detail, unseen>>

\* Mutant of ListFails: there is no catch.
ListFailsSilently(i) ==
    /\ Arrives(i, "list", "failed")
    /\ fetches' = Rest(i)
    /\ UNCHANGED <<tasks, session, place, table, flash, form, detail, unseen>>

ListFails(i) ==
    /\ Arrives(i, "list", "failed")
    /\ table' = [Nothing EXCEPT !.shows = "failed"] /\ flash' = TRUE
    /\ fetches' = Rest(i)
    /\ UNCHANGED <<tasks, session, place, form, detail, unseen>>

\* renderTasks looks at the select again, renderRuns at nothing.
ShowList(i) ==
    /\ Arrives(i, "list", "ok")
    /\ table' = IF page = "tasks" /\ choice = Null THEN Nothing
                ELSE [shows |-> "rows", of |-> fetches[i].of, rows |-> fetches[i].data]
    /\ fetches' = Rest(i)
    /\ UNCHANGED <<tasks, session, place, flash, form, detail, unseen>>

Others(i, kinds) == \E j \in DOMAIN fetches \ {i} : fetches[j].kind \in kinds

\* Mutant of OpenForm: the task's id is not put into the form.
OpenWithoutId(i) ==
    /\ Arrives(i, "task", "ok")
    /\ \E c \in fetches[i].data : form' = [id |-> Null, row |-> c.row, calm |-> TRUE]
    /\ fetches' = Rest(i)
    /\ UNCHANGED <<tasks, session, place, table, flash, detail, unseen>>

\* openEditDialog fills the form even when it is open for another task.
OpenForm(i) ==
    /\ Arrives(i, "task", "ok")
    /\ \E c \in fetches[i].data :
         form' = [id |-> c.id, row |-> c.row, calm |-> ~Others(i, {"task", "save"})]
    /\ fetches' = Rest(i)
    /\ UNCHANGED <<tasks, session, place, table, flash, detail, unseen>>

\* Mutant of Patch: the table is not loaded again.
PatchOnly(i) ==
    \E kind \in {"toggle", "save"} :
      /\ Arrives(i, kind, "ok")
      /\ form' = IF kind = "save" THEN Null ELSE form
      /\ fetches' = Rest(i)
      /\ UNCHANGED <<tasks, session, place, table, flash, detail, unseen>>

\* A PATCH has succeeded: a save closes the dialog, whatever it is open for by now;
\* the list is loaded again for the project that is selected by now.
Patch(i) ==
    \E kind \in {"toggle", "save"} :
      /\ Arrives(i, kind, "ok")
      /\ form' = IF kind = "save" THEN Null ELSE form
      /\ Load(page, choice, Rest(i))
      /\ UNCHANGED <<tasks, session, page, listed, choice, detail, unseen>>

\* Fields that arrive after the dialog was closed are not seen.
ShowRun(i) ==
    /\ Arrives(i, "run", "ok")
    /\ detail' = IF detail = Null THEN Null ELSE [detail EXCEPT !.fields = fetches[i].of]
    /\ fetches' = Append(Rest(i), Request("log", fetches[i].of, Null))
    /\ UNCHANGED <<tasks, session, place, table, flash, form, unseen>>

\* The dialog that is open closes.
RunFails(i) ==
    /\ Arrives(i, "run", "failed")
    /\ detail' = Null /\ flash' = TRUE
    /\ fetches' = Rest(i)
    /\ UNCHANGED <<tasks, session, place, table, form, unseen>>

\* The log, or why there is none.
ShowLog(i) ==
    /\ \E answer \in {"ok", "failed"} : Arrives(i, "log", answer)
    /\ detail' = IF detail = Null THEN Null ELSE [detail EXCEPT !.log = fetches[i].of]
    /\ fetches' = Rest(i)
    /\ UNCHANGED <<tasks, session, place, table, flash, form, unseen>>

\* A message and nothing else; that of a save is inside the dialog.
OtherFails(i) ==
    /\ \E kind \in {"task", "toggle", "save"} :
         Arrives(i, kind, "failed") /\ flash' = (flash \/ kind # "save")
    /\ fetches' = Rest(i)
    /\ UNCHANGED <<tasks, session, place, table, form, detail, unseen>>

\* 401, or the logout was answered or lost: the browser leaves for the login page.
Leave(i) ==
    /\ \/ fetches[i].answer = "unauthorized"
       \/ fetches[i].kind = "logout" /\ fetches[i].answer # Null
    /\ page' = "login" /\ url' = Null /\ listed' = FALSE /\ choice' = Null
    /\ table' = Nothing /\ flash' = FALSE
    /\ form' = Null /\ detail' = Null /\ fetches' = <<>> /\ overtaken' = FALSE
    /\ UNCHANGED <<tasks, session, unseen>>

-----------------------------------------------------------------------------

Operator ==
    \/ \E pg \in {"tasks", "runs"} : Visit(pg)
    \/ Login
    \/ \E project \in Projects \cup {Null} : Select(project)
    \/ \E c \in table.rows : ClickEdit(c) \/ ClickToggle(c)
    \/ \E row \in Row : Type(row)
    \/ Submit \/ CloseDialog \/ Logout
    \/ \E r \in Runs : ClickView(r)

Next ==
    \/ Operator \/ SessionEnds \/ OtherEdit
    \/ \E i \in DOMAIN fetches :
         \/ Serve(i) \/ ServeNot(i) \/ Refuse(i)
         \/ ShowProjects(i) \/ ProjectsFail(i) \/ LabelsSettle(i)
         \/ ShowList(i) \/ ListFails(i) \/ OpenForm(i) \/ Patch(i) \/ OtherFails(i)
         \/ ShowRun(i) \/ RunFails(i) \/ ShowLog(i) \/ Leave(i)

Spec == Init /\ [][Next]_vars

-----------------------------------------------------------------------------
\* Properties

InFlight(kinds) == \E i \in DOMAIN fetches : fetches[i].kind \in kinds

\* While the table says "Loading..." somebody is about to replace it, or an error is
\* shown: after failures, quick clicks and reloads that cross too, and while the
\* projects a page starts with are on their way (loadProjects, loadTasks, loadRuns).
\* An error may leave the text where it is: that of /projects does, on the runs page.
NoSilentLoading ==
    table.shows = "loading" => flash \/ InFlight({"projects", "labels", "list"})

\* When answers of one kind arrive in the order they were asked for and none is
\* outstanding, the page shows what was asked for last: the rows of the project that
\* is selected, as they are on the server unless someone else changed them or the
\* answer of a change was lost; and in the run dialog the fields and the log of
\* the run it is for.  Nothing in the pages makes up for answers that cross.
SettlesAsAsked ==
    /\ ~overtaken /\ ~InFlight({"list", "toggle", "save"}) /\ table.shows = "rows" =>
         /\ table.of = choice
         /\ page = "tasks" /\ ~unseen => table.rows = RowsOf(choice)
    /\ ~overtaken /\ ~InFlight({"run", "log"}) /\ detail # Null =>
         detail.fields = detail.id /\ detail.log = detail.id

DialogStep ==
    form # Null /\ form.calm /\ form' # form =>
        \/ form' = Null /\ (InFlight({"save"}) \/ page' = "login")
        \/ CloseDialog
        \/ \E row \in Row : Type(row)
        \/ \E pg \in {"tasks", "runs"} : Visit(pg)

\* What is typed into the task dialog is lost to nobody's answer but that of a save
\* sent from it, or to leaving the page: a dialog opened with no other task and no
\* save on the way is not filled again, nor closed, behind the operator's back
\* (openEditDialog, saveTask).  Nothing makes up for a second Edit clicked before
\* the first dialog opened, or a dialog opened while an older save was on its way.
TypedTextStays == [][DialogStep]_vars
=============================================================================
