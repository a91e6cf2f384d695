----------------------------- MODULE WebUIProofs ----------------------------
(***************************************************************************)
(* What a tab of the web UI shows, for every set of projects, tasks, runs  *)
(* and texts, and any number of fetches in flight.                         *)
(***************************************************************************)
EXTENDS WebUI, SequenceTheorems, TLAPS

-----------------------------------------------------------------------------
(* Fetches in flight, by kind: which there are, and which was sent last.     *)

Has(s, kinds) == \E i \in DOMAIN s : s[i].kind \in kinds

LastOf(s, kind, f) ==
    \E i \in DOMAIN s : /\ s[i] = f /\ f.kind = kind
                        /\ \A j \in DOMAIN s : j > i => s[j].kind # kind

Member(s, f) == \E i \in DOMAIN s : s[i] = f

\* The projects are asked for first, and once.
ProjectsFirst(s) == \A i \in DOMAIN s : s[i].kind = "projects" => i = 1

\* A fetch that is sent is the last of its kind and changes no other.
LEMMA Appended ==
    ASSUME NEW S, NEW s \in Seq(S), NEW g \in S
    PROVE  /\ Append(s, g) \in Seq(S) /\ Len(Append(s, g)) = Len(s) + 1
           /\ \A f : Member(Append(s, g), f) <=> Member(s, f) \/ f = g
           /\ \A kinds : Has(Append(s, g), kinds) <=> Has(s, kinds) \/ g.kind \in kinds
           /\ \A kind, f : LastOf(Append(s, g), kind, f) =>
                IF g.kind = kind THEN f = g ELSE LastOf(s, kind, f)
           /\ ProjectsFirst(s) /\ g.kind # "projects" => ProjectsFirst(Append(s, g))
<1> DEFINE r == Append(s, g)
<1>1. /\ r \in Seq(S) /\ Len(r) = Len(s) + 1 /\ Len(s) \in Nat
      /\ DOMAIN r = 1 .. Len(s) + 1 /\ DOMAIN s = 1 .. Len(s)
      /\ r[Len(s) + 1] = g /\ \A i \in 1 .. Len(s) : r[i] = s[i]
  BY LenProperties
<1> HIDE DEF r
<1>2. \A f : Member(r, f) <=> Member(s, f) \/ f = g
  BY <1>1 DEF Member
<1>3. \A kinds : Has(r, kinds) <=> Has(s, kinds) \/ g.kind \in kinds
  BY <1>1 DEF Has
<1>4. ASSUME NEW kind, NEW f, LastOf(r, kind, f)
      PROVE  IF g.kind = kind THEN f = g ELSE LastOf(s, kind, f)
  <2>1. PICK i \in 1 .. Len(s) + 1 :
          r[i] = f /\ f.kind = kind /\ \A j \in 1 .. Len(s) + 1 : j > i => r[j].kind # kind
    BY <1>1, <1>4 DEF LastOf
  <2>2. CASE i = Len(s) + 1
    BY <1>1, <2>1, <2>2
  <2>3. CASE i \in 1 .. Len(s)
    <3>1. g.kind # kind
      BY <1>1, <2>1, <2>3
    <3>2. s[i] = f /\ \A j \in 1 .. Len(s) : j > i => s[j].kind # kind
      BY <1>1, <2>1, <2>3
    <3> QED
      BY <1>1, <2>1, <2>3, <3>1, <3>2 DEF LastOf
  <2> QED
    BY <1>1, <2>2, <2>3
<1>5. ProjectsFirst(s) /\ g.kind # "projects" => ProjectsFirst(r)
  BY <1>1 DEF ProjectsFirst
<1> QED
  BY <1>1, <1>2, <1>3, <1>4, <1>5 DEF r

\* What taking the i-th out of a sequence leaves.
LEMMA RemovedAt ==
    ASSUME NEW S, NEW s \in Seq(S), NEW i \in DOMAIN s
    PROVE  /\ RemoveAt(s, i) \in Seq(S) /\ Len(RemoveAt(s, i)) = Len(s) - 1
           /\ \A j \in 1 .. Len(s) - 1 : RemoveAt(s, i)[j] = IF j < i THEN s[j] ELSE s[j + 1]
<1> DEFINE a == SubSeq(s, 1, i - 1)
           b == SubSeq(s, i + 1, Len(s))
<1>1. Len(s) \in Nat /\ DOMAIN s = 1 .. Len(s) /\ \A j \in 1 .. Len(s) : s[j] \in S
  BY LenProperties, ElementOfSeq
<1>2. a \in Seq(S) /\ Len(a) = i - 1 /\ \A j \in 1 .. i - 1 : a[j] = s[j]
  <2>1. \A j \in 1 .. i - 1 : s[j] \in S
    BY <1>1
  <2>2. /\ a \in Seq(S) /\ Len(a) = IF 1 <= i - 1 THEN i - 1 - 1 + 1 ELSE 0
        /\ \A j \in 1 .. i - 1 - 1 + 1 : a[j] = s[1 + j - 1]
    BY <1>1, <2>1, SubSeqProperties
  <2> QED
    BY <1>1, <2>2
<1>3. b \in Seq(S) /\ Len(b) = Len(s) - i /\ \A j \in 1 .. Len(s) - i : b[j] = s[i + j]
  <2>1. \A j \in i + 1 .. Len(s) : s[j] \in S
    BY <1>1
  <2>2. /\ b \in Seq(S) /\ Len(b) = IF i + 1 <= Len(s) THEN Len(s) - (i + 1) + 1 ELSE 0
        /\ \A j \in 1 .. Len(s) - (i + 1) + 1 : b[j] = s[i + 1 + j - 1]
    BY <1>1, <2>1, SubSeqProperties
  <2>3. Len(b) = Len(s) - i
    BY <1>1, <2>2
  <2>4. ASSUME NEW j \in 1 .. Len(s) - i PROVE b[j] = s[i + j]
    <3>1. j \in 1 .. Len(s) - (i + 1) + 1 /\ i + 1 + j - 1 = i + j
      BY <1>1
    <3> HIDE DEF b
    <3> QED
      BY <2>2, <3>1
  <2> QED
    BY <2>2, <2>3, <2>4
<1> HIDE DEF a, b
<1>4. Len(a) + Len(b) = Len(s) - 1
  BY <1>1, <1>2, <1>3
<1>5. /\ a \o b \in Seq(S) /\ Len(a \o b) = Len(a) + Len(b)
      /\ \A j \in 1 .. Len(a) + Len(b) : (a \o b)[j] = IF j <= Len(a) THEN a[j] ELSE b[j - Len(a)]
  BY <1>2, <1>3, ConcatProperties
<1>6. ASSUME NEW j \in 1 .. Len(s) - 1 PROVE (a \o b)[j] = IF j < i THEN s[j] ELSE s[j + 1]
  <2>1. (a \o b)[j] = IF j <= i - 1 THEN a[j] ELSE b[j - (i - 1)]
    BY <1>2, <1>4, <1>5
  <2>2. CASE j < i
    <3>1. j \in 1 .. i - 1 /\ j <= i - 1
      BY <1>1, <2>2
    <3> QED
      BY <1>2, <2>1, <2>2, <3>1
  <2>3. CASE ~(j < i)
    <3>1. /\ j - (i - 1) \in 1 .. Len(s) - i /\ ~(j <= i - 1)
          /\ i + (j - (i - 1)) = j + 1
      BY <1>1, <2>3
    <3>2. b[j - (i - 1)] = s[i + (j - (i - 1))]
      BY <1>3, <3>1
    <3> QED
      BY <2>1, <2>3, <3>1, <3>2
  <2> QED
    BY <2>2, <2>3
<1> QED
  BY <1>4, <1>5, <1>6 DEF RemoveAt, a, b

\* An answer that is taken leaves the other fetches, in their order.
LEMMA Removed ==
    ASSUME NEW S, NEW s \in Seq(S), NEW i \in DOMAIN s
    PROVE  LET r == RemoveAt(s, i)
           IN  /\ r \in Seq(S) /\ Len(r) = Len(s) - 1
               /\ \A f : Member(r, f) => Member(s, f)
               /\ \A f : Member(s, f) /\ f # s[i] => Member(r, f)
               /\ \A kinds : Has(r, kinds) => Has(s, kinds)
               /\ \A kinds : Has(r, kinds) => \E j \in DOMAIN s \ {i} : s[j].kind \in kinds
               /\ \A kinds : Has(s, kinds) /\ s[i].kind \notin kinds => Has(r, kinds)
               /\ \A kind, f :
                    LastOf(r, kind, f) /\ (s[i].kind = kind => \A j \in 1 .. i - 1 : s[j].kind # kind)
                    => LastOf(s, kind, f)
               /\ \A kind : ~Has(r, {kind}) /\ s[i].kind = kind => LastOf(s, kind, s[i])
               /\ ProjectsFirst(s) =>
                    ProjectsFirst(r) /\ (s[i].kind = "projects" => ~Has(r, {"projects"}))
<1> DEFINE r == RemoveAt(s, i)
           Old(j) == IF j < i THEN j ELSE j + 1
           New(j) == IF j < i THEN j ELSE j - 1
<1>1. r \in Seq(S) /\ Len(r) = Len(s) - 1
  BY RemovedAt
<1>2. Len(s) \in Nat /\ DOMAIN s = 1 .. Len(s) /\ DOMAIN r = 1 .. Len(s) - 1 /\ i \in 1 .. Len(s)
  BY <1>1, LenProperties
<1>3. \A j \in DOMAIN r : r[j] = s[Old(j)] /\ Old(j) \in DOMAIN s /\ Old(j) # i
  <2> SUFFICES ASSUME NEW j \in 1 .. Len(s) - 1
               PROVE  r[j] = s[Old(j)] /\ Old(j) \in DOMAIN s /\ Old(j) # i
    BY <1>2
  <2>1. r[j] = IF j < i THEN s[j] ELSE s[j + 1]
    BY RemovedAt
  <2> HIDE DEF r
  <2> QED
    BY <1>2, <2>1
<1>4. \A j \in DOMAIN s : j # i => New(j) \in DOMAIN r /\ r[New(j)] = s[j]
  <2> SUFFICES ASSUME NEW j \in DOMAIN s, j # i PROVE New(j) \in DOMAIN r /\ r[New(j)] = s[j]
    OBVIOUS
  <2>1. New(j) \in DOMAIN r /\ Old(New(j)) = j
    BY <1>2
  <2> QED
    BY <1>3, <2>1
<1>5. /\ \A j \in DOMAIN s, k \in DOMAIN r : j # i /\ j > Old(k) => New(j) > k
      /\ \A k \in DOMAIN r : Old(k) = 1 => k = 1
  BY <1>2
<1> HIDE DEF r, Old, New
<1>6. \A f : Member(r, f) => Member(s, f)
  BY <1>3 DEF Member
<1>7. \A f : Member(s, f) /\ f # s[i] => Member(r, f)
  BY <1>4 DEF Member
<1>8. \A kinds : Has(r, kinds) =>
        Has(s, kinds) /\ \E j \in DOMAIN s \ {i} : s[j].kind \in kinds
  BY <1>3 DEF Has
<1>9. \A kinds : Has(s, kinds) /\ s[i].kind \notin kinds => Has(r, kinds)
  BY <1>4 DEF Has
<1>10. ASSUME NEW kind, NEW f, LastOf(r, kind, f),
              s[i].kind = kind => \A j \in 1 .. i - 1 : s[j].kind # kind
       PROVE  LastOf(s, kind, f)
  <2>1. PICK k \in DOMAIN r :
          r[k] = f /\ f.kind = kind /\ \A j \in DOMAIN r : j > k => r[j].kind # kind
    BY <1>10 DEF LastOf
  <2>2. Old(k) \in DOMAIN s /\ s[Old(k)] = f /\ Old(k) # i
    BY <1>3, <2>1
  <2>3. ASSUME NEW j \in DOMAIN s, j > Old(k) PROVE s[j].kind # kind
    <3>1. CASE j # i
      BY <1>4, <1>5, <2>1, <2>3, <3>1
    <3>2. CASE j = i
      <4>1. Old(k) \in 1 .. i - 1
        BY <1>2, <2>2, <2>3, <3>2
      <4> QED
        BY <1>10, <2>1, <2>2, <3>2, <4>1
    <3> QED
      BY <3>1, <3>2
  <2> QED
    BY <2>1, <2>2, <2>3 DEF LastOf
<1>11. ASSUME NEW kind, ~Has(r, {kind}), s[i].kind = kind
       PROVE  LastOf(s, kind, s[i])
  <2>1. \A j \in DOMAIN s : j # i => s[j].kind # kind
    BY <1>4, <1>11 DEF Has
  <2>2. \A j \in DOMAIN s : j > i => j # i
    BY <1>2
  <2> QED
    BY <1>11, <2>1, <2>2 DEF LastOf
<1>12. ASSUME ProjectsFirst(s)
       PROVE  ProjectsFirst(r) /\ (s[i].kind = "projects" => ~Has(r, {"projects"}))
  <2>1. ProjectsFirst(r)
    BY <1>3, <1>5, <1>12 DEF ProjectsFirst
  <2>2. s[i].kind = "projects" => ~Has(r, {"projects"})
    BY <1>3, <1>12 DEF ProjectsFirst, Has
  <2> QED
    BY <2>1, <2>2
<1> QED
  BY <1>1, <1>6, <1>7, <1>8, <1>9, <1>10, <1>11, <1>12 DEF r

-----------------------------------------------------------------------------
(* The inductive invariant.                                                  *)

Sent == {fetches[i] : i \in DOMAIN fetches}

\* A fetch is about a thing of its kind.
Fits(f) ==
    /\ f.kind \in {"task", "toggle", "save"} => f.of \in Tasks
    /\ Patches(f) => f.body \in Row
    /\ f.kind = "list" => f.of \in Projects \cup {Null}
    /\ f.kind \in {"run", "log"} => f.of \in Runs

FetchesFit == \A f \in Sent : Fits(f)

\* A change has succeeded, and the page is about to load the list again.
Told == \E f \in Sent : Patches(f) /\ f.answer = "ok"

Selected == ~(page = "tasks" /\ choice = Null)

AsSelected(of, rows) ==
    /\ of = choice
    /\ page = "tasks" /\ ~unseen => rows = RowsOf(choice) \/ Told

NoRowsUnselected == ~Selected => table.shows # "rows"

\* The list asked for last is that of the project that is selected ...
LastListFits ==
    ~overtaken /\ Selected =>
        \A f \in Sent : LastOf(fetches, "list", f) =>
            f.of = choice /\ (f.answer = "ok" => AsSelected(f.of, f.data))

\* ... and so is the one shown, when no other is to come.
ShownListFits ==
    ~overtaken /\ ~InFlight({"list"}) /\ table.shows = "rows" => AsSelected(table.of, table.rows)

\* The run asked for last is that of the dialog, and then the log asked for last; so
\* are those shown, when no other is to come.
LastRunFits ==
    ~overtaken /\ detail # Null =>
        \A f \in Sent : LastOf(fetches, "run", f) => f.of = detail.id

ShownRunFits ==
    ~overtaken /\ detail # Null /\ ~InFlight({"run"}) =>
        /\ detail.fields = detail.id
        /\ \A f \in Sent : LastOf(fetches, "log", f) => f.of = detail.id
        /\ ~InFlight({"log"}) => detail.log = detail.id

\* Before the projects are listed none is chosen, and their answer is still to come or
\* has failed; a table loaded by then has made the page forget what the URL says.
ListedOnce ==
    /\ ProjectsFirst(fetches)
    /\ listed => ~InFlight({"projects"})
    /\ ~listed => choice = Null

UrlForgotten == ~listed /\ (table.shows = "rows" \/ InFlight({"list"})) => url = Null

\* No task is on its way to a dialog that was opened when none was.
CalmForm == form # Null /\ form.calm => ~InFlight({"task"})

\* Nothing is in flight on the login page.
LoginBare == page = "login" => form = Null /\ fetches = <<>>

TypeInv == TypeOK /\ FetchesFit
PlaceInv == ListedOnce /\ UrlForgotten
FormInv == CalmForm /\ LoginBare
TableInv == NoSilentLoading /\ NoRowsUnselected /\ LastListFits /\ ShownListFits
DetailInv == LastRunFits /\ ShownRunFits

IInv == TypeInv /\ PlaceInv /\ FormInv /\ TableInv /\ DetailInv

\* With nothing in flight the invariant says what the page shows.
LEMMA FitSettles == TableInv /\ DetailInv => SettlesAsAsked
<1> SUFFICES ASSUME TableInv, DetailInv PROVE SettlesAsAsked
  OBVIOUS
<1>1. ASSUME ~overtaken, ~InFlight({"list", "toggle", "save"}), table.shows = "rows"
      PROVE  table.of = choice /\ (page = "tasks" /\ ~unseen => table.rows = RowsOf(choice))
  <2>1. ~InFlight({"list"}) /\ ~Told
    BY <1>1 DEF InFlight, Told, Sent, Patches
  <2> QED
    BY <1>1, <2>1 DEF TableInv, ShownListFits, AsSelected
<1>2. ASSUME ~overtaken, ~InFlight({"run", "log"}), detail # Null
      PROVE  detail.fields = detail.id /\ detail.log = detail.id
  <2>1. ~InFlight({"run"}) /\ ~InFlight({"log"})
    BY <1>2 DEF InFlight
  <2> QED
    BY <1>2, <2>1 DEF DetailInv, ShownRunFits
<1> QED
  BY <1>1, <1>2 DEF SettlesAsAsked

\* Before a page is opened nothing is in flight and nothing shows.
LEMMA InitIInv == Init => IInv
<1> SUFFICES ASSUME Init PROVE IInv
  OBVIOUS
<1>1. Sent = {}
  BY DEF Init, Sent
<1>2. Nothing \in Table /\ Nothing.shows = "nothing"
  BY DEF Nothing, Table
<1>3. TypeOK
  <2>1. fetches \in Seq(Fetch) /\ Len(fetches) <= MaxFetches
    <3>1. <<>> \in Seq(Fetch) /\ Len(<<>>) = 0
      BY EmptySeq
    <3> QED
      BY <3>1, WebUIAssumption DEF Init
  <2> QED
    BY <1>2, <2>1 DEF Init, TypeOK
<1>4. FetchesFit /\ PlaceInv /\ FormInv
  BY <1>1, <1>2
  DEF Init, FetchesFit, PlaceInv, FormInv, ListedOnce, ProjectsFirst, UrlForgotten, CalmForm, LoginBare,
      InFlight
<1>5. TableInv /\ DetailInv
  BY <1>1, <1>2
  DEF Init, TableInv, DetailInv, NoSilentLoading, NoRowsUnselected, LastListFits, ShownListFits,
      LastRunFits, ShownRunFits
<1> QED
  BY <1>3, <1>4, <1>5 DEF IInv, TypeInv

-----------------------------------------------------------------------------
(* Types.                                                                    *)

Typed(s) == s \in Seq(Fetch) /\ Len(s) <= MaxFetches /\ \A f : Member(s, f) => Fits(f)

\* The fetches in flight, one by one and as a sequence,
LEMMA NowTyped ==
    ASSUME TypeInv
    PROVE  /\ Typed(fetches) /\ DOMAIN fetches = 1 .. Len(fetches) /\ Len(fetches) \in Nat
           /\ \A i \in DOMAIN fetches : fetches[i] \in Fetch /\ Fits(fetches[i])
BY LenProperties, ElementOfSeq DEF TypeInv, TypeOK, FetchesFit, Typed, Member, Sent

\* and after a step.
LEMMA NextTyped ==
    ASSUME Typed(fetches')
    PROVE  fetches' \in Seq(Fetch) /\ Len(fetches') <= MaxFetches /\ FetchesFit'
BY DEF Typed, Member, FetchesFit, Sent, Fits, Patches

\* A request is a fetch without an answer.
LEMMA Requested ==
    ASSUME NEW kind \in Kind, NEW of \in Projects \cup Tasks \cup Runs \cup {Null},
           NEW body \in Row \cup {Null}
    PROVE  LET f == Request(kind, of, body)
           IN  f \in Fetch /\ f.kind = kind /\ f.of = of /\ f.body = body /\ f.answer = Null
BY DEF Request, Fetch

WithAnswer(f, answer, data) == [f EXCEPT !.answer = answer, !.data = data]

\* Its answer leaves what was asked as it was.
LEMMA Answered ==
    ASSUME NEW f \in Fetch, NEW answer \in {"ok", "failed", "unauthorized"},
           NEW data \in SUBSET RowCopy
    PROVE  LET e == WithAnswer(f, answer, data)
           IN  /\ e \in Fetch /\ e.kind = f.kind /\ e.of = f.of /\ e.body = f.body
               /\ e.answer = answer /\ e.data = data
BY DEF Fetch, WithAnswer

\* An answer of the server goes to its fetch.
LEMMA AnswerStep ==
    ASSUME TypeInv, NEW i \in DOMAIN fetches, NEW answer \in {"ok", "failed", "unauthorized"},
           NEW data \in SUBSET RowCopy, Answer(i, answer, data)
    PROVE  fetches' = [fetches EXCEPT ![i] = WithAnswer(fetches[i], answer, data)]
BY NowTyped DEF Answer, Typed, WithAnswer

\* An answer from the server changes its own fetch only.
LEMMA Changed ==
    ASSUME TypeInv, NEW i \in DOMAIN fetches, NEW answer \in {"ok", "failed", "unauthorized"},
           NEW data \in SUBSET RowCopy, Answer(i, answer, data),
           NEW e, e = WithAnswer(fetches[i], answer, data)
    PROVE  /\ fetches[i] \in Fetch /\ e \in Fetch /\ e.kind = fetches[i].kind
           /\ e.of = fetches[i].of /\ e.body = fetches[i].body /\ e.answer = answer /\ e.data = data
           /\ fetches' \in Seq(Fetch) /\ Len(fetches') = Len(fetches)
           /\ Member(fetches', e)
           /\ \A f : Member(fetches', f) => Member(fetches, f) \/ f = e
           /\ \A f : Member(fetches, f) /\ f # fetches[i] => Member(fetches', f)
           /\ \A kinds : Has(fetches', kinds) <=> Has(fetches, kinds)
           /\ \A kind, f : LastOf(fetches', kind, f) =>
                LastOf(fetches, kind, f) \/ (f = e /\ LastOf(fetches, kind, fetches[i]))
           /\ ProjectsFirst(fetches) => ProjectsFirst(fetches')
<1>a. fetches' = [fetches EXCEPT ![i] = e] /\ fetches \in Seq(Fetch)
  BY AnswerStep, NowTyped DEF Typed
<1>b. /\ fetches[i] \in Fetch /\ e \in Fetch /\ e.kind = fetches[i].kind
      /\ e.of = fetches[i].of /\ e.body = fetches[i].body /\ e.answer = answer /\ e.data = data
  BY NowTyped, Answered
<1>1. fetches' \in Seq(Fetch) /\ Len(fetches') = Len(fetches) /\ DOMAIN fetches' = DOMAIN fetches
  BY <1>a, <1>b, LenProperties, ExceptSeq
<1>2. fetches'[i] = e /\ \A j \in DOMAIN fetches : j # i => fetches'[j] = fetches[j]
  BY <1>a, <1>b
<1>3. \A j \in DOMAIN fetches : fetches'[j].kind = fetches[j].kind
  BY <1>2, <1>b
<1>4. Member(fetches', e) /\ \A f : Member(fetches', f) => Member(fetches, f) \/ f = e
  BY <1>1, <1>2 DEF Member
<1>5. \A f : Member(fetches, f) /\ f # fetches[i] => Member(fetches', f)
  BY <1>1, <1>2 DEF Member
<1>6. \A kinds : Has(fetches', kinds) <=> Has(fetches, kinds)
  BY <1>1, <1>3 DEF Has
<1>7. ASSUME NEW kind, NEW f, LastOf(fetches', kind, f)
      PROVE  LastOf(fetches, kind, f) \/ (f = e /\ LastOf(fetches, kind, fetches[i]))
  <2>1. PICK k \in DOMAIN fetches :
          fetches'[k] = f /\ f.kind = kind /\ \A j \in DOMAIN fetches : j > k => fetches[j].kind # kind
    BY <1>1, <1>3, <1>7 DEF LastOf
  <2>2. CASE k = i
    BY <1>2, <1>3, <2>1, <2>2 DEF LastOf
  <2>3. CASE k # i
    BY <1>2, <2>1, <2>3 DEF LastOf
  <2> QED
    BY <2>2, <2>3
<1>8. ProjectsFirst(fetches) => ProjectsFirst(fetches')
  BY <1>1, <1>3 DEF ProjectsFirst
<1> QED
  BY <1>1, <1>b, <1>4, <1>5, <1>6, <1>7, <1>8

\* Sending keeps the types, while there is room for one more,
LEMMA TypedAppend ==
    ASSUME NEW s, Typed(s), Len(s) < MaxFetches, NEW g \in Fetch, Fits(g)
    PROVE  Typed(Append(s, g))
<1>1. s \in Seq(Fetch) /\ Len(s) \in Nat
  BY LenProperties DEF Typed
<1>2. Append(s, g) \in Seq(Fetch) /\ Len(Append(s, g)) = Len(s) + 1
  BY <1>1, Appended
<1>3. \A f : Member(Append(s, g), f) <=> Member(s, f) \/ f = g
  BY <1>1, Appended
<1> QED
  BY <1>1, <1>2, <1>3, WebUIAssumption DEF Typed

\* and receiving makes room.
LEMMA TypedRemove ==
    ASSUME NEW s, Typed(s), NEW i \in DOMAIN s
    PROVE  Typed(RemoveAt(s, i)) /\ Len(RemoveAt(s, i)) < MaxFetches
<1>1. s \in Seq(Fetch) /\ Len(s) \in Nat
  BY LenProperties DEF Typed
<1>2. RemoveAt(s, i) \in Seq(Fetch) /\ Len(RemoveAt(s, i)) = Len(s) - 1
  BY <1>1, RemovedAt
<1>3. \A f : Member(RemoveAt(s, i), f) => Member(s, f)
  BY <1>1, Removed
<1> QED
  BY <1>1, <1>2, <1>3, WebUIAssumption DEF Typed

\* load(): "Loading..." and a list on its way, or nothing if no project is selected.
LEMMA TypedLoad ==
    ASSUME NEW pg, NEW project \in Projects \cup {Null}, NEW others, Typed(others),
           Len(others) < MaxFetches, Load(pg, project, others)
    PROVE  table' \in Table /\ Typed(fetches') /\ flash' = FALSE /\ url' = Null
<1>1. Nothing \in Table /\ Loading \in Table
  BY DEF Nothing, Loading, Table
<1>2. Request("list", project, Null) \in Fetch /\ Fits(Request("list", project, Null))
  BY Requested DEF Kind, Fits, Patches
<1> QED
  BY <1>1, <1>2, TypedAppend DEF Load

\* Opening a page drops what was in flight.
LEMMA TypedOpen ==
    ASSUME NEW pg \in {"tasks", "runs"}, OpenPage(pg)
    PROVE  /\ page' = pg /\ url' \in Projects \cup {Null} /\ choice' = Null /\ table' \in Table
           /\ Typed(fetches') /\ listed' = FALSE /\ flash' = FALSE
           /\ form' = Null /\ detail' = Null /\ overtaken' = FALSE
<1>1. Typed(<<>>) /\ Len(<<>>) < MaxFetches
  BY EmptySeq, WebUIAssumption DEF Typed, Member
<1>2. Request("projects", Null, Null) \in Fetch /\ Fits(Request("projects", Null, Null))
  BY Requested DEF Kind, Fits, Patches
<1>3. Append(<<>>, Request("projects", Null, Null)) = <<Request("projects", Null, Null)>>
  OBVIOUS
<1>4. Typed(<<Request("projects", Null, Null)>>)
  BY <1>1, <1>2, <1>3, TypedAppend
<1>5. Nothing \in Table /\ Loading \in Table
  BY DEF Nothing, Loading, Table
<1> QED
  BY <1>4, <1>5 DEF OpenPage

\* The operator's clicks keep the types.
LEMMA OperatorTypes ==
    ASSUME TypeInv, Operator
    PROVE  TypeInv'
<1> USE DEF TypeInv, TypeOK
<1>1. Typed(fetches)
  BY NowTyped
<1>2. ASSUME NEW pg \in {"tasks", "runs"}, OpenPage(pg), tasks' = tasks, unseen' = unseen,
             session' \in BOOLEAN
      PROVE  TypeInv'
  BY <1>2, TypedOpen, NextTyped
<1>3. ASSUME NEW project \in Projects \cup {Null}, Select(project) PROVE TypeInv'
  <2>1. Len(fetches) < MaxFetches
    BY <1>3, LenProperties, WebUIAssumption DEF Select, Busy
  <2> QED
    BY <1>1, <1>3, <2>1, TypedLoad, NextTyped DEF Select
<1>4. ASSUME NEW kind \in Kind, NEW of \in Projects \cup Tasks \cup Runs \cup {Null},
             NEW body \in Row \cup {Null}, Ask(kind, of, body), Fits(Request(kind, of, body))
      PROVE  Typed(fetches')
  <2>1. Len(fetches) < MaxFetches
    BY <1>4, LenProperties, WebUIAssumption DEF Ask, Busy
  <2>2. Request(kind, of, body) \in Fetch
    BY Requested
  <2> QED
    BY <1>1, <1>4, <2>1, <2>2, TypedAppend DEF Ask
<1>5. ASSUME NEW c \in table.rows, ClickEdit(c) \/ ClickToggle(c) PROVE TypeInv'
  <2>1. c \in RowCopy /\ c.id \in Tasks /\ c.row \in Row
    BY DEF Table, RowCopy
  <2>2. [c.row EXCEPT !.enabled = ~@] \in Row
    BY <2>1 DEF Row
  <2>3. /\ Fits(Request("task", c.id, Null))
        /\ Fits(Request("toggle", c.id, [c.row EXCEPT !.enabled = ~@]))
    BY <2>1, <2>2, Requested DEF Fits, Kind, Patches
  <2>4. Typed(fetches')
    BY <1>4, <1>5, <2>1, <2>2, <2>3 DEF ClickEdit, ClickToggle, Kind
  <2> QED
    BY <1>5, <2>4, NextTyped DEF ClickEdit, ClickToggle, place
<1>6. ASSUME NEW row \in Row, Type(row) PROVE TypeInv'
  <2>1. form \in Form /\ form' = [form EXCEPT !.row = row]
    BY <1>6 DEF Type
  <2>2. form' \in Form
    BY <2>1 DEF Form
  <2> QED
    BY <1>1, <1>6, <2>2, NextTyped, WebUIAssumption DEF Type, place
<1>7. CASE Submit
  <2>1. form \in Form /\ form.id \in Tasks /\ form.row \in Row
    BY <1>7 DEF Submit, Form
  <2>2. Fits(Request("save", form.id, form.row))
    BY <2>1, Requested DEF Fits, Kind
  <2>3. Typed(fetches')
    BY <1>4, <1>7, <2>1, <2>2 DEF Submit, Kind
  <2> QED
    BY <1>7, <2>3, NextTyped DEF Submit, place
<1>8. CASE CloseDialog
  BY <1>1, <1>8, NextTyped DEF CloseDialog, place
<1>9. ASSUME NEW r \in Runs, ClickView(r) PROVE TypeInv'
  <2>1. [id |-> r, fields |-> Null, log |-> Null] \in Detail
    BY DEF Detail
  <2>2. Fits(Request("run", r, Null))
    BY Requested DEF Fits, Kind, Patches
  <2>3. Typed(fetches')
    BY <1>4, <1>9, <2>2 DEF ClickView, Kind
  <2> QED
    BY <1>9, <2>1, <2>3, NextTyped DEF ClickView, place
<1>10. CASE Logout
  <2>1. Fits(Request("logout", Null, Null))
    BY DEF Request, Fits, Patches
  <2>2. Typed(fetches')
    BY <1>4, <1>10, <2>1 DEF Logout, Kind
  <2> QED
    BY <1>10, <2>2, NextTyped DEF Logout, place
<1> QED
  BY <1>2, <1>3, <1>5, <1>6, <1>7, <1>8, <1>9, <1>10 DEF Operator, Visit, Login

\* The data of an answer are copies of the tasks asked for.
LEMMA AnswersAreCopies ==
    ASSUME TypeInv, NEW f \in Fetch, Fits(f)
    PROVE  /\ f.kind = "task" => {[id |-> f.of, row |-> tasks[f.of]]} \in SUBSET RowCopy
           /\ RowsOf(f.of) \in SUBSET RowCopy
BY DEF TypeInv, TypeOK, Fits, RowsOf, RowCopy

\* So do answers,
LEMMA TypedAnswer ==
    ASSUME TypeInv, NEW i \in DOMAIN fetches, NEW answer \in {"ok", "failed", "unauthorized"},
           NEW data \in SUBSET RowCopy, Answer(i, answer, data)
    PROVE  Typed(fetches')
<1> DEFINE e == WithAnswer(fetches[i], answer, data)
<1>1. /\ fetches[i] \in Fetch /\ Fits(fetches[i])
      /\ Len(fetches) <= MaxFetches /\ \A f : Member(fetches, f) => Fits(f)
  BY NowTyped DEF Typed
<1>2. /\ e \in Fetch /\ e.kind = fetches[i].kind /\ e.of = fetches[i].of /\ e.body = fetches[i].body
      /\ fetches' \in Seq(Fetch) /\ Len(fetches') = Len(fetches)
      /\ \A f : Member(fetches', f) => Member(fetches, f) \/ f = e
  BY Changed
<1> HIDE DEF e
<1>3. Fits(e)
  BY <1>1, <1>2 DEF Fits, Patches
<1> QED
  BY <1>1, <1>2, <1>3 DEF Typed

\* whether served, not served or refused,
LEMMA ServerTypes ==
    ASSUME TypeInv, NEW i \in DOMAIN fetches, Serve(i) \/ ServeNot(i) \/ Refuse(i)
    PROVE  TypeInv'
<1> USE DEF TypeInv, TypeOK
<1>1. CASE ServeNot(i) \/ Refuse(i)
  <2>1. Typed(fetches')
    BY <1>1, TypedAnswer DEF ServeNot, Refuse
  <2> QED
    BY <1>1, <2>1, NextTyped DEF ServeNot, Refuse, place
<1>2. CASE Serve(i)
  <2> DEFINE f == fetches[i]
  <2>1. f \in Fetch /\ Fits(f)
    BY NowTyped
  <2> HIDE DEF f
  <2>2. PICK answer \in {"ok", "failed"}, data \in SUBSET RowCopy : Answer(i, answer, data)
    BY <1>2, <2>1, AnswersAreCopies DEF Serve, f
  <2>3. Typed(fetches')
    BY <2>2, TypedAnswer
  <2>4. tasks' \in [Tasks -> Row]
    <3>1. Patches(f) => /\ f.of \in Tasks /\ tasks[f.of] \in Row /\ f.body \in Row
                        /\ [tasks[f.of] EXCEPT !.enabled = f.body.enabled] \in Row
      BY <2>1 DEF Fits, Patches, Row
    <3>2. Patches(f) => Patched(f) \in [Tasks -> Row]
      BY <3>1 DEF Patched
    <3> QED
      BY <1>2, <3>2 DEF Serve, f
  <2>5. unseen' \in BOOLEAN /\ session' \in BOOLEAN
    BY <1>2 DEF Serve
  <2> QED
    BY <1>2, <2>3, <2>4, <2>5, NextTyped DEF Serve, place
<1> QED
  BY <1>1, <1>2

Arrival(i) ==
    \/ ShowProjects(i) \/ ProjectsFail(i) \/ LabelsSettle(i)
    \/ ShowList(i) \/ ListFails(i) \/ OpenForm(i) \/ Patch(i) \/ OtherFails(i)
    \/ ShowRun(i) \/ RunFails(i) \/ ShowLog(i) \/ Leave(i)

\* and their arrival;
LEMMA ArrivalTypes ==
    ASSUME TypeInv, NEW i \in DOMAIN fetches, Arrival(i)
    PROVE  TypeInv'
<1> USE DEF TypeInv, TypeOK
<1> DEFINE f == fetches[i]
<1>1. f \in Fetch /\ Fits(f)
  BY NowTyped
<1>2. Typed(Rest(i)) /\ Len(Rest(i)) < MaxFetches
  BY NowTyped, TypedRemove DEF Rest
<1> HIDE DEF f
<1>3. \A kind, answer : Arrives(i, kind, answer) => overtaken' \in BOOLEAN
  BY DEF Arrives
<1>4. CASE ShowList(i)
  <2>1. [shows |-> "rows", of |-> f.of, rows |-> f.data] \in Table
    BY <1>1, <1>4 DEF ShowList, Arrives, Fits, Fetch, Table, f
  <2>2. table' \in Table
    BY <1>4, <2>1 DEF ShowList, Nothing, Table, f
  <2> QED
    BY <1>2, <1>3, <1>4, <2>2, NextTyped DEF ShowList, place
<1>5. CASE ListFails(i)
  <2>1. table' \in Table
    BY <1>5 DEF ListFails, Nothing, Table
  <2> QED
    BY <1>2, <1>3, <1>5, <2>1, NextTyped DEF ListFails, place
<1>6. CASE OpenForm(i)
  <2>1. PICK c \in RowCopy, calm \in BOOLEAN : form' = [id |-> c.id, row |-> c.row, calm |-> calm]
    BY <1>1, <1>6 DEF OpenForm, Fetch, f
  <2>2. form' \in Form
    BY <2>1 DEF Form, RowCopy
  <2> QED
    BY <1>2, <1>3, <1>6, <2>2, NextTyped DEF OpenForm, place
<1>7. CASE Patch(i)
  <2>1. Load(page, choice, Rest(i)) /\ form' \in {Null, form} /\ overtaken' \in BOOLEAN
    BY <1>3, <1>7 DEF Patch
  <2>2. table' \in Table /\ Typed(fetches') /\ flash' = FALSE /\ url' = Null
    BY <1>2, <2>1, TypedLoad
  <2> QED
    BY <1>7, <2>1, <2>2, NextTyped DEF Patch
<1>8. CASE OtherFails(i)
  BY <1>2, <1>3, <1>8, NextTyped DEF OtherFails, place
<1>9. CASE ShowRun(i)
  <2>1. f.of \in Runs /\ f.kind = "run"
    BY <1>1, <1>9 DEF ShowRun, Arrives, Fits, f
  <2>2. detail' \in Detail \cup {Null}
    BY <1>9, <2>1 DEF ShowRun, Detail, f
  <2>3. Request("log", f.of, Null) \in Fetch /\ Fits(Request("log", f.of, Null))
    BY <2>1, Requested DEF Fits, Kind, Patches
  <2>4. Typed(fetches')
    BY <1>2, <1>9, <2>3, TypedAppend DEF ShowRun, f
  <2> QED
    BY <1>3, <1>9, <2>2, <2>4, NextTyped DEF ShowRun, place
<1>10. CASE RunFails(i)
  BY <1>2, <1>3, <1>10, NextTyped DEF RunFails, place
<1>11. CASE ShowLog(i)
  <2>1. f.of \in Runs
    BY <1>1, <1>11 DEF ShowLog, Arrives, Fits, f
  <2>2. detail' \in Detail \cup {Null}
    BY <1>11, <2>1 DEF ShowLog, Detail, f
  <2> QED
    BY <1>2, <1>3, <1>11, <2>2, NextTyped DEF ShowLog, place
<1>12. CASE Leave(i)
  <2>1. Typed(<<>>)
    BY EmptySeq, WebUIAssumption DEF Typed, Member
  <2>2. Nothing \in Table
    BY DEF Nothing, Table
  <2> QED
    BY <1>12, <2>1, <2>2, NextTyped DEF Leave
<1>13. CASE ShowProjects(i)
  <2>1. overtaken' \in BOOLEAN
    BY <1>3, <1>13 DEF ShowProjects
  <2>2. CASE page = "tasks"
    <3>1. table' \in Table /\ Typed(fetches') /\ flash' = FALSE /\ url' = Null
      BY <1>2, <1>13, <2>2, TypedLoad DEF ShowProjects
    <3> QED
      BY <1>13, <2>1, <3>1, NextTyped DEF ShowProjects
  <2>3. CASE page # "tasks"
    <3>1. Request("labels", Null, Null) \in Fetch /\ Fits(Request("labels", Null, Null))
      BY DEF Request, Fetch, Fits, Kind, Patches
    <3>2. Typed(fetches')
      BY <1>2, <1>13, <2>3, <3>1, TypedAppend DEF ShowProjects
    <3> QED
      BY <1>13, <2>1, <2>3, <3>2, NextTyped DEF ShowProjects
  <2> QED
    BY <2>2, <2>3
<1>14. CASE ProjectsFail(i)
  BY <1>2, <1>3, <1>14, NextTyped DEF ProjectsFail, place
<1>15. CASE LabelsSettle(i)
  <2>1. table' \in Table /\ Typed(fetches') /\ flash' = FALSE /\ url' = Null
    BY <1>2, <1>15, TypedLoad DEF LabelsSettle
  <2> QED
    BY <1>3, <1>15, <2>1, NextTyped DEF LabelsSettle
<1> QED
  BY <1>4, <1>5, <1>6, <1>7, <1>8, <1>9, <1>10, <1>11, <1>12, <1>13, <1>14, <1>15 DEF Arrival

\* so does every step.
LEMMA TypeStep == TypeInv /\ [Next]_vars => TypeInv'
<1> SUFFICES ASSUME TypeInv, [Next]_vars PROVE TypeInv'
  OBVIOUS
<1> USE DEF TypeInv, TypeOK
<1>1. CASE SessionEnds \/ UNCHANGED vars
  BY <1>1, NowTyped, NextTyped DEF SessionEnds, vars, pageVars, place
<1>2. CASE OtherEdit
  BY <1>2, NowTyped, NextTyped DEF OtherEdit, pageVars, place
<1> QED
  BY <1>1, <1>2, OperatorTypes, ServerTypes, ArrivalTypes DEF Next, Arrival

-----------------------------------------------------------------------------
(* What a step does to the fetches of one kind.                              *)

\* Of this kind no fetch was sent, and none answered or taken out of turn.
Kept(kind) ==
    /\ Has(fetches', {kind}) <=> Has(fetches, {kind})
    /\ ~overtaken' => \A f : LastOf(fetches', kind, f) => LastOf(fetches, kind, f)

\* A fetch that is sent leaves the fetches of other kinds alone.
LEMMA SentKeeps ==
    ASSUME TypeInv, NEW g \in Fetch, fetches' = Append(fetches, g)
    PROVE  /\ \A kind : kind # g.kind => Kept(kind)
           /\ \A kinds : Has(fetches, kinds) => Has(fetches', kinds)
           /\ ProjectsFirst(fetches) /\ g.kind # "projects" => ProjectsFirst(fetches')
           /\ Told => Told'
<1>1. fetches \in Seq(Fetch)
  BY NowTyped DEF Typed
<1>2. /\ \A f : Member(fetches', f) <=> Member(fetches, f) \/ f = g
      /\ \A kinds : Has(fetches', kinds) <=> Has(fetches, kinds) \/ g.kind \in kinds
      /\ \A kind, f : LastOf(fetches', kind, f) =>
           IF g.kind = kind THEN f = g ELSE LastOf(fetches, kind, f)
      /\ ProjectsFirst(fetches) /\ g.kind # "projects" => ProjectsFirst(fetches')
  BY <1>1, Appended
<1>3. Told => Told'
  BY <1>2 DEF Told, Sent, Member, Patches
<1> QED
  BY <1>2, <1>3 DEF Kept

\* One that is taken leaves them, too,
LEMMA TakenKeeps ==
    ASSUME TypeInv, NEW i \in DOMAIN fetches
    PROVE  /\ Rest(i) \in Seq(Fetch)
           /\ \A f : Member(Rest(i), f) => Member(fetches, f)
           /\ \A f : Member(fetches, f) /\ f # fetches[i] => Member(Rest(i), f)
           /\ \A kinds : Has(Rest(i), kinds) =>
                Has(fetches, kinds) /\ \E j \in DOMAIN fetches \ {i} : fetches[j].kind \in kinds
           /\ \A kinds : fetches[i].kind \notin kinds /\ Has(fetches, kinds) => Has(Rest(i), kinds)
           /\ ProjectsFirst(fetches) =>
                /\ ProjectsFirst(Rest(i))
                /\ fetches[i].kind = "projects" => ~Has(Rest(i), {"projects"})
           /\ \A kind : kind # fetches[i].kind =>
                /\ Has(Rest(i), {kind}) <=> Has(fetches, {kind})
                /\ \A f : LastOf(Rest(i), kind, f) => LastOf(fetches, kind, f)
<1>1. fetches \in Seq(Fetch)
  BY NowTyped DEF Typed
<1> QED
  BY <1>1, Removed DEF Rest

\* The fetch that arrives: in turn, the last of those left is the last there was.
LEMMA TakenInTurn ==
    ASSUME TypeInv, NEW i \in DOMAIN fetches, NEW kind, NEW answer, Arrives(i, kind, answer),
           ~overtaken'
    PROVE  /\ \A f : LastOf(Rest(i), kind, f) => LastOf(fetches, kind, f)
           /\ ~Has(Rest(i), {kind}) => LastOf(fetches, kind, fetches[i])
<1>1. fetches \in Seq(Fetch)
  BY NowTyped DEF Typed
<1>2. fetches[i].kind = kind /\ \A j \in 1 .. i - 1 : fetches[j].kind # kind
  BY DEF Arrives
<1> QED
  BY <1>1, <1>2, Removed DEF Rest

\* as a step does that takes one,
LEMMA TakenStepKeeps ==
    ASSUME TypeInv, NEW i \in DOMAIN fetches, fetches' = Rest(i)
    PROVE  /\ \A kind : kind # fetches[i].kind => Kept(kind)
           /\ \A kinds : fetches[i].kind \notin kinds /\ Has(fetches, kinds) => Has(fetches', kinds)
           /\ ~(Patches(fetches[i]) /\ fetches[i].answer = "ok") /\ Told => Told'
<1>1. \A kind : kind # fetches[i].kind => Kept(kind)
  BY TakenKeeps DEF Kept
<1>2. ASSUME ~(Patches(fetches[i]) /\ fetches[i].answer = "ok"), Told PROVE Told'
  <2>1. PICK f : Member(fetches, f) /\ Patches(f) /\ f.answer = "ok"
    BY <1>2 DEF Told, Sent, Member
  <2>2. Member(fetches', f)
    BY <1>2, <2>1, TakenKeeps
  <2> QED
    BY <2>1, <2>2 DEF Told, Sent, Member, Patches
<1> QED
  BY <1>1, <1>2, TakenKeeps

\* or takes one and sends another.
LEMMA TakenAndSentKeeps ==
    ASSUME TypeInv, NEW i \in DOMAIN fetches, NEW g \in Fetch, fetches' = Append(Rest(i), g)
    PROVE  /\ \A kind : kind # fetches[i].kind /\ kind # g.kind => Kept(kind)
           /\ \A kinds : fetches[i].kind \notin kinds /\ Has(fetches, kinds) => Has(fetches', kinds)
           /\ ~(Patches(fetches[i]) /\ fetches[i].answer = "ok") /\ Told => Told'
<1>1. Rest(i) \in Seq(Fetch)
  BY TakenKeeps
<1>2. /\ \A f : Member(fetches', f) <=> Member(Rest(i), f) \/ f = g
      /\ \A kinds : Has(fetches', kinds) <=> Has(Rest(i), kinds) \/ g.kind \in kinds
      /\ \A kind, f : LastOf(fetches', kind, f) =>
           IF g.kind = kind THEN f = g ELSE LastOf(Rest(i), kind, f)
  BY <1>1, Appended
<1>3. \A kind : kind # fetches[i].kind /\ kind # g.kind => Kept(kind)
  BY <1>2, TakenKeeps DEF Kept
<1>4. ASSUME ~(Patches(fetches[i]) /\ fetches[i].answer = "ok"), Told PROVE Told'
  <2>1. PICK f : Member(fetches, f) /\ Patches(f) /\ f.answer = "ok"
    BY <1>4 DEF Told, Sent, Member
  <2>2. Member(fetches', f)
    BY <1>2, <1>4, <2>1, TakenKeeps
  <2> QED
    BY <2>1, <2>2 DEF Told, Sent, Member, Patches
<1>5. \A kinds : fetches[i].kind \notin kinds /\ Has(fetches, kinds) => Has(fetches', kinds)
  BY <1>2, TakenKeeps
<1> QED
  BY <1>3, <1>4, <1>5

-----------------------------------------------------------------------------
(* The table.                                                                *)

Awaited == {"projects", "labels", "list"}

\* A step that takes none of the fetches that end "Loading...", and no error away.
LEMMA LoadingKept ==
    ASSUME NoSilentLoading, table' = table, Has(fetches, Awaited) => Has(fetches', Awaited),
           flash => flash' \/ table.shows # "loading"
    PROVE  NoSilentLoading'
BY DEF NoSilentLoading, InFlight, Has, Awaited

\* A step that leaves the table and the lists alone.
LEMMA TableQuiet ==
    ASSUME TableInv, UNCHANGED <<tasks, page, choice, table, unseen>>, overtaken => overtaken',
           Kept("list"), Told => Told', NoSilentLoading'
    PROVE  TableInv'
<1> USE DEF TableInv
<1>1. InFlight({"list"})' <=> InFlight({"list"})
  BY DEF Kept, Has, InFlight
<1>2. NoRowsUnselected'
  BY DEF NoRowsUnselected, Selected
<1>3. \A of, rows : AsSelected(of, rows) => AsSelected(of, rows)'
  BY DEF AsSelected, RowsOf
<1>4. LastListFits'
  <2> SUFFICES ASSUME ~overtaken', Selected', NEW f \in Sent', LastOf(fetches', "list", f)
               PROVE  f.of = choice /\ (f.answer = "ok" => AsSelected(f.of, f.data)')
    BY DEF LastListFits
  <2>1. LastOf(fetches, "list", f) /\ f \in Sent /\ Selected
    BY DEF Kept, Selected, LastOf, Sent
  <2> QED
    BY <1>3, <2>1 DEF LastListFits
<1>5. ShownListFits'
  BY <1>1, <1>3 DEF ShownListFits
<1> QED
  BY <1>2, <1>4, <1>5

\* A list is asked for, or none without a project: whatever was there before.
LEMMA TableLoads ==
    ASSUME NEW others \in Seq(Fetch), choice' \in Projects \cup {Null}, Load(page', choice', others)
    PROVE  TableInv'
<1> USE DEF TableInv, NoSilentLoading, NoRowsUnselected, LastListFits, ShownListFits
<1>1. CASE page' = "tasks" /\ choice' = Null
  <2>1. table'.shows = "nothing"
    BY <1>1 DEF Load, Nothing
  <2> QED
    BY <1>1, <2>1 DEF Selected
<1>2. CASE ~(page' = "tasks" /\ choice' = Null)
  <2> DEFINE g == Request("list", choice', Null)
  <2>1. table'.shows = "loading" /\ fetches' = Append(others, g)
    BY <1>2 DEF Load, Loading, Nothing
  <2>2. g \in Fetch /\ g.kind = "list" /\ g.of = choice' /\ g.answer = Null
    BY Requested DEF Kind
  <2> HIDE DEF g
  <2>3. /\ Has(fetches', {"list"})
        /\ \A f : LastOf(fetches', "list", f) => f = g
    BY <2>1, <2>2, Appended
  <2>4. InFlight({"list"})' /\ InFlight({"projects", "labels", "list"})'
    BY <2>3 DEF Has, InFlight
  <2> QED
    BY <2>1, <2>2, <2>3, <2>4, WebUIAssumption
<1> QED
  BY <1>1, <1>2

\* A list that the server answers tells the rows it has.
LEMMA TableAnswer ==
    ASSUME TypeInv, TableInv, NEW i \in DOMAIN fetches,
           NEW answer \in {"ok", "failed", "unauthorized"}, NEW data \in SUBSET RowCopy,
           Answer(i, answer, data), fetches[i].answer = Null,
           UNCHANGED <<page, choice, table, flash, overtaken>>, unseen => unseen',
           fetches[i].kind = "list" /\ answer = "ok" /\ page = "tasks" => data = RowsOf(fetches[i].of),
           \/ tasks' = tasks
           \/ unseen'
           \/ Patches(fetches[i]) /\ answer = "ok"
    PROVE  TableInv'
<1> DEFINE g == fetches[i]
           e == WithAnswer(fetches[i], answer, data)
<1> USE DEF TableInv
<1>1. fetches' = [fetches EXCEPT ![i] = e] /\ fetches \in Seq(Fetch) /\ g \in Fetch
  BY AnswerStep, NowTyped DEF Typed
<1>2. e \in Fetch /\ e.kind = g.kind /\ e.of = g.of /\ e.answer = answer /\ e.data = data
  BY <1>1, Answered
<1> HIDE DEF e
<1>3. /\ Member(fetches', e)
      /\ \A f : Member(fetches, f) /\ f # g => Member(fetches', f)
      /\ \A kinds : Has(fetches', kinds) <=> Has(fetches, kinds)
      /\ \A kind, f : LastOf(fetches', kind, f) =>
           LastOf(fetches, kind, f) \/ (f = e /\ LastOf(fetches, kind, g))
  BY Changed DEF e
<1>4. /\ InFlight({"list"})' <=> InFlight({"list"})
      /\ Has(fetches, Awaited) => Has(fetches', Awaited)
  BY <1>3 DEF Has, InFlight
<1>5. Told => Told'
  <2>1. \A f : Member(fetches, f) /\ f.answer = "ok" => Member(fetches', f)
    BY <1>3, WebUIAssumption
  <2> QED
    BY <2>1 DEF Told, Sent, Member, Patches
<1>6. tasks' = tasks \/ unseen' \/ Told'
  <2>1. CASE Patches(g) /\ answer = "ok"
    <3>1. Patches(e)
      BY <1>2, <2>1 DEF Patches
    <3> QED
      BY <1>2, <1>3, <2>1, <3>1 DEF Told, Sent, Member, Patches
  <2> QED
    BY <2>1
<1>7. \A of, rows : AsSelected(of, rows) => AsSelected(of, rows)'
  BY <1>5, <1>6 DEF AsSelected, RowsOf
<1>8. LastListFits'
  <2> SUFFICES ASSUME ~overtaken', Selected', NEW f \in Sent', LastOf(fetches', "list", f)
               PROVE  f.of = choice /\ (f.answer = "ok" => AsSelected(f.of, f.data)')
    BY DEF LastListFits
  <2>1. Selected /\ ~overtaken /\ \A h : LastOf(fetches, "list", h) => h \in Sent
    BY DEF Selected, LastOf, Sent
  <2>2. CASE LastOf(fetches, "list", f)
    BY <1>7, <2>1, <2>2 DEF LastListFits
  <2>3. CASE f = e /\ LastOf(fetches, "list", g)
    <3>1. f.of = choice /\ g.kind = "list"
      BY <1>2, <2>1, <2>3 DEF LastListFits, LastOf
    <3>2. f.answer = "ok" /\ page = "tasks" => f.data = RowsOf(choice) /\ (RowsOf(choice)' = RowsOf(choice) \/ unseen')
      <4>1. ~Patches(g)
        BY <3>1 DEF Patches
      <4> QED
        BY <1>2, <2>3, <3>1, <4>1 DEF RowsOf
    <3> QED
      BY <3>1, <3>2 DEF AsSelected
  <2> QED
    BY <1>3, <2>2, <2>3
<1>9. NoSilentLoading' /\ NoRowsUnselected' /\ ShownListFits'
  BY <1>4, <1>7, LoadingKept DEF NoRowsUnselected, ShownListFits, Selected
<1> QED
  BY <1>8, <1>9

\* Steps that leave the table and the lists alone.
LEMMA TableUntouched ==
    ASSUME TableInv, UNCHANGED <<tasks, pageVars, unseen>>
    PROVE  TableInv'
BY DEF pageVars, place, TableInv, NoSilentLoading, NoRowsUnselected, LastListFits, ShownListFits,
       Selected, AsSelected, RowsOf, Told, Sent, InFlight, LastOf, Patches

\* A list that arrives is shown; it is the last one if no other is to come.
LEMMA TableListArrives ==
    ASSUME TypeInv, TableInv, NEW i \in DOMAIN fetches, ShowList(i) \/ ListFails(i)
    PROVE  TableInv'
<1> DEFINE f == fetches[i]
<1> USE DEF TableInv
<1>1. PICK answer : Arrives(i, "list", answer) /\ f.answer = answer
  BY DEF ShowList, ListFails, Arrives
<1>2. f.kind = "list" /\ f \in Sent /\ (overtaken => overtaken')
  BY <1>1 DEF Arrives, Sent
<1>3. fetches' = Rest(i) /\ UNCHANGED <<tasks, page, choice, unseen>>
  BY DEF ShowList, ListFails, place
<1>4. Told => Told'
  BY <1>2, <1>3, TakenStepKeeps DEF Patches
<1>5. \A of, rows : AsSelected(of, rows) => AsSelected(of, rows)'
  BY <1>3, <1>4 DEF AsSelected, RowsOf
<1>6. LastListFits'
  <2> SUFFICES ASSUME ~overtaken', Selected', NEW h \in Sent', LastOf(fetches', "list", h)
               PROVE  h.of = choice /\ (h.answer = "ok" => AsSelected(h.of, h.data)')
    BY <1>3 DEF LastListFits
  <2>1. LastOf(fetches, "list", h)
    BY <1>1, <1>3, TakenInTurn
  <2>2. h \in Sent /\ ~overtaken /\ Selected
    BY <1>2, <1>3, <2>1 DEF LastOf, Sent, Selected
  <2> QED
    BY <1>5, <2>1, <2>2 DEF LastListFits
<1>7. table'.shows \in {"rows", "nothing", "failed"}
  BY DEF ShowList, ListFails, Nothing
<1>8. table'.shows = "rows" => f.answer = "ok" /\ Selected /\ table'.of = f.of /\ table'.rows = f.data
  BY DEF ShowList, ListFails, Nothing, Arrives, Selected
<1>9. ShownListFits'
  <2> SUFFICES ASSUME ~overtaken', ~InFlight({"list"})', table'.shows = "rows"
               PROVE  AsSelected(table.of, table.rows)'
    BY DEF ShownListFits
  <2>1. LastOf(fetches, "list", f)
    <3>1. ~Has(Rest(i), {"list"})
      BY <1>3 DEF Has, InFlight
    <3> QED
      BY <1>1, <3>1, TakenInTurn
  <2>2. PICK of, rows : of = f.of /\ rows = f.data
    OBVIOUS
  <2>3. AsSelected(of, rows)
    BY <1>2, <1>8, <2>1, <2>2 DEF LastListFits
  <2>4. AsSelected(of, rows)'
    BY <1>5, <2>3
  <2> QED
    BY <1>8, <2>2, <2>4 DEF AsSelected
<1> QED
  BY <1>3, <1>6, <1>7, <1>8, <1>9 DEF NoSilentLoading, NoRowsUnselected, Selected

Clicks ==
    \/ \E c \in table.rows : ClickEdit(c) \/ ClickToggle(c)
    \/ Submit \/ Logout
    \/ \E r \in Runs : ClickView(r)

\* What the operator's clicks leave as it is, and what they ask for.
Stays ==
    /\ UNCHANGED <<tasks, place, table, overtaken, unseen>>
    /\ flash => flash' \/ table.shows # "loading"

AsksFor(kinds) == \E g \in Fetch : fetches' = Append(fetches, g) /\ g.kind \in kinds

\* Edit and the toggle ask for one thing and leave the table as it is.
LEMMA ClickAsks ==
    ASSUME TypeInv, NEW c \in table.rows, ClickEdit(c) \/ ClickToggle(c)
    PROVE  /\ AsksFor({"task", "toggle"})
           /\ Stays /\ UNCHANGED <<form, detail>> /\ form = Null /\ page = "tasks"
<1>1. c \in RowCopy /\ c.id \in Tasks /\ c.row \in Row
  BY DEF Table, RowCopy, TypeInv, TypeOK
<1>2. [c.row EXCEPT !.enabled = ~@] \in Row
  BY <1>1 DEF Row
<1> QED
  BY <1>1, <1>2, Requested DEF ClickEdit, ClickToggle, Clickable, Ask, AsksFor, Stays, Kind

\* So do Save
LEMMA SubmitAsks ==
    ASSUME TypeInv, Submit
    PROVE  /\ AsksFor({"save"})
           /\ Stays /\ UNCHANGED <<form, detail>> /\ form # Null
<1>1. form.id \in Tasks /\ form.row \in Row
  BY DEF Submit, Form, TypeInv, TypeOK
<1> QED
  BY <1>1, Requested DEF Submit, Ask, AsksFor, Stays, Kind

\* and Logout,
LEMMA LogoutAsks ==
    ASSUME TypeInv, Logout
    PROVE  AsksFor({"logout"}) /\ Stays /\ UNCHANGED <<form, detail>> /\ page # "login"
BY Requested DEF Logout, Ask, AsksFor, Stays, Kind

\* and View, which opens the dialog of its run.
LEMMA ViewAsks ==
    ASSUME TypeInv, NEW r \in Runs, ClickView(r)
    PROVE  /\ \E g \in Fetch : fetches' = Append(fetches, g) /\ g.kind = "run" /\ g.of = r
           /\ AsksFor({"run"})
           /\ Stays /\ form' = form /\ page = "runs"
           /\ detail'.id = r
BY Requested DEF ClickView, Ask, AsksFor, Stays, Kind

\* With every click, a list that is missing has been asked for.
LEMMA TableOperator ==
    ASSUME TypeInv, TableInv, Operator
    PROVE  TableInv'
<1>1. ASSUME NEW pg, OpenPage(pg) PROVE TableInv'
  <2> DEFINE g == Request("projects", Null, Null)
  <2>1. g.kind = "projects" /\ fetches' = <<g>>
    BY <1>1 DEF OpenPage, Request
  <2>2. table'.shows # "rows" /\ Has(fetches', Awaited) /\ ~Has(fetches', {"list"})
    BY <1>1, <2>1 DEF OpenPage, Loading, Nothing, Has, Awaited
  <2> QED
    BY <2>2 DEF TableInv, NoSilentLoading, NoRowsUnselected, LastListFits, ShownListFits, InFlight, Has,
                Awaited, LastOf
<1>2. ASSUME NEW project \in Projects \cup {Null}, Select(project) PROVE TableInv'
  <2>1. fetches \in Seq(Fetch)
    BY NowTyped DEF Typed
  <2> QED
    BY <1>2, <2>1, TableLoads DEF Select
<1>3. CASE Clicks
  <2>1. AsksFor({"task", "toggle"}) \/ AsksFor({"save"}) \/ AsksFor({"run"}) \/ AsksFor({"logout"})
    BY <1>3, ClickAsks, SubmitAsks, ViewAsks, LogoutAsks DEF Clicks
  <2>2. Kept("list") /\ (Told => Told') /\ (Has(fetches, Awaited) => Has(fetches', Awaited))
    BY <2>1, SentKeeps DEF AsksFor
  <2>3. Stays
    BY <1>3, ClickAsks, SubmitAsks, ViewAsks, LogoutAsks DEF Clicks
  <2>4. NoSilentLoading'
    BY <2>2, <2>3, LoadingKept DEF Stays, TableInv
  <2> QED
    BY <2>2, <2>3, <2>4, TableQuiet DEF Stays, place
<1>4. CASE CloseDialog \/ \E row \in Row : Type(row)
  <2>1. UNCHANGED <<tasks, page, choice, table, flash, fetches, overtaken, unseen>>
    BY <1>4 DEF CloseDialog, Type, place
  <2>2. Kept("list") /\ (Told => Told')
    BY <2>1 DEF Kept, Told, Sent, Patches
  <2>3. NoSilentLoading'
    BY <2>1, LoadingKept DEF TableInv
  <2> QED
    BY <2>1, <2>2, <2>3, TableQuiet
<1> QED
  BY <1>1, <1>2, <1>3, <1>4 DEF Operator, Clicks, Visit, Login

\* An edit on the server is one the page has been told of or will ask about.
LEMMA TableServer ==
    ASSUME TypeInv, TableInv, NEW i \in DOMAIN fetches, Serve(i) \/ ServeNot(i) \/ Refuse(i)
    PROVE  TableInv'
<1> DEFINE f == fetches[i]
<1>1. CASE ServeNot(i) \/ Refuse(i)
  BY <1>1, TableAnswer DEF ServeNot, Refuse, place
<1>2. CASE Serve(i)
  <2>1. f \in Fetch /\ Fits(f)
    BY NowTyped
  <2>2. /\ f.answer = Null /\ UNCHANGED <<page, choice, table, flash, overtaken>>
        /\ tasks' = IF Patches(f) THEN Patched(f) ELSE tasks
    BY <1>2 DEF Serve, place
  <2>3. CASE Answer(i, "failed", {}) /\ unseen' = (unseen \/ tasks' # tasks)
    <3>1. (unseen => unseen') /\ (tasks' = tasks \/ unseen') /\ Answer(i, "failed", {})
      BY <2>3
    <3>2. {} \in SUBSET RowCopy
      OBVIOUS
    <3> QED
      BY <2>2, <3>1, <3>2, TableAnswer
  <2>4. CASE unseen' = unseen /\
             Answer(i, "ok", CASE f.kind = "task" -> {[id |-> f.of, row |-> tasks[f.of]]}
                               [] f.kind = "list" /\ page = "tasks" -> RowsOf(f.of)
                               [] OTHER -> {})
    <3>1. PICK data \in SUBSET RowCopy :
            Answer(i, "ok", data) /\ (f.kind = "list" /\ page = "tasks" => data = RowsOf(f.of))
      BY <2>1, <2>4, AnswersAreCopies
    <3>2. tasks' = tasks \/ Patches(f)
      BY <2>2
    <3> QED
      BY <2>2, <2>4, <3>1, <3>2, TableAnswer
  <2> QED
    BY <1>2, <2>3, <2>4 DEF Serve
<1> QED
  BY <1>1, <1>2

\* The projects arrive on the runs page, and the names of tasks are asked for: if there
\* are rows, or a list is on its way, then for all projects, and all are selected now.
LEMMA TableNamesNext ==
    ASSUME TypeInv, PlaceInv, TableInv, NEW i \in DOMAIN fetches, ShowProjects(i), page # "tasks"
    PROVE  TableInv'
<1> DEFINE g == Request("labels", Null, Null)
<1>1. g \in Fetch /\ g.kind = "labels"
  BY Requested DEF Kind
<1>2. /\ fetches[i].kind = "projects" /\ (overtaken => overtaken')
      /\ fetches' = Append(Rest(i), g) /\ choice' = url
      /\ UNCHANGED <<tasks, page, table, unseen>>
  BY DEF ShowProjects, Arrives
<1> HIDE DEF g
<1>3. Kept("list") /\ (Told => Told')
  BY <1>1, <1>2, TakenAndSentKeeps DEF Patches
<1>4. NoSilentLoading'
  <2>1. Rest(i) \in Seq(Fetch)
    BY TakenKeeps
  <2>2. Has(fetches', {"projects", "labels", "list"})
    BY <1>1, <1>2, <2>1, Appended
  <2> QED
    BY <2>2 DEF NoSilentLoading, InFlight, Has
<1>5. ~listed /\ choice = Null
  BY <1>2 DEF PlaceInv, ListedOnce, InFlight
<1>6. CASE table.shows = "rows" \/ InFlight({"list"})
  <2>1. choice' = choice
    BY <1>2, <1>5, <1>6 DEF PlaceInv, UrlForgotten
  <2> QED
    BY <1>2, <1>3, <1>4, <2>1, TableQuiet
<1>7. CASE table.shows # "rows" /\ ~InFlight({"list"})
  <2>1. ~Has(fetches', {"list"}) /\ table'.shows # "rows"
    BY <1>2, <1>3, <1>7 DEF Kept, InFlight, Has
  <2>2. \A f : ~LastOf(fetches', "list", f)
    BY <2>1 DEF LastOf, Has
  <2> QED
    BY <1>4, <2>1, <2>2 DEF TableInv, NoRowsUnselected, LastListFits, ShownListFits
<1> QED
  BY <1>6, <1>7

\* The last list asked for is the one that is shown, unless one overtakes it.
LEMMA TableArrival ==
    ASSUME TypeInv, PlaceInv, TableInv, NEW i \in DOMAIN fetches, Arrival(i)
    PROVE  TableInv'
<1>1. CASE ShowList(i) \/ ListFails(i)
  BY <1>1, TableListArrives
<1>2. CASE OpenForm(i) \/ OtherFails(i) \/ RunFails(i) \/ ShowLog(i) \/ ProjectsFail(i)
  <2>1. /\ fetches[i].kind # "list" /\ ~(Patches(fetches[i]) /\ fetches[i].answer = "ok")
        /\ overtaken => overtaken'
    BY <1>2 DEF OpenForm, OtherFails, RunFails, ShowLog, ProjectsFail, Arrives, Patches
  <2>2. fetches' = Rest(i) /\ UNCHANGED <<tasks, page, choice, table, unseen>>
    BY <1>2 DEF OpenForm, OtherFails, RunFails, ShowLog, ProjectsFail, place
  <2>3. Kept("list") /\ (Told => Told')
    BY <2>1, <2>2, TakenStepKeeps
  <2>4. ASSUME ProjectsFail(i) PROVE NoSilentLoading'
    <3>1. flash'
      BY <2>4 DEF ProjectsFail
    <3> QED
      BY <3>1 DEF NoSilentLoading
  <2>5. ASSUME ~ProjectsFail(i) PROVE NoSilentLoading'
    <3>1. fetches[i].kind \notin Awaited
      BY <1>2, <2>5 DEF OpenForm, OtherFails, RunFails, ShowLog, Arrives, Awaited
    <3>3. flash => flash'
      BY <1>2, <2>5 DEF OpenForm, OtherFails, RunFails, ShowLog
    <3>2. Has(fetches, Awaited) => Has(fetches', Awaited)
      BY <2>2, <3>1, TakenStepKeeps
    <3> QED
      BY <2>2, <3>3, <3>2, LoadingKept DEF TableInv
  <2>6. NoSilentLoading'
    BY <2>4, <2>5
  <2> QED
    BY <2>1, <2>2, <2>3, <2>6, TableQuiet
<1>3. CASE Patch(i) \/ LabelsSettle(i)
  <2>1. Rest(i) \in Seq(Fetch)
    BY TakenKeeps
  <2> QED
    BY <1>3, <2>1, TableLoads DEF Patch, LabelsSettle, TypeInv, TypeOK
<1>4. CASE ShowRun(i)
  <2> DEFINE g == Request("log", fetches[i].of, Null)
  <2>1. fetches[i].kind = "run" /\ (overtaken => overtaken') /\ fetches[i].of \in Runs
    BY <1>4, NowTyped DEF ShowRun, Arrives, Fits
  <2>2. g \in Fetch /\ g.kind = "log"
    BY <2>1, Requested DEF Kind
  <2>3. fetches' = Append(Rest(i), g) /\ UNCHANGED <<tasks, page, choice, table, flash, unseen>>
    BY <1>4 DEF ShowRun, place
  <2> HIDE DEF g
  <2>4. Kept("list") /\ (Told => Told') /\ (Has(fetches, Awaited) => Has(fetches', Awaited))
    BY <2>1, <2>2, <2>3, TakenAndSentKeeps DEF Patches, Awaited
  <2>5. NoSilentLoading'
    BY <2>3, <2>4, LoadingKept DEF TableInv
  <2> QED
    BY <2>1, <2>3, <2>4, <2>5, TableQuiet
<1>5. CASE Leave(i)
  <2>1. Sent' = {} /\ table'.shows = "nothing"
    BY <1>5 DEF Leave, Sent, Nothing
  <2> QED
    BY <2>1 DEF TableInv, NoSilentLoading, NoRowsUnselected, LastListFits, ShownListFits
<1>6. CASE ShowProjects(i) /\ page = "tasks"
  <2>1. Rest(i) \in Seq(Fetch)
    BY TakenKeeps
  <2> QED
    BY <1>6, <2>1, TableLoads DEF ShowProjects, TypeInv, TypeOK
<1>7. CASE ShowProjects(i) /\ page # "tasks"
  BY <1>7, TableNamesNext
<1> QED
  BY <1>1, <1>2, <1>3, <1>4, <1>5, <1>6, <1>7 DEF Arrival

\* Every step keeps what is known of the table.
LEMMA TableStep == TypeInv /\ PlaceInv /\ TableInv /\ [Next]_vars => TableInv'
<1> SUFFICES ASSUME TypeInv, PlaceInv, TableInv, [Next]_vars PROVE TableInv'
  OBVIOUS
<1>1. CASE SessionEnds \/ UNCHANGED vars
  BY <1>1, TableUntouched DEF SessionEnds, vars
<1>2. CASE OtherEdit
  <2>1. unseen' /\ UNCHANGED pageVars
    BY <1>2 DEF OtherEdit
  <2> QED
    BY <2>1 DEF pageVars, place, TableInv, NoSilentLoading, NoRowsUnselected, LastListFits, ShownListFits,
       Selected, AsSelected, Sent, InFlight, LastOf
<1> QED
  BY <1>1, <1>2, TableOperator, TableServer, TableArrival DEF Next, Arrival

-----------------------------------------------------------------------------
(* The run dialog.                                                           *)

\* Without a dialog there is nothing to fit.
LEMMA DetailGone == detail' = Null => DetailInv'
BY DEF DetailInv, LastRunFits, ShownRunFits

\* A step that leaves the dialog, the runs and the logs alone.
LEMMA DetailQuiet ==
    ASSUME DetailInv, detail' = detail, overtaken => overtaken', Kept("run"), Kept("log")
    PROVE  DetailInv'
<1> USE DEF DetailInv
<1>1. /\ InFlight({"run"})' <=> InFlight({"run"})
      /\ InFlight({"log"})' <=> InFlight({"log"})
  BY DEF Kept, Has, InFlight
<1>2. ~overtaken' => \A kind \in {"run", "log"} : \A f :
        LastOf(fetches', kind, f) => LastOf(fetches, kind, f) /\ f \in Sent
  BY DEF Kept, LastOf, Sent
<1>3. LastRunFits'
  BY <1>2 DEF LastRunFits
<1>4. ShownRunFits'
  BY <1>1, <1>2 DEF ShownRunFits
<1> QED
  BY <1>3, <1>4

\* An answer of the server leaves the dialog as it is.
LEMMA DetailAnswer ==
    ASSUME TypeInv, DetailInv, NEW i \in DOMAIN fetches,
           NEW answer \in {"ok", "failed", "unauthorized"}, NEW data \in SUBSET RowCopy,
           Answer(i, answer, data), UNCHANGED <<detail, overtaken>>
    PROVE  DetailInv'
<1> DEFINE g == fetches[i]
           e == WithAnswer(fetches[i], answer, data)
<1> USE DEF DetailInv
<1>1. fetches' = [fetches EXCEPT ![i] = e] /\ fetches \in Seq(Fetch) /\ g \in Fetch
  BY AnswerStep, NowTyped DEF Typed
<1>2. e \in Fetch /\ e.kind = g.kind /\ e.of = g.of
  BY <1>1, Answered
<1> HIDE DEF e
<1>3. /\ \A kinds : Has(fetches', kinds) <=> Has(fetches, kinds)
      /\ \A kind, f : LastOf(fetches', kind, f) =>
           LastOf(fetches, kind, f) \/ (f = e /\ LastOf(fetches, kind, g))
  BY Changed DEF e
<1>4. \A kind, f : LastOf(fetches', kind, f) =>
        \E h \in Sent : LastOf(fetches, kind, h) /\ h.of = f.of
  <2>1. \A kind, h : LastOf(fetches, kind, h) => h \in Sent
    BY DEF LastOf, Sent
  <2> QED
    BY <1>2, <1>3, <2>1
<1>5. /\ InFlight({"run"})' <=> InFlight({"run"})
      /\ InFlight({"log"})' <=> InFlight({"log"})
  BY <1>3 DEF Has, InFlight
<1>6. LastRunFits'
  BY <1>4 DEF LastRunFits
<1>7. ShownRunFits'
  BY <1>4, <1>5 DEF ShownRunFits
<1> QED
  BY <1>6, <1>7

\* View opens a dialog whose run is asked for last.
LEMMA DetailOpens ==
    ASSUME TypeInv, NEW r \in Runs, ClickView(r)
    PROVE  DetailInv'
<1>1. fetches \in Seq(Fetch) /\ detail'.id = r
  BY NowTyped, ViewAsks DEF Typed
<1>2. PICK g \in Fetch : fetches' = Append(fetches, g) /\ g.kind = "run" /\ g.of = r
  BY ViewAsks
<1>3. Has(fetches', {"run"}) /\ \A f : LastOf(fetches', "run", f) => f = g
  BY <1>1, <1>2, Appended
<1>4. InFlight({"run"})'
  BY <1>3 DEF Has, InFlight
<1> QED
  BY <1>1, <1>2, <1>3, <1>4 DEF DetailInv, LastRunFits, ShownRunFits

\* The fields arrive, and the log of the same run is asked for.
LEMMA DetailShowsRun ==
    ASSUME TypeInv, DetailInv, NEW i \in DOMAIN fetches, ShowRun(i), detail # Null
    PROVE  DetailInv'
<1> DEFINE f == fetches[i]
           g == Request("log", f.of, Null)
<1> USE DEF DetailInv
<1>1. Arrives(i, "run", "ok") /\ f.kind = "run" /\ f \in Sent /\ (overtaken => overtaken') /\ f.of \in Runs
  BY NowTyped DEF ShowRun, Arrives, Fits, Sent
<1>2. g \in Fetch /\ g.kind = "log" /\ g.of = f.of
  BY <1>1, Requested DEF Kind
<1>3. /\ fetches' = Append(Rest(i), g) /\ Rest(i) \in Seq(Fetch)
      /\ detail \in Detail /\ detail' = [detail EXCEPT !.fields = f.of]
  BY TakenKeeps DEF ShowRun, TypeInv, TypeOK
<1> HIDE DEF g
<1>4. detail'.id = detail.id /\ detail'.fields = f.of
  BY <1>3 DEF Detail
<1>5. /\ \A kinds : Has(fetches', kinds) <=> Has(Rest(i), kinds) \/ g.kind \in kinds
      /\ \A kind, h : LastOf(fetches', kind, h) =>
           IF g.kind = kind THEN h = g ELSE LastOf(Rest(i), kind, h)
  BY <1>2, <1>3, Appended
<1>6. \A h : LastOf(fetches', "run", h) => LastOf(Rest(i), "run", h)
  BY <1>2, <1>5
<1>7. LastRunFits'
  <2> SUFFICES ASSUME ~overtaken', NEW h \in Sent', LastOf(fetches', "run", h)
               PROVE  h.of = detail'.id
    BY DEF LastRunFits
  <2>1. LastOf(fetches, "run", h)
    BY <1>1, <1>6, TakenInTurn
  <2>2. h \in Sent
    BY <2>1 DEF LastOf, Sent
  <2> QED
    BY <1>1, <1>4, <2>1, <2>2 DEF LastRunFits
<1>8. ShownRunFits'
  <2> SUFFICES ASSUME ~overtaken', ~InFlight({"run"})'
               PROVE  /\ detail'.fields = detail'.id
                      /\ \A h \in Sent' : LastOf(fetches', "log", h) => h.of = detail'.id
                      /\ InFlight({"log"})'
    BY DEF ShownRunFits
  <2>1. ~Has(Rest(i), {"run"})
    BY <1>5 DEF Has, InFlight
  <2>2. LastOf(fetches, "run", f)
    BY <1>1, <2>1, TakenInTurn
  <2>3. f.of = detail.id
    BY <1>1, <2>2 DEF LastRunFits
  <2>4. \A h : LastOf(fetches', "log", h) => h = g
    BY <1>2, <1>5
  <2>5. InFlight({"log"})'
    BY <1>2, <1>5 DEF Has, InFlight
  <2> QED
    BY <1>2, <1>4, <2>3, <2>4, <2>5
<1> QED
  BY <1>7, <1>8

\* A log that arrives last is that of the run in the dialog.
LEMMA DetailShowsLog ==
    ASSUME TypeInv, DetailInv, NEW i \in DOMAIN fetches, ShowLog(i), detail # Null
    PROVE  DetailInv'
<1> DEFINE f == fetches[i]
<1> USE DEF DetailInv
<1>1. PICK answer : Arrives(i, "log", answer)
  BY DEF ShowLog
<1>2. f.kind = "log" /\ f \in Sent /\ (overtaken => overtaken') /\ f.of \in Runs
  BY <1>1, NowTyped DEF Arrives, Fits, Sent
<1>3. fetches' = Rest(i) /\ detail \in Detail /\ detail' = [detail EXCEPT !.log = f.of]
  BY DEF ShowLog, TypeInv, TypeOK
<1>4. detail'.id = detail.id /\ detail'.fields = detail.fields /\ detail'.log = f.of
  BY <1>3 DEF Detail
<1>5. Kept("run")
  BY <1>2, <1>3, TakenStepKeeps
<1>6. LastRunFits'
  <2>1. ~overtaken' => \A h : LastOf(fetches', "run", h) => LastOf(fetches, "run", h) /\ h \in Sent
    BY <1>5 DEF Kept, LastOf, Sent
  <2> QED
    BY <1>2, <1>4, <2>1 DEF LastRunFits
<1>7. ShownRunFits'
  <2> SUFFICES ASSUME ~overtaken', ~InFlight({"run"})'
               PROVE  /\ detail'.fields = detail'.id
                      /\ \A h \in Sent' : LastOf(fetches', "log", h) => h.of = detail'.id
                      /\ ~InFlight({"log"})' => detail'.log = detail'.id
    BY DEF ShownRunFits
  <2>1. ~InFlight({"run"}) /\ ~overtaken
    BY <1>2, <1>5 DEF Kept, Has, InFlight
  <2>2. /\ detail.fields = detail.id
        /\ \A h \in Sent : LastOf(fetches, "log", h) => h.of = detail.id
    BY <2>1 DEF ShownRunFits
  <2>3. \A h : LastOf(fetches', "log", h) => LastOf(fetches, "log", h) /\ h \in Sent
    <3>1. \A h : LastOf(fetches', "log", h) => LastOf(fetches, "log", h)
      BY <1>1, <1>3, TakenInTurn
    <3> QED
      BY <3>1 DEF LastOf, Sent
  <2>4. ~InFlight({"log"})' => f.of = detail.id
    <3>1. ~InFlight({"log"})' => ~Has(Rest(i), {"log"})
      BY <1>3 DEF Has, InFlight
    <3>2. ~Has(Rest(i), {"log"}) => LastOf(fetches, "log", f)
      BY <1>1, TakenInTurn
    <3> QED
      BY <1>2, <2>2, <3>1, <3>2
  <2> QED
    BY <1>4, <2>2, <2>3, <2>4
<1> QED
  BY <1>6, <1>7

\* No other click changes which run is asked for.
LEMMA DetailOperator ==
    ASSUME TypeInv, DetailInv, Operator
    PROVE  DetailInv'
<1>1. ASSUME NEW pg, OpenPage(pg) PROVE DetailInv'
  BY <1>1, DetailGone DEF OpenPage
<1>2. ASSUME NEW project \in Projects \cup {Null}, Select(project) PROVE DetailInv'
  BY <1>2, DetailGone DEF Select
<1>3. ASSUME AsksFor({"task", "toggle", "save", "logout"}), UNCHANGED <<detail, overtaken>>
      PROVE  DetailInv'
  <2>1. Kept("run") /\ Kept("log")
    BY <1>3, SentKeeps DEF AsksFor
  <2> QED
    BY <1>3, <2>1, DetailQuiet
<1>4. CASE Clicks
  <2>1. CASE \E r \in Runs : ClickView(r)
    BY <2>1, DetailOpens
  <2>2. CASE ~\E r \in Runs : ClickView(r)
    <3>1. AsksFor({"task", "toggle"}) \/ AsksFor({"save"}) \/ AsksFor({"logout"})
      BY <1>4, <2>2, ClickAsks, SubmitAsks, LogoutAsks DEF Clicks
    <3>2. UNCHANGED <<detail, overtaken>>
      BY <1>4, <2>2, ClickAsks, SubmitAsks, LogoutAsks DEF Clicks, Stays
    <3> QED
      BY <1>3, <3>1, <3>2 DEF AsksFor
  <2> QED
    BY <2>1, <2>2
<1>5. CASE CloseDialog
  BY <1>5, DetailGone DEF CloseDialog
<1>6. ASSUME NEW row \in Row, Type(row) PROVE DetailInv'
  BY <1>6, DetailQuiet DEF Type, Kept
<1> QED
  BY <1>1, <1>2, <1>4, <1>5, <1>6 DEF Operator, Clicks, Visit, Login

\* What arrives in order fits the dialog.
LEMMA DetailArrival ==
    ASSUME TypeInv, DetailInv, NEW i \in DOMAIN fetches, Arrival(i)
    PROVE  DetailInv'
<1>1. CASE ShowList(i) \/ ListFails(i) \/ OpenForm(i) \/ OtherFails(i) \/ ProjectsFail(i)
  <2>1. fetches[i].kind \notin {"run", "log"} /\ (overtaken => overtaken')
    BY <1>1 DEF ShowList, ListFails, OpenForm, OtherFails, ProjectsFail, Arrives
  <2>2. fetches' = Rest(i) /\ detail' = detail
    BY <1>1 DEF ShowList, ListFails, OpenForm, OtherFails, ProjectsFail
  <2>3. Kept("run") /\ Kept("log")
    BY <2>1, <2>2, TakenStepKeeps
  <2> QED
    BY <2>1, <2>2, <2>3, DetailQuiet
<1>2. CASE Patch(i) \/ ShowProjects(i) \/ LabelsSettle(i)
  <2>1. fetches[i].kind \notin {"run", "log"} /\ (overtaken => overtaken') /\ detail' = detail
    BY <1>2 DEF Patch, ShowProjects, LabelsSettle, Arrives
  <2>2. /\ Request("labels", Null, Null) \in Fetch /\ Request("labels", Null, Null).kind = "labels"
        /\ \A project \in Projects \cup {Null} :
             Request("list", project, Null) \in Fetch /\ Request("list", project, Null).kind = "list"
    BY Requested DEF Kind
  <2>3. fetches' = Rest(i) \/ \E g \in Fetch : fetches' = Append(Rest(i), g) /\ g.kind \notin {"run", "log"}
    BY <1>2, <2>2 DEF Patch, ShowProjects, LabelsSettle, Load, TypeInv, TypeOK
  <2>4. Kept("run") /\ Kept("log")
    BY <2>1, <2>3, TakenStepKeeps, TakenAndSentKeeps
  <2> QED
    BY <2>1, <2>4, DetailQuiet
<1>3. CASE ShowRun(i) \/ ShowLog(i)
  BY <1>3, DetailGone, DetailShowsRun, DetailShowsLog DEF ShowRun, ShowLog
<1>4. CASE RunFails(i) \/ Leave(i)
  BY <1>4, DetailGone DEF RunFails, Leave
<1> QED
  BY <1>1, <1>2, <1>3, <1>4 DEF Arrival

\* Every step keeps what is known of the dialog.
LEMMA DetailStep == TypeInv /\ DetailInv /\ [Next]_vars => DetailInv'
<1> SUFFICES ASSUME TypeInv, DetailInv, [Next]_vars PROVE DetailInv'
  OBVIOUS
<1>1. CASE SessionEnds \/ OtherEdit \/ UNCHANGED vars
  BY <1>1, DetailQuiet DEF SessionEnds, OtherEdit, vars, pageVars, Kept
<1>2. ASSUME NEW i \in DOMAIN fetches, Serve(i) PROVE DetailInv'
  <2>1. fetches[i] \in Fetch /\ Fits(fetches[i])
    BY NowTyped
  <2>2. \E answer \in {"ok", "failed"}, data \in SUBSET RowCopy : Answer(i, answer, data)
    BY <1>2, <2>1, AnswersAreCopies DEF Serve
  <2> QED
    BY <1>2, <2>2, DetailAnswer DEF Serve
<1>3. ASSUME NEW i \in DOMAIN fetches, ServeNot(i) \/ Refuse(i) PROVE DetailInv'
  BY <1>3, DetailAnswer DEF ServeNot, Refuse
<1> QED
  BY <1>1, <1>2, <1>3, DetailOperator, DetailArrival DEF Next, Arrival

-----------------------------------------------------------------------------
(* The projects in the select, and the URL.                                  *)

\* load() sends a list or nothing, and the URL has been looked at.
LEMMA LoadSends ==
    ASSUME NEW pg, NEW project \in Projects \cup {Null}, NEW others \in Seq(Fetch),
           Load(pg, project, others)
    PROVE  /\ url' = Null
           /\ ProjectsFirst(others) => ProjectsFirst(fetches')
           /\ \A kind : kind # "list" /\ Has(fetches', {kind}) => Has(others, {kind})
<1> DEFINE g == Request("list", project, Null)
<1>1. g \in Fetch /\ g.kind = "list"
  BY Requested DEF Kind
<1>2. fetches' = others \/ fetches' = Append(others, g)
  BY DEF Load
<1> HIDE DEF g
<1>3. ASSUME ProjectsFirst(others) PROVE ProjectsFirst(fetches')
  <2>1. ProjectsFirst(Append(others, g))
    BY <1>1, <1>3, Appended
  <2> QED
    BY <1>2, <1>3, <2>1
<1>4. ASSUME NEW kind, kind # "list", Has(fetches', {kind}) PROVE Has(others, {kind})
  <2>1. Has(Append(others, g), {kind}) <=> Has(others, {kind}) \/ g.kind \in {kind}
    BY <1>1, Appended
  <2> QED
    BY <1>1, <1>2, <1>4, <2>1
<1> QED
  BY <1>3, <1>4 DEF Load

\* A step that lists no projects, and loads no table without making the page forget
\* its URL.
LEMMA PlaceKept ==
    ASSUME PlaceInv, ProjectsFirst(fetches'), listed' = listed, ~listed => choice' = Null,
           Has(fetches', {"projects"}) => Has(fetches, {"projects"}),
           \/ url' = Null
           \/ /\ url' = url
              /\ table'.shows = "rows" \/ Has(fetches', {"list"}) =>
                   table.shows = "rows" \/ Has(fetches, {"list"})
    PROVE  PlaceInv'
<1>1. ListedOnce'
  BY DEF PlaceInv, ListedOnce, InFlight, Has
<1>2. UrlForgotten'
  BY DEF PlaceInv, UrlForgotten, InFlight, Has
<1> QED
  BY <1>1, <1>2 DEF PlaceInv

\* A page that opens asks for the projects, and shows no rows.
LEMMA PlaceOpens ==
    ASSUME NEW pg, OpenPage(pg)
    PROVE  PlaceInv'
<1>1. /\ fetches' = <<Request("projects", Null, Null)>>
      /\ Request("projects", Null, Null).kind = "projects"
      /\ table'.shows # "rows" /\ choice' = Null /\ listed' = FALSE
  BY DEF OpenPage, Request, Loading, Nothing
<1>2. ProjectsFirst(fetches') /\ ~InFlight({"list"})'
  BY <1>1 DEF ProjectsFirst, InFlight
<1> QED
  BY <1>1, <1>2 DEF PlaceInv, ListedOnce, UrlForgotten

\* Clicks ask for no projects.
LEMMA PlaceOperator ==
    ASSUME TypeInv, PlaceInv, Operator
    PROVE  PlaceInv'
<1>1. fetches \in Seq(Fetch) /\ ProjectsFirst(fetches) /\ (~listed => choice = Null)
  BY NowTyped DEF Typed, PlaceInv, ListedOnce
<1>2. ASSUME NEW project \in Projects \cup {Null}, Select(project) PROVE PlaceInv'
  <2>1. ~listed => choice' = Null
    BY <1>2 DEF Select
  <2> QED
    BY <1>1, <1>2, <2>1, LoadSends, PlaceKept DEF Select
<1>3. CASE Clicks
  <2>1. AsksFor({"task", "toggle"}) \/ AsksFor({"save"}) \/ AsksFor({"run"}) \/ AsksFor({"logout"})
    BY <1>3, ClickAsks, SubmitAsks, ViewAsks, LogoutAsks DEF Clicks
  <2>2. Kept("list") /\ Kept("projects") /\ ProjectsFirst(fetches')
    BY <1>1, <2>1, SentKeeps DEF AsksFor
  <2>3. Stays
    BY <1>3, ClickAsks, SubmitAsks, ViewAsks, LogoutAsks DEF Clicks
  <2> QED
    BY <1>1, <2>2, <2>3, PlaceKept DEF Stays, place, Kept
<1>4. CASE CloseDialog \/ \E row \in Row : Type(row)
  BY <1>1, <1>4, PlaceKept DEF CloseDialog, Type, place
<1> QED
  BY <1>2, <1>3, <1>4, PlaceOpens DEF Operator, Clicks, Visit, Login

\* An answer of the server changes nothing of it.
LEMMA PlaceServer ==
    ASSUME TypeInv, PlaceInv, NEW i \in DOMAIN fetches, Serve(i) \/ ServeNot(i) \/ Refuse(i)
    PROVE  PlaceInv'
<1>1. fetches[i] \in Fetch /\ Fits(fetches[i])
  BY NowTyped
<1>2. PICK answer \in {"ok", "failed", "unauthorized"}, data \in SUBSET RowCopy : Answer(i, answer, data)
  BY <1>1, AnswersAreCopies DEF Serve, ServeNot, Refuse
<1>3. PICK e : e = WithAnswer(fetches[i], answer, data)
  OBVIOUS
<1>4. /\ \A kinds : Has(fetches', kinds) <=> Has(fetches, kinds)
      /\ ProjectsFirst(fetches')
  BY <1>2, <1>3, Changed DEF PlaceInv, ListedOnce
<1>5. UNCHANGED <<place, table>>
  BY DEF Serve, ServeNot, Refuse
<1> QED
  BY <1>4, <1>5, PlaceKept DEF place, PlaceInv, ListedOnce

\* The projects are listed when their one answer is taken.
LEMMA PlaceArrival ==
    ASSUME TypeInv, PlaceInv, NEW i \in DOMAIN fetches, Arrival(i)
    PROVE  PlaceInv'
<1>1. /\ Rest(i) \in Seq(Fetch) /\ ProjectsFirst(Rest(i))
      /\ \A kinds : Has(Rest(i), kinds) => Has(fetches, kinds)
      /\ fetches[i].kind = "projects" => ~Has(Rest(i), {"projects"})
  BY TakenKeeps DEF PlaceInv, ListedOnce
<1>2. ~listed => choice = Null
  BY DEF PlaceInv, ListedOnce
<1>3. CASE \/ ListFails(i) \/ OpenForm(i) \/ OtherFails(i) \/ RunFails(i) \/ ShowLog(i)
           \/ ProjectsFail(i)
  <2>1. fetches' = Rest(i) /\ UNCHANGED place /\ (table'.shows = "rows" => table.shows = "rows")
    BY <1>3 DEF ListFails, OpenForm, OtherFails, RunFails, ShowLog, ProjectsFail, Nothing
  <2> QED
    BY <1>1, <1>2, <2>1, PlaceKept DEF place
<1>4. CASE ShowList(i)
  <2>1. fetches[i].kind = "list" /\ fetches' = Rest(i) /\ UNCHANGED place
    BY <1>4 DEF ShowList, Arrives
  <2>2. Has(fetches, {"list"})
    BY <2>1 DEF Has
  <2> QED
    BY <1>1, <1>2, <2>1, <2>2, PlaceKept DEF place
<1>5. CASE Patch(i) \/ LabelsSettle(i)
  <2>1. Load(page, choice, Rest(i)) /\ choice \in Projects \cup {Null} /\ UNCHANGED <<listed, choice>>
    BY <1>5 DEF Patch, LabelsSettle, TypeInv, TypeOK
  <2> QED
    BY <1>1, <1>2, <2>1, LoadSends, PlaceKept
<1>6. CASE ShowRun(i)
  <2> DEFINE g == Request("log", fetches[i].of, Null)
  <2>1. fetches[i].of \in Runs
    BY <1>6, NowTyped DEF ShowRun, Arrives, Fits
  <2>2. g \in Fetch /\ g.kind = "log"
    BY <2>1, Requested DEF Kind
  <2>3. fetches' = Append(Rest(i), g) /\ UNCHANGED <<place, table>>
    BY <1>6 DEF ShowRun
  <2> HIDE DEF g
  <2>4. /\ ProjectsFirst(fetches')
        /\ \A kind \in {"projects", "list"} : Has(fetches', {kind}) => Has(fetches, {kind})
    BY <1>1, <2>2, <2>3, Appended
  <2> QED
    BY <1>2, <2>3, <2>4, PlaceKept DEF place
<1>7. CASE Leave(i)
  BY <1>7 DEF Leave, PlaceInv, ListedOnce, UrlForgotten, ProjectsFirst
<1>8. CASE ShowProjects(i)
  <2>1. ~Has(Rest(i), {"projects"})
    BY <1>1, <1>8 DEF ShowProjects, Arrives
  <2>2. ProjectsFirst(fetches') /\ ~Has(fetches', {"projects"})
    <3>1. CASE page = "tasks"
      <4>1. Load(page, url, Rest(i)) /\ url \in Projects \cup {Null}
        BY <1>8, <3>1 DEF ShowProjects, TypeInv, TypeOK
      <4> QED
        BY <1>1, <2>1, <4>1, LoadSends
    <3>2. CASE page # "tasks"
      <4> DEFINE g == Request("labels", Null, Null)
      <4>1. g \in Fetch /\ g.kind = "labels" /\ fetches' = Append(Rest(i), g)
        BY <1>8, <3>2, Requested DEF ShowProjects, Kind
      <4> HIDE DEF g
      <4> QED
        BY <1>1, <2>1, <4>1, Appended
    <3> QED
      BY <3>1, <3>2
  <2>3. listed'
    BY <1>8 DEF ShowProjects
  <2> QED
    BY <2>2, <2>3 DEF PlaceInv, ListedOnce, UrlForgotten, InFlight, Has
<1> QED
  BY <1>3, <1>4, <1>5, <1>6, <1>7, <1>8 DEF Arrival

\* Every step keeps what is known of the select.
LEMMA PlaceStep == TypeInv /\ PlaceInv /\ [Next]_vars => PlaceInv'
<1> SUFFICES ASSUME TypeInv, PlaceInv, [Next]_vars PROVE PlaceInv'
  OBVIOUS
<1>1. CASE SessionEnds \/ OtherEdit \/ UNCHANGED vars
  BY <1>1 DEF SessionEnds, OtherEdit, vars, pageVars, place, PlaceInv, ListedOnce, UrlForgotten,
              ProjectsFirst, InFlight
<1> QED
  BY <1>1, PlaceOperator, PlaceServer, PlaceArrival DEF Next, Arrival

-----------------------------------------------------------------------------
(* The task dialog.                                                          *)

\* A step that opens no dialog and asks for no task.
LEMMA FormKept ==
    ASSUME FormInv, form' = Null \/ (form # Null /\ form'.calm = form.calm),
           Has(fetches', {"task"}) => Has(fetches, {"task"}),
           page' = "login" => form' = Null /\ fetches' = <<>>
    PROVE  FormInv'
BY DEF FormInv, CalmForm, LoginBare, InFlight, Has

\* On the login page there is nothing to click on or wait for but the login.
LEMMA FormOperator ==
    ASSUME TypeInv, FormInv, Operator
    PROVE  FormInv'
<1>1. fetches \in Seq(Fetch)
  BY NowTyped DEF Typed
<1>2. ASSUME NEW pg \in {"tasks", "runs"}, OpenPage(pg) PROVE FormInv'
  BY <1>2 DEF OpenPage, FormInv, CalmForm, LoginBare
<1>3. ASSUME NEW project \in Projects \cup {Null}, Select(project) PROVE FormInv'
  BY <1>3 DEF Select, FormInv, CalmForm, LoginBare
<1>4. ASSUME NEW c \in table.rows, ClickEdit(c) \/ ClickToggle(c) PROVE FormInv'
  <2>1. form' = Null /\ page' = "tasks"
    BY <1>4, ClickAsks DEF Stays, place
  <2> QED
    BY <2>1 DEF FormInv, CalmForm, LoginBare
<1>5. CASE Submit \/ Logout \/ \E r \in Runs : ClickView(r)
  <2>1. AsksFor({"save"}) \/ AsksFor({"logout"}) \/ AsksFor({"run"})
    BY <1>5, SubmitAsks, LogoutAsks, ViewAsks
  <2>2. Kept("task")
    BY <2>1, SentKeeps DEF AsksFor
  <2>3. form' = form /\ page' = page /\ (page = "login" => form # Null)
    BY <1>5, SubmitAsks, LogoutAsks, ViewAsks DEF Stays, place
  <2> QED
    BY <2>2, <2>3, FormKept DEF Kept, FormInv, LoginBare
<1>6. CASE CloseDialog
  BY <1>6, FormKept DEF CloseDialog, place, FormInv, LoginBare
<1>7. ASSUME NEW row \in Row, Type(row) PROVE FormInv'
  <2>1. form \in Form /\ form' = [form EXCEPT !.row = row] /\ UNCHANGED <<page, fetches>>
    BY <1>7 DEF Type, place, TypeInv, TypeOK
  <2>2. form'.calm = form.calm
    BY <2>1 DEF Form
  <2>3. form # Null
    BY <1>7 DEF Type
  <2> QED
    BY <2>1, <2>2, <2>3, FormKept DEF FormInv, LoginBare
<1> QED
  BY <1>2, <1>3, <1>4, <1>5, <1>6, <1>7 DEF Operator, Visit, Login

\* A dialog is calm if nothing else is on its way as it opens.
LEMMA FormArrival ==
    ASSUME TypeInv, FormInv, NEW i \in DOMAIN fetches, Arrival(i)
    PROVE  FormInv'
<1>1. /\ Rest(i) \in Seq(Fetch) /\ page # "login"
      /\ \A kinds : Has(Rest(i), kinds) =>
           Has(fetches, kinds) /\ \E j \in DOMAIN fetches \ {i} : fetches[j].kind \in kinds
  BY TakenKeeps, EmptySeq DEF FormInv, LoginBare
<1>2. CASE \/ ShowList(i) \/ ListFails(i) \/ OtherFails(i) \/ RunFails(i) \/ ShowLog(i)
           \/ ProjectsFail(i)
  <2>1. fetches' = Rest(i) /\ form' = form /\ page' = page
    BY <1>2 DEF ShowList, ListFails, OtherFails, RunFails, ShowLog, ProjectsFail, place
  <2> QED
    BY <1>1, <2>1, FormKept
<1>3. CASE Patch(i) \/ LabelsSettle(i) \/ ShowProjects(i) \/ ShowRun(i)
  <2>1. form' \in {Null, form} /\ page' = page
    BY <1>3 DEF Patch, LabelsSettle, ShowProjects, ShowRun, place
  <2>2. Has(fetches', {"task"}) => Has(Rest(i), {"task"})
    <3>1. CASE ~ShowRun(i) /\ (ShowProjects(i) => page = "tasks")
      <4>1. PICK project \in Projects \cup {Null} : Load(page, project, Rest(i))
        BY <1>3, <3>1 DEF Patch, LabelsSettle, ShowProjects, TypeInv, TypeOK
      <4> QED
        BY <1>1, <4>1, LoadSends
    <3>2. CASE ShowProjects(i) /\ page # "tasks"
      <4> DEFINE g == Request("labels", Null, Null)
      <4>1. g \in Fetch /\ g.kind = "labels" /\ fetches' = Append(Rest(i), g)
        BY <3>2, Requested DEF ShowProjects, Kind
      <4> HIDE DEF g
      <4> QED
        BY <1>1, <4>1, Appended
    <3>3. CASE ShowRun(i)
      <4> DEFINE g == Request("log", fetches[i].of, Null)
      <4>1. fetches[i].of \in Runs
        BY <3>3, NowTyped DEF ShowRun, Arrives, Fits
      <4>2. g \in Fetch /\ g.kind = "log" /\ fetches' = Append(Rest(i), g)
        BY <3>3, <4>1, Requested DEF ShowRun, Kind
      <4> HIDE DEF g
      <4> QED
        BY <1>1, <4>2, Appended
    <3> QED
      BY <3>1, <3>2, <3>3
  <2> QED
    BY <1>1, <2>1, <2>2, FormKept
<1>4. CASE OpenForm(i)
  <2>1. /\ fetches' = Rest(i) /\ page' = page
    BY <1>4 DEF OpenForm, place
  <2>2. form'.calm => ~Others(i, {"task", "save"})
    <3>1. PICK c : form' = [id |-> c.id, row |-> c.row, calm |-> ~Others(i, {"task", "save"})]
      BY <1>4 DEF OpenForm
    <3>2. form'.calm = ~Others(i, {"task", "save"})
      BY <3>1, Zenon
    <3> QED
      BY <3>2, Zenon
  <2>3. Has(fetches', {"task"}) => Others(i, {"task", "save"})
    BY <1>1, <2>1 DEF Others
  <2> QED
    BY <1>1, <2>1, <2>2, <2>3 DEF FormInv, CalmForm, LoginBare, InFlight, Has
<1>5. CASE Leave(i)
  BY <1>5 DEF Leave, FormInv, CalmForm, LoginBare
<1> QED
  BY <1>2, <1>3, <1>4, <1>5 DEF Arrival

\* Every step keeps what is known of the task dialog,
LEMMA FormStep == TypeInv /\ FormInv /\ [Next]_vars => FormInv'
<1> SUFFICES ASSUME TypeInv, FormInv, [Next]_vars PROVE FormInv'
  OBVIOUS
<1>1. CASE SessionEnds \/ OtherEdit \/ UNCHANGED vars
  BY <1>1 DEF SessionEnds, OtherEdit, vars, pageVars, place, FormInv, CalmForm, LoginBare, InFlight
<1>2. ASSUME NEW i \in DOMAIN fetches, Serve(i) \/ ServeNot(i) \/ Refuse(i) PROVE FormInv'
  <2>1. fetches[i] \in Fetch /\ Fits(fetches[i])
    BY NowTyped
  <2>2. PICK answer \in {"ok", "failed", "unauthorized"}, data \in SUBSET RowCopy : Answer(i, answer, data)
    BY <1>2, <2>1, AnswersAreCopies DEF Serve, ServeNot, Refuse
  <2>3. PICK e : e = WithAnswer(fetches[i], answer, data)
    OBVIOUS
  <2>4. \A kinds : Has(fetches', kinds) <=> Has(fetches, kinds)
    BY <2>2, <2>3, Changed
  <2>5. form' = form /\ page' = page
    BY <1>2 DEF Serve, ServeNot, Refuse, place
  <2>6. page # "login"
    BY EmptySeq DEF FormInv, LoginBare
  <2> QED
    BY <2>4, <2>5, <2>6, FormKept
<1> QED
  BY <1>1, <1>2, FormOperator, FormArrival DEF Next, Arrival

\* and does no more to one that was calm.
LEMMA FormChanges ==
    ASSUME TypeInv, FormInv, [Next]_vars
    PROVE  DialogStep
<1> SUFFICES ASSUME form # Null, form.calm, form' # form
             PROVE  \/ form' = Null /\ (InFlight({"save"}) \/ page' = "login")
                    \/ CloseDialog
                    \/ \E row \in Row : Type(row)
                    \/ \E pg \in {"tasks", "runs"} : Visit(pg)
  BY DEF DialogStep
<1>1. page # "login" /\ ~InFlight({"task"})
  BY DEF FormInv, LoginBare, CalmForm
<1>2. CASE Operator
  <2>1. ~Login /\ ~\E project \in Projects \cup {Null} : Select(project)
    BY <1>1 DEF Login, Select
  <2>2. ~\E c \in table.rows : ClickEdit(c) \/ ClickToggle(c)
    BY DEF ClickEdit, ClickToggle, Clickable
  <2>3. ~Submit /\ ~Logout /\ ~\E r \in Runs : ClickView(r)
    BY DEF Submit, Logout, ClickView
  <2> QED
    BY <1>2, <2>1, <2>2, <2>3 DEF Operator
<1>3. ASSUME NEW i \in DOMAIN fetches, Arrival(i)
      PROVE  form' = Null /\ (InFlight({"save"}) \/ page' = "login")
  <2>1. CASE OpenForm(i)
    BY <1>1, <2>1 DEF OpenForm, Arrives, InFlight
  <2>2. CASE Patch(i)
    BY <2>2 DEF Patch, Arrives, InFlight
  <2>3. CASE Leave(i)
    BY <2>3 DEF Leave
  <2>4. CASE ~OpenForm(i) /\ ~Patch(i) /\ ~Leave(i)
    BY <1>3, <2>4 DEF Arrival, ShowProjects, ProjectsFail, LabelsSettle, ShowList, ListFails, OtherFails,
                      ShowRun, RunFails, ShowLog
  <2> QED
    BY <2>1, <2>2, <2>3, <2>4
<1>4. ~SessionEnds /\ ~OtherEdit /\ vars' # vars
  BY DEF SessionEnds, OtherEdit, vars, pageVars
<1>5. \A i \in DOMAIN fetches : ~Serve(i) /\ ~ServeNot(i) /\ ~Refuse(i)
  BY DEF Serve, ServeNot, Refuse
<1> QED
  BY <1>2, <1>3, <1>4, <1>5 DEF Next, Arrival

-----------------------------------------------------------------------------

\* The invariant holds of every state of the page.
LEMMA WebUIInvariant == Spec => []IInv
<1>1. IInv /\ [Next]_vars => IInv'
  BY TypeStep, PlaceStep, FormStep, TableStep, DetailStep DEF IInv
<1> QED
  BY InitIInv, <1>1, PTL DEF Spec

\* Every variable keeps its type, and no more fetches are in flight than the bound.
THEOREM WebUITypes == Spec => []TypeOK
<1>1. IInv => TypeOK
  BY DEF IInv, TypeInv
<1> QED
  BY <1>1, WebUIInvariant, PTL

\* While "Loading..." shows, what will replace it is on its way or an error is shown,
\* from the moment a page is opened and with its projects failing to load, too.
THEOREM LoadingIsExplained == Spec => []NoSilentLoading
<1>1. IInv => NoSilentLoading
  BY DEF IInv, TableInv
<1> QED
  BY <1>1, WebUIInvariant, PTL

\* What is typed into a dialog that was opened with no other task or save on its way
\* goes only with the operator, a save sent from the dialog, or the page.
THEOREM TypedTextIsKept == Spec => TypedTextStays
<1>1. IInv /\ [Next]_vars => DialogStep
  BY FormChanges DEF IInv
<1> QED
  BY <1>1, WebUIInvariant, PTL DEF Spec, TypedTextStays

\* With answers in order, the page settles on what was asked for last, however many
\* clicks, failures and edits crossed: the table on the project that is selected and
\* its rows on the server, the run dialog on the fields and the log of its run.
THEOREM PageSettles == Spec => []SettlesAsAsked
<1>1. IInv => SettlesAsAsked
  BY FitSettles DEF IInv
<1> QED
  BY <1>1, WebUIInvariant, PTL

=============================================================================
