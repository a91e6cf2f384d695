---------------------------- MODULE RemoteCommand ---------------------------
(***************************************************************************)
(* What becomes of a task's command on its way to the worker host: the     *)
(* placeholders get their values (internal/placeholder), the result is put *)
(* behind a cd into the project and wrapped for bash (internal/runner),    *)
(* and two shells take it apart again, the login shell that sshd starts    *)
(* and the bash it calls.                                                  *)
(*                                                                         *)
(* A text is a sequence of symbols: a symbol stands for a run of ordinary  *)
(* characters, or is one of the characters that mean something on the way: *)
(* a blank, a single quote, a backslash, a byte that is not UTF-8, "&&", a *)
(* placeholder {{key}}.  A task's command is a shell string, or a JSON     *)
(* array of strings; double quotes, variables and the shell's other        *)
(* operators are what an operator writes in a shell string on purpose, and *)
(* are left out.                                                           *)
(***************************************************************************)
EXTENDS Naturals, Sequences, SequencesExt

CONSTANTS
    Keys,        \* the five names that Expand knows
    Unknown,     \* another name that placeholderRE matches, of [a-z0-9_]
    Unmatched,   \* a name in double braces that it does not match, like {{Prompt}}
    Vals,        \* values of a project's and a task's fields: a set of [Keys -> texts]
    Paths,       \* texts project.path may hold
    ShellParts,  \* words of shell strings: without blanks, quotes, backslashes
    JSONParts,   \* elements of JSON arrays: any texts
    MaxParts,    \* bound: words of a command
    Unsent       \* no command, or none sent yet

VARIABLES command,   \* the task's command and the row values it is sent with
          sent       \* what arrived: the words of a process, or an error

commandVars == <<command, sent>>

Blank == "blank"
Quote == "quote"
Backslash == "backslash"
BadByte == "bad byte"
And == "&&"
Placeholder(key) == "{{" \o key \o "}}"

\* What a text is made of.
Symbol == STRING

Error == [error |-> TRUE]
Received(cwd, argv) == [error |-> FALSE, cwd |-> cwd, argv |-> argv]

-----------------------------------------------------------------------------
(* Expand.                                                                   *)

\* Mutant of ShellQuote: quotes in the value are not escaped.
QuoteOnce(s) == <<Quote>> \o s \o <<Quote>>

ShellQuote(s) ==
    <<Quote>> \o
    FlattenSeq([i \in DOMAIN s |->
                  IF s[i] = Quote THEN <<Quote, Backslash, Quote, Quote>> ELSE <<s[i]>>])
    \o <<Quote>>

\* What placeholderRE finds in s; other double braces are ordinary text to it.
Mentions(s, key) == Placeholder(key) \in Range(s)

\* One pass over s: what a value brings in is not looked at again.
Replace(s, vals, shellEscape) ==
    LET value(symbol) == vals[CHOOSE key \in Keys : symbol = Placeholder(key)]
    IN  FlattenSeq([i \in DOMAIN s |->
                      IF \A key \in Keys : s[i] # Placeholder(key) THEN <<s[i]>>
                      ELSE IF shellEscape THEN ShellQuote(value(s[i])) ELSE value(s[i])])

\* json.Marshal writes U+FFFD for a byte that is not UTF-8; what else it
\* escapes, Unmarshal gives back.
ThroughJSON(s) == [i \in DOMAIN s |-> IF s[i] = BadByte THEN "U+FFFD" ELSE s[i]]

Expand(c) ==
    IF \E part \in Range(c.parts) : Mentions(part, Unknown)
      THEN Error
      ELSE [error |-> FALSE, json |-> c.json,
            parts |-> [i \in DOMAIN c.parts |->
                         IF c.json THEN ThroughJSON(Replace(c.parts[i], c.vals, FALSE))
                                   ELSE Replace(c.parts[i], c.vals, TRUE)]]

-----------------------------------------------------------------------------
(* BuildRemoteCommand.                                                       *)

\* Texts with blanks between them.
Join(texts) ==
    FlattenSeq([i \in DOMAIN texts |-> IF i = 1 THEN texts[i] ELSE <<Blank>> \o texts[i]])

Cd(path) == <<"cd", Blank>> \o ShellQuote(path) \o <<Blank, And, Blank>>

RemoteInner(path, e) ==
    IF e.json
      THEN Cd(path) \o <<"exec", Blank>> \o
           Join([i \in DOMAIN e.parts |-> ShellQuote(e.parts[i])])
      ELSE Cd(path) \o Join(e.parts)

BuildRemoteCommand(path, e) ==
    IF path = <<>> \/ (e.json /\ e.parts = <<>>)
      THEN Error
      ELSE [error |-> FALSE,
            text |-> Join(<<<<"bash">>, <<"-lc">>, ShellQuote(RemoteInner(path, e))>>)]

-----------------------------------------------------------------------------
(* A POSIX shell's reading of a text: words are split at blanks; a backslash *)
(* outside quotes and everything inside single quotes is literal.            *)

Scanned == [mode |-> "plain", inWord |-> FALSE, word |-> <<>>, words |-> <<>>]

EndWord(z) ==
    IF z.inWord THEN [z EXCEPT !.words = Append(@, z.word), !.word = <<>>, !.inWord = FALSE]
                ELSE z

Literal(z, c) == [z EXCEPT !.word = Append(@, c), !.inWord = TRUE, !.mode =
                    IF @ = "escaped" THEN "plain" ELSE @]

ReadSymbol(z, c) ==
    IF z.mode = "plain" THEN
        CASE c = Quote -> [z EXCEPT !.mode = "quoted", !.inWord = TRUE]
          [] c = Backslash -> [z EXCEPT !.mode = "escaped"]
          [] c = Blank -> EndWord(z)
          [] c = And -> [EndWord(z) EXCEPT !.words = Append(@, And)]
          [] OTHER -> Literal(z, c)
    ELSE IF z.mode = "quoted" /\ c = Quote THEN [z EXCEPT !.mode = "plain"]
    ELSE Literal(z, c)

\* (FoldLeft, unfolded: the community module's goes by sets of positions.)
Read(z, text) ==
    LET read[i \in 0 .. Len(text)] == IF i = 0 THEN z ELSE ReadSymbol(read[i - 1], text[i])
    IN  read[Len(text)]

Words(text) == EndWord(Read(Scanned, text)).words

\* What the process on the worker host gets: the login shell runs bash, bash
\* the script "cd path && ..." it was given, exec leaves its arguments.
Run(text) ==
    LET outer == Words(text)
        script == Words(outer[3])
        argv == SubSeq(script, 4, Len(script))
    IN  IF /\ Len(outer) = 3 /\ SubSeq(outer, 1, 2) = <<<<"bash">>, <<"-lc">>>>
           /\ Len(script) > 3 /\ script[1] = <<"cd">> /\ script[3] = And
          THEN Received(script[2], IF Head(argv) = <<"exec">> THEN Tail(argv) ELSE argv)
          ELSE Error

-----------------------------------------------------------------------------
\* What a text means to the documents: each placeholder stands for its value, literally.
Filled(s, vals) ==
    LET means(symbol) == IF \E key \in Keys : symbol = Placeholder(key)
                           THEN vals[CHOOSE key \in Keys : symbol = Placeholder(key)]
                           ELSE <<symbol>>
    IN  FlattenSeq([i \in DOMAIN s |-> means(s[i])])

\* A word of a shell string has no symbol that would end or quote it, and none
\* becomes "exec", which a shell takes for itself.  A project has a path.
ASSUME TextAssumption ==
    /\ Vals \subseteq [Keys -> Seq(Symbol)]
    /\ Paths \subseteq Seq(Symbol) \ {<<>>}
    /\ JSONParts \subseteq Seq(Symbol)
    /\ ShellParts \subseteq Seq(Symbol \ {Blank, Quote, Backslash, And}) \ {<<>>}
    /\ \A part \in ShellParts, vals \in Vals : Filled(part, vals) # <<"exec">>
    /\ {Blank, Quote, Backslash, And, BadByte, "U+FFFD", "cd", "exec", "bash", "-lc"} \subseteq Symbol
    /\ MaxParts \in Nat

Command ==
    [json : {TRUE}, parts : BoundedSeq(JSONParts, MaxParts), vals : Vals, path : Paths]
    \cup [json : {FALSE}, parts : BoundedSeq(ShellParts, MaxParts) \ {<<>>}, vals : Vals,
          path : Paths]

CommandInit ==
    /\ command \in Command
    /\ sent = Unsent

\* tryStart: Expand, then Run, which gives up before ssh on an error of either.
Send ==
    LET expanded == Expand(command)
        remote == BuildRemoteCommand(command.path, expanded)
    IN  /\ sent = Unsent
        /\ sent' = IF expanded.error \/ remote.error THEN Error ELSE Run(remote.text)
        /\ UNCHANGED command

-----------------------------------------------------------------------------
HasUnknown(c) ==
    \E part \in Range(c.parts), name \in {Unknown, Unmatched} : Placeholder(name) \in Range(part)

\* One word stays one word; a name that is none of the five is an error.
Meant(c) ==
    IF c.parts = <<>> \/ HasUnknown(c) THEN Error
    ELSE Received(c.path, [i \in DOMAIN c.parts |-> Filled(c.parts[i], c.vals)])

\* No name in double braces is one the expression passes over.
NamesMatched(c) == \A part \in Range(c.parts) : Placeholder(Unmatched) \notin Range(part)

\* JSON holds UTF-8 only: the elements of an array, filled in, are that.
FitsJSON(c) == c.json => \A part \in Range(c.parts) : BadByte \notin Range(Filled(part, c.vals))

\* The worker host runs, in the project's directory, the words the operator meant:
\* no blank, quote, backslash or placeholder in a value makes or breaks a word, and
\* a command with an unknown placeholder or without words is refused before anything
\* is sent (placeholder.Expand, BuildRemoteCommand and the two shells together).
\*
\* Two kinds of commands are excepted, for which the code does not do what specs/01
\* says ("JSON argv commands substitute literally.  Unknown {{...}} -> error"): a
\* JSON array with a value that is not UTF-8 is serialized again and arrives changed,
\* and a name that the expression does not match, like {{Prompt}}, is sent as it is.
ArrivesAsMeant ==
    sent # Unsent /\ NamesMatched(command) /\ FitsJSON(command) => sent = Meant(command)
=============================================================================
