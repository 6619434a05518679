--------------------------------- MODULE Ex ---------------------------------
(* The ex command lines of vimb (src/ex.c): a line that the user typed, a    *)
(* file of lines (":source", the configuration of a new tab, the reload on   *)
(* SIGUSR2) or the lines that a shell command printed (":shellex").  Lines   *)
(* nest: a command of a line may run a file, and a line of that file the     *)
(* output of a shell command.  The nested calls are frames on a stack, the   *)
(* innermost first; a step runs one command or returns one result.           *)
(*                                                                           *)
(* A command is a record with a field kind:                                  *)
(*   "set"      fields name, op, value; what it does is told by Settings     *)
(*   "unknown"  a name that no command has: the parser gives up              *)
(*   "quiet", "say", "fail"  all commands without a nested line, by what     *)
(*              they return: success, success with a message that is to stay *)
(*              in the input box, and an error                               *)
(*   "source", "shellex", "tabopen"  the commands that run other lines       *)
(* and bang, whether it was written with a "!".  A line is a record of its   *)
(* commands and of lead, the positions of those behind a space or a ":".     *)
EXTENDS Settings, FiniteSets

CONSTANTS
    AnyLine,        \* all lines that are run
    Lines,          \* those that the user may type
    Files,          \* the files of ":source": name -> sequence of lines
    Config,         \* the lines of the configuration file
    FreedOutput,    \* what an output may read as after it was freed
    MaxRuns         \* how many lines are typed and reloads asked for

(* A command as the parser and setting_run make it: the value that is given  *)
(* to a setting has its type, and an output consists of lines.               *)
IsCommand(c) ==
    /\ c.kind \in {"set", "unknown", "quiet", "say", "fail", "source", "shellex", "tabopen"}
    /\ c.kind = "set" =>
          /\ c.op \in {"set", "append", "prepend", "remove", "toggle", "get"}
          /\ c.name \in Name /\ c.op \notin {"toggle", "get"} =>
                CASE Table[c.name].type = "bool" -> c.value \in BOOLEAN
                  [] Table[c.name].type = "int" -> c.value \in Int
                  [] OTHER -> IsText(c.value)
    /\ c.kind = "source" => c.file \in DOMAIN Files
    /\ c.kind = "shellex" => c.output \in Seq(AnyLine)

AnyCommand == UNION {ToSet(line.commands) : line \in AnyLine}

ASSUME ExAssumption ==
    /\ Tab # {} /\ IsFiniteSet(Tab) /\ MaxRuns \in Nat
    /\ \A line \in AnyLine : line.commands \in Seq(AnyCommand)
    /\ \A c \in AnyCommand : IsCommand(c)
    /\ Lines \subseteq AnyLine /\ Config \in Seq(AnyLine)
    /\ \A file \in DOMAIN Files : Files[file] \in Seq(AnyLine)
    /\ \A text \in Freed : IsText(text)
    /\ FreedOutput \subseteq Seq(AnyLine)

VARIABLES
    current,        \* the selected tab
    stack,          \* the calls that are under way, the innermost first
    tokens,         \* the lines that strtok has still to give, static in libc
    returned,       \* what the innermost call returned, or None
    box,            \* what the input box shows: "line", "message" or "empty"
    recorded,       \* the command history
    executed,       \* the commands that were run since the user typed a line
    runs            \* how many runs were started

ex == <<current, stack, tokens, returned, box, recorded, executed, runs>>
vars == <<settings, ex>>

Result(ok, keep) == [ok |-> ok, keep |-> keep]
None == [ok |-> FALSE, keep |-> FALSE, none |-> TRUE]
Stops(r) == ~r.ok /\ ~r.keep

LineFrame(t, line, typed) ==
    [kind |-> "line", tab |-> t, line |-> line, at |-> 1, bang |-> FALSE,
     nohist |-> FALSE, typed |-> typed, res |-> Result(FALSE, TRUE)]
FileFrame(t, lines, caller) ==
    [kind |-> "file", tab |-> t, lines |-> lines, caller |-> caller,
     res |-> Result(TRUE, FALSE)]
ShellFrame(t, lines) ==
    [kind |-> "shell", tab |-> t, lines |-> lines, first |-> TRUE,
     res |-> Result(TRUE, FALSE)]

Top == stack[1]
Runs(kind) == stack # <<>> /\ returned = None /\ Top.kind = kind
Push(f) == stack' = <<f>> \o stack
PushOver(g, f) == stack' = <<f, g>> \o Tail(stack)
Replace(f) == stack' = <<f>> \o Tail(stack)
Pop(r) == stack' = Tail(stack) /\ returned' = r
Idle == stack = <<>> /\ returned = None

Init ==
    /\ InitSettings
    /\ current = CHOOSE t \in Tab : TRUE
    /\ stack = <<>> /\ tokens = <<>> /\ returned = None
    /\ box = "empty" /\ recorded = <<>> /\ executed = <<>> /\ runs = 0

-----------------------------------------------------------------------------
TypeOK ==
    /\ current \in Tab /\ runs \in 0 .. MaxRuns
    /\ box \in {"line", "message", "empty"}
    /\ \A t \in Open : /\ DOMAIN stored[t] = Name /\ DOMAIN view[t] = Of("view")
                      /\ \A n \in Name : Typed(Table[n].type, stored[t][n])
    /\ Open # {} => /\ DOMAIN session = Of("session")
                    /\ \A n \in Of("session") : Typed(Table[n].type, session[n])
    /\ \A i \in DOMAIN stack : stack[i].tab \in Open

-----------------------------------------------------------------------------
(* The first tab: its settings, then the configuration.                      *)
Start ==
    /\ Open = {}
    /\ SettingInit(current)
    /\ Push(FileFrame(current, Config, "none"))
    /\ UNCHANGED <<current, tokens, returned, box, recorded, executed, runs>>

(* The user ends a line with Enter.                                          *)
InputActivate(line) ==
    /\ Idle /\ Open # {} /\ runs < MaxRuns
    /\ (\E i \in DOMAIN line.commands : line.commands[i].kind = "tabopen") => Open # Tab
    /\ Push(LineFrame(current, line, TRUE))
    /\ box' = "line" /\ executed' = <<>> /\ runs' = runs + 1
    /\ UNCHANGED <<settings, current, tokens, returned, recorded>>

(* SIGUSR2: the configuration is run once more in every tab. *)
ReloadConfig ==
    /\ Idle /\ Open # {} /\ runs < MaxRuns
    /\ LET tabs == SetToSeq(Open)
       IN  stack' = [i \in DOMAIN tabs |-> FileFrame(tabs[i], Config, "none")]
    /\ executed' = <<>> /\ runs' = runs + 1
    /\ UNCHANGED <<settings, current, tokens, returned, box, recorded>>

(* A tab is closed while no line is run.                                     *)
CloseTab(t) ==
    /\ Idle /\ t \in Open /\ Open # {t} /\ runs < MaxRuns
    /\ SettingCleanup(t)
    /\ current' \in IF current = t THEN Open \ {t} ELSE {current}
    /\ executed' = <<>> /\ runs' = runs + 1
    /\ UNCHANGED <<stack, tokens, returned, box, recorded>>

-----------------------------------------------------------------------------
(* The next command of a line.  What the parser found before stays in arg:   *)
(* a bang is never taken back, and nohist neither.                           *)

HasNext(f) == f.at <= Len(f.line.commands)
Upcoming(f) == f.line.commands[f.at]

Parsed(f) ==
    [f EXCEPT !.at = f.at + 1,
              !.bang = f.bang \/ Upcoming(f).bang,
              !.nohist = f.nohist \/ f.at \in f.line.lead]

\* What was run, in which tab, and what it returned if that is known at once.
Entry(t, c, bang, res) == [tab |-> t, command |-> c, bang |-> bang, res |-> res]
Ran(f, res) == executed' = Append(executed, Entry(f.tab, Upcoming(f), Parsed(f).bang, res))

MutantRecordAll(f) ==
    /\ Pop(f.res)
    /\ recorded' = IF ~f.nohist THEN Append(recorded, f.line) ELSE recorded

(* ex_run_string is over: a typed line is recorded.                          *)
RunStringEnds(f) ==
    /\ Pop(f.res)
    /\ recorded' = IF f.typed /\ ~f.nohist THEN Append(recorded, f.line) ELSE recorded

LineEnd ==
    /\ Runs("line") /\ ~HasNext(Top)
    /\ RunStringEnds(Top)
    /\ UNCHANGED <<settings, current, tokens, box, executed, runs>>

MutantGoOn ==
    /\ Runs("line") /\ HasNext(Top) /\ Upcoming(Top).kind = "unknown"
    /\ box' = "message"
    /\ UNCHANGED <<settings, current, stack, tokens, returned, recorded, executed, runs>>

(* An unknown name: a message, and what the last command returned is what    *)
(* the line returns.                                                         *)
Unknown ==
    /\ Runs("line") /\ HasNext(Top) /\ Upcoming(Top).kind = "unknown"
    /\ RunStringEnds([Top EXCEPT !.nohist = Parsed(Top).nohist])
    /\ box' = "message"
    /\ UNCHANGED <<settings, current, tokens, executed, runs>>

ExSet ==
    /\ Runs("line") /\ HasNext(Top) /\ Upcoming(Top).kind = "set"
    /\ SettingRun(Top.tab, Upcoming(Top))
    /\ LET r == SettingResult(Top.tab, Upcoming(Top))
       IN  /\ returned' = r
           /\ box' = IF r.keep THEN "message" ELSE box
           /\ Ran(Top, r)
    /\ Replace(Parsed(Top))
    /\ UNCHANGED <<current, tokens, recorded, runs>>

(* The commands that run no other lines, by what they return.                *)
Outcome == [quiet |-> Result(TRUE, FALSE), say |-> Result(TRUE, TRUE),
            fail |-> Result(FALSE, FALSE)]

Execute ==
    /\ Runs("line") /\ HasNext(Top) /\ Upcoming(Top).kind \in DOMAIN Outcome
    /\ returned' = Outcome[Upcoming(Top).kind]
    /\ box' = IF Upcoming(Top).kind = "say" THEN "message" ELSE box
    /\ Ran(Top, Outcome[Upcoming(Top).kind]) /\ Replace(Parsed(Top))
    /\ UNCHANGED <<settings, current, tokens, recorded, runs>>

ExSource ==
    /\ Runs("line") /\ HasNext(Top) /\ Upcoming(Top).kind = "source"
    /\ Ran(Top, None)
    /\ PushOver(Parsed(Top), FileFrame(Top.tab, Files[Upcoming(Top).file], "source"))
    /\ UNCHANGED <<settings, current, tokens, returned, box, recorded, runs>>

ExShellex ==
    /\ Runs("line") /\ HasNext(Top) /\ Upcoming(Top).kind = "shellex"
    /\ Ran(Top, None)
    /\ PushOver(Parsed(Top), ShellFrame(Top.tab, Upcoming(Top).output))
    /\ UNCHANGED <<settings, current, tokens, returned, box, recorded, runs>>

(* A new tab, whose configuration is run before the page is loaded and the   *)
(* tab selected.                                                             *)
ExTabopen ==
    /\ Runs("line") /\ HasNext(Top) /\ Upcoming(Top).kind = "tabopen"
    /\ Ran(Top, None)
    /\ \E t \in Tab \ Open :
        /\ SettingInit(t)
        /\ PushOver(Parsed(Top), FileFrame(t, Config, "tabopen"))
    /\ UNCHANGED <<current, tokens, returned, box, recorded, runs>>

-----------------------------------------------------------------------------
(* The loops over the lines of a file and of the output of a command.        *)

FileLine ==
    /\ Runs("file") /\ Top.lines # <<>>
    /\ PushOver([Top EXCEPT !.lines = Tail(@)], LineFrame(Top.tab, Head(Top.lines), FALSE))
    /\ UNCHANGED <<settings, current, tokens, returned, box, recorded, executed, runs>>

FileEnd ==
    /\ Runs("file") /\ Top.lines = <<>>
    /\ Pop(CASE Top.caller = "source" -> Top.res
              [] Top.caller = "tabopen" -> Result(TRUE, FALSE)
              [] Top.caller = "none" -> None)
    /\ current' = IF Top.caller = "tabopen" THEN Top.tab ELSE current
    /\ UNCHANGED <<settings, tokens, box, recorded, executed, runs>>

(* strtok: the first call starts with the output of this command, the other  *)
(* calls go on with the text that any call has started with last.  That text *)
(* is freed when its command returns, and a command around it, of whose      *)
(* output it was a line, still reads it: it may be there, or be another.     *)
AfterFree(lines) == {lines} \cup FreedOutput

ShellLine ==
    /\ Runs("shell")
    /\ LET rest == IF Top.first THEN Top.lines ELSE tokens
           f == [Top EXCEPT !.first = FALSE, !.lines = <<>>]
       IN  IF rest = <<>>
           THEN Pop(Top.res) /\ tokens' \in AfterFree(<<>>)
           ELSE /\ tokens' = Tail(rest)
                /\ PushOver(f, LineFrame(Top.tab, Head(rest), FALSE))
                /\ UNCHANGED returned
    /\ UNCHANGED <<settings, current, box, recorded, executed, runs>>

-----------------------------------------------------------------------------
(* What a call returned is taken by the one that made it.                    *)

TakeInLine ==
    /\ LET f == [Top EXCEPT !.res = returned]
       IN  IF Stops(returned) THEN RunStringEnds(f)
           ELSE Replace(f) /\ returned' = None /\ UNCHANGED recorded
    /\ UNCHANGED tokens

MutantStopFile ==
    /\ IF returned.ok THEN Replace(Top) /\ returned' = None
                      ELSE Pop(Result(FALSE, TRUE))
    /\ UNCHANGED <<recorded, tokens>>

(* A line that fails makes the file fail, but does not end it. *)
TakeInFile ==
    /\ Replace(IF returned.ok THEN Top ELSE [Top EXCEPT !.res = Result(FALSE, TRUE)])
    /\ returned' = None /\ UNCHANGED <<recorded, tokens>>

(* A line that fails ends what is done with the output. *)
TakeInShell ==
    /\ IF returned.ok
       THEN Replace([Top EXCEPT !.res = returned]) /\ returned' = None /\ UNCHANGED tokens
       ELSE Pop(returned) /\ tokens' \in AfterFree(tokens)
    /\ UNCHANGED recorded

TakeResult ==
    /\ stack # <<>> /\ returned # None
    /\ CASE Top.kind = "line" -> TakeInLine
         [] Top.kind = "file" -> TakeInFile
         [] Top.kind = "shell" -> TakeInShell
    /\ UNCHANGED <<settings, current, box, executed, runs>>

(* The typed line is over: the input box is emptied, unless it is to be kept.*)
Activated ==
    /\ stack = <<>> /\ returned # None
    /\ returned' = None
    /\ box' = IF returned.keep THEN box ELSE "empty"
    /\ UNCHANGED <<settings, current, stack, tokens, recorded, executed, runs>>

Run ==
    \/ LineEnd \/ Unknown \/ ExSet \/ Execute \/ ExSource \/ ExShellex \/ ExTabopen
    \/ FileLine \/ FileEnd \/ ShellLine \/ TakeResult \/ Activated

Next ==
    \/ Start
    \/ \E line \in Lines : InputActivate(line)
    \/ ReloadConfig
    \/ \E t \in Tab : CloseTab(t)
    \/ Run

Spec == Init /\ [][Next]_vars /\ WF_vars(Run)

-----------------------------------------------------------------------------
(* Only what the user typed gets into the command history: no line of a      *)
(* file, of the configuration of a tab or of what a shell command printed,   *)
(* however they are nested.  (ex_run_string is called for all of them.)      *)
OnlyTypedIsRecorded ==
    [][recorded' # recorded
        => /\ Len(stack) = 1
           /\ recorded' = Append(recorded, Top.line)
           /\ returned = None \/ Stops(returned)]_vars

-----------------------------------------------------------------------------
(* What a line does, told without a stack.  A task is what is left to do of  *)
(* a line, of a file or of an output: its tab, its commands or lines, what   *)
(* it returns if none is left, and whether a command of it had a bang.       *)
(* An outcome is what is run, what is returned, and the text that strtok is  *)
(* left with: none if it was not called.                                     *)
Results == [ok : BOOLEAN, keep : BOOLEAN]
LineTask(t, commands, res, bang) ==
    [kind |-> "line", tab |-> t, items |-> commands, res |-> res, bang |-> bang]
FileTask(t, lines, res) == [kind |-> "file", tab |-> t, items |-> lines, res |-> res, bang |-> FALSE]
ShellTask(t, lines, res) == [kind |-> "shell", tab |-> t, items |-> lines, res |-> res, bang |-> FALSE]
Tasks ==
    [kind : {"line"}, tab : Tab, items : Seq(AnyCommand), res : Results, bang : BOOLEAN]
    \cup [kind : {"file", "shell"}, tab : Tab, items : Seq(AnyLine), res : Results, bang : {FALSE}]

Did(done, res, left) == [done |-> done, res |-> res, left |-> left]
Entries == [tab : Tab, command : AnyCommand, bang : BOOLEAN, res : Results \cup {None}]
Outcomes ==
    [done : Seq(Entries), res : Results, left : Seq(Seq(AnyLine))]
Then(first, next) ==
    Did(first.done \o next.done, next.res, IF next.left = <<>> THEN first.left ELSE next.left)

(* The file or the output that a command runs; a new tab may be any.        *)
Calls(t, c) ==
    LET start == Result(TRUE, FALSE)
    IN  CASE c.kind = "source" -> {FileTask(t, Files[c.file], start)}
          [] c.kind = "shellex" -> {ShellTask(t, c.output, start)}
          [] c.kind = "tabopen" -> {FileTask(new, Config, start) : new \in Tab}

(* One command.  A setting may be accepted or refused, but it never fails    *)
(* without a message; what a file or an output returns is what the command   *)
(* returns, and a new tab always succeeds.                                   *)
Value(c, res) == IF c.kind = "tabopen" THEN Result(TRUE, FALSE) ELSE res
RanOne(t, c, bang, res) == Did(<<Entry(t, c, bang, res)>>, res, <<>>)
CommandDoes(does, t, c, bang) ==
    CASE c.kind = "set" -> {RanOne(t, c, bang, res) : res \in {r \in Results : ~Stops(r)}}
      [] c.kind \in DOMAIN Outcome -> {RanOne(t, c, bang, Outcome[c.kind])}
      [] OTHER -> {Then(RanOne(t, c, bang, None), Did(o.done, Value(c, o.res), o.left)) :
                        o \in UNION {does[call] : call \in Calls(t, c)}}

(* A failure without a message ends a line, and an unknown name.             *)
LineDoes(does, x) ==
    LET c == Head(x.items)
        bang == x.bang \/ c.bang
        On(first) ==
            IF Stops(first.res) THEN {first}
            ELSE {Then(first, o) : o \in does[LineTask(x.tab, Tail(x.items), first.res, bang)]}
    IN  IF c.kind = "unknown" THEN {Did(<<>>, x.res, <<>>)}
        ELSE UNION {On(first) : first \in CommandDoes(does, x.tab, c, bang)}

NextLineDoes(does, x) == does[LineTask(x.tab, Head(x.items).commands, Result(FALSE, TRUE), FALSE)]

(* A line that fails makes the file fail, and does not end it.               *)
FileDoes(does, x) ==
    LET On(line) == {Then(line, o) : o \in does[FileTask(x.tab, Tail(x.items),
                                                        IF line.res.ok THEN x.res ELSE Result(FALSE, TRUE))]}
    IN  UNION {On(line) : line \in NextLineDoes(does, x)}

(* A line that fails ends what is done with an output; what follows a line   *)
(* is what it left.                                                          *)
OutputEnds(res, lines) == {Did(<<>>, res, <<left>>) : left \in AfterFree(lines)}
ShellDoes(does, x) ==
    LET Rest(line) == IF line.res.ok THEN does[ShellTask(x.tab, line.left[1], line.res)]
                                     ELSE OutputEnds(line.res, line.left[1])
        On(line) == {Then(line, o) : o \in Rest(line)}
        Taken(line) == Then(Did(<<>>, x.res, <<Tail(x.items)>>), line)
    IN  UNION {On(Taken(line)) : line \in NextLineDoes(does, x)}

TaskDoes(does, x) ==
    IF x.items = <<>>
    THEN IF x.kind = "shell" THEN OutputEnds(x.res, <<>>) ELSE {Did(<<>>, x.res, <<>>)}
    ELSE CASE x.kind = "line" -> LineDoes(does, x)
           [] x.kind = "file" -> FileDoes(does, x)
           [] x.kind = "shell" -> ShellDoes(does, x)

(* Where files run each other in a circle more than one function obeys this, *)
(* and each of them has all that a task can come to.                         *)
Does[x \in Tasks] == TaskDoes(Does, x) \cap Outcomes

(* A typed line has run, when it is over, exactly the commands that it, its  *)
(* files, the output of its shell commands and the configuration of its new  *)
(* tab are made of, in their order and each in its tab, and returns what the *)
(* last of them is worth: a failure ends a line and what a shell command     *)
(* printed, but not a file.  (ex_run_string, ex_run_file and ex_shellex call *)
(* each other, and the lines of all shell commands are kept by one strtok.)  *)
RunsInOrder ==
    [][(Len(stack) = 1 /\ Top.kind = "line" /\ stack' = <<>>)
        => \E o \in Does[LineTask(Top.tab, Top.line.commands, Result(FALSE, TRUE), FALSE)] :
              o.done = executed' /\ o.res = returned']_vars

(* A typed line runs its commands in order and to its end, and it alone is   *)
(* remembered (ex_run_string, ex_run_file, ex_shellex).                      *)
LinesAreRun == RunsInOrder /\ OnlyTypedIsRecorded

(* Every run comes to its end, whatever fails in it: the loops over the      *)
(* commands, lines and tokens all go on.                                     *)
RunsEnd == []<>Idle

(* Whatever lines are run, in whatever order: the settings keep their types, *)
(* and what they say is in force.                                            *)
SettingsHold == TypeOK /\ StoredIsInForce

(* What the documentation says of "+=" and "^=" (doc/vimb.1:739): what was   *)
(* in the list before is still in it.  Not so if the value is in it already. *)
AddLosesNothing ==
    [][\A t \in Open :
        /\ Runs("line") /\ HasNext(Top) /\ Upcoming(Top).kind = "set" /\ Top.tab = t
        /\ Upcoming(Top).op \in {"append", "prepend"} /\ Upcoming(Top).name = "header"
        => ToSet(Items(stored[t].header)) \subseteq ToSet(Items(stored'[t].header))]_vars

(* What a TODO of setting_init asks for: a new tab leaves what all tabs      *)
(* share as it is.  Not so: it puts the defaults in force again.             *)
NewTabKeepsShared == [][ExTabopen => UNCHANGED session]_vars

(* A command is run with a bang only if it was written with one.  Not so: a  *)
(* bang is kept for the commands behind it.                                  *)
BangIsOwn == \A i \in DOMAIN executed : executed[i].bang = executed[i].command.bang
=============================================================================
