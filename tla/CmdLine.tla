------------------------------ MODULE CmdLine -------------------------------
(* The command line of a tab: the input box with its messages (src/main.c),  *)
(* its keys, completion and history (src/ex.c, src/completion.c), and the    *)
(* search (src/command.c).  A text is a sequence of characters, the cursor   *)
(* is at its end.  "?" is "/" in the other direction and is left out with    *)
(* the direction; the prompts of hints are in Modes.  The input box has the  *)
(* focus exactly in the command mode; the mouse is left out.                 *)
EXTENDS Integers, Sequences, SequencesExt, FiniteSets

CONSTANTS
    Char,               \* the characters
    NameList, ArgList,  \* the names of commands and what their argument can be, in order
    Lines,              \* the histories at the start
    Keys,               \* the characters that are typed behind a prompt
    MaxText,            \* bound: the length of a text that is typed or completed
    MaxLines, MaxLost, MaxPending, MaxPrompts  \* bounds: the lines of a history,
                        \* lost timers, answers, prompts that are opened

Prompts == {":", "/"}
Digit == {"5"}

None == <<"none">>       \* a text that is NULL
Message == <<"m">>       \* what stands in the box and is not a prompt any more
Text == Seq(Char)

ASSUME CmdLineAssumption ==
    /\ Prompts \subseteq Char /\ {None, Message} \subseteq Text
    /\ {NameList, ArgList} \subseteq Seq(Text)
    /\ \A items \in {NameList, ArgList} : \A item \in Range(items) : item # <<>>
    /\ Lines \in [Prompts -> Seq(Text)]
    /\ Keys \in [Prompts -> SUBSET Char]
    /\ MaxText \in [Prompts -> Nat]
    /\ {MaxLines, MaxLost, MaxPending, MaxPrompts} \subseteq Nat

VARIABLES
    mode,       \* of the tab
    text,       \* in the input box
    timer,      \* the timer of state.input_timer runs
    lost,       \* how many others run, whose number was overwritten
    list,       \* the completion that is shown: its items, the selected one, and
                \* the active one as the code counts, from 1
    comp,       \* excomp, with the text it was started with
    walk,       \* exhist: the items, and at which one it stands
    lines,      \* the histories
    register,   \* the register "/"
    search,     \* state.search; of the matches, whose they are
    pending,    \* what the page was asked for and has not answered
    incsearch,  \* the setting
    opened      \* how many prompts were opened, for the bound

inputVars == <<text, timer, lost>>
compVars == <<list, comp>>
searchVars == <<search, pending, register>>
vars == <<mode, inputVars, compVars, walk, lines, searchVars, incsearch, opened>>

Closed == [items |-> <<>>, sel |-> 0, active |-> 0]
NoWalk == [items |-> <<>>, at |-> 0, prefix |-> ":"]
Rest(t) == Tail(t)
Focused == mode = "command"

-----------------------------------------------------------------------------
(* The input box.                                                            *)

\* Mutant: a text that stays does not stop the timer of the last one.
MutantKeepsTimer(hide) ==
    /\ timer' = (timer \/ hide)
    /\ lost' = IF hide /\ timer THEN lost + 1 ELSE lost
    /\ lost' <= MaxLost

\* The timer of input_print: one that is replaced by another runs on.
PrintTimer(hide) ==
    /\ timer' = hide
    /\ lost' = IF hide /\ timer THEN lost + 1 ELSE lost
    /\ lost' <= MaxLost

InputPrint(t, hide) == text' = t /\ PrintTimer(hide)
SetText(t) == text' = t /\ UNCHANGED <<timer, lost>>

-----------------------------------------------------------------------------
(* The search.  A request of the page is the text whose matches it counts.   *)

Request(t, step) == [text |-> t, step |-> step]
Finish(s) == [s EXCEPT !.active = FALSE]

\* Mutant: the search for nothing that comes first is not counted.
MutantOneAwaited(s, asks) == s.awaited + 1
Awaits(s, asks) == s.awaited + Len(asks)

\* The query of command_search: None is NULL, and takes the last one.
Given(s, query) == IF query = None /\ ~s.active THEN s.last ELSE query

Recorded == Len(lines'[":"]) + Len(lines'["/"])

\* command_search in state s of the search; what is committed is recorded.
Search(s, query, commit) ==
    LET given == Given(s, query)
        q == IF commit /\ given = None THEN register ELSE given
        asks == CASE q = None -> <<>>
                  [] q # None /\ commit -> <<Request(<<>>, FALSE), Request(q, FALSE)>>
                  [] OTHER -> <<Request(q, FALSE)>>
        steps == IF q = None /\ s.active THEN <<Request(s.last, TRUE)>> ELSE <<>>
        overtaken == \E i \in DOMAIN pending : pending[i].step
    IN  /\ search' = IF q = None THEN s
                     ELSE [active |-> TRUE, last |-> q, awaited |-> Awaits(s, asks), matches |-> s.matches,
                           raced |-> overtaken \/ (s.raced /\ pending # <<>>)]
        /\ pending' = pending \o asks \o steps
        /\ Len(pending') <= MaxPending
        /\ register' = IF commit /\ given # None THEN given ELSE register
        /\ lines' = IF commit /\ given # None THEN [lines EXCEPT !["/"] = Append(@, given)] ELSE lines
        /\ Recorded <= MaxLines

NoSearch(s) == search' = s /\ UNCHANGED <<pending, register, lines>>

\* on_textbuffer_changed and ex_input_changed for the new text t.
InputChanged(t, s, shown) ==
    IF ~shown /\ incsearch /\ t # <<>> /\ t[1] = "/"
    THEN Search(s, Rest(t), FALSE)
    ELSE NoSearch(s)

-----------------------------------------------------------------------------
(* Completion.                                                               *)

\* The items of a sequence that are in a set, in their order.
Kept(items, set) ==
    LET kept[i \in 0 .. Len(items)] ==
            IF i = 0 THEN <<>>
            ELSE IF items[i] \in set THEN Append(kept[i - 1], items[i]) ELSE kept[i - 1]
    IN  kept[Len(items)]

StartWith(items, t) == Kept(items, {item \in Range(items) : IsPrefix(t, item)})
From(t, i) == SubSeq(t, i, Len(t))
\* The first place from i on with one of the characters, behind the end for none.
First(t, i, chars) ==
    CHOOSE j \in i .. Len(t) + 1 : /\ j <= Len(t) => t[j] \in chars
                                   /\ \A k \in i .. j - 1 : t[k] \notin chars
Except(chars) == Char \ chars

\* The lines of a history once each, the latest first.
Newest(file) ==
    LET newest[i \in 0 .. Len(file)] ==
            IF i = 0 THEN <<>>
            ELSE IF file[i] = <<>> THEN newest[i - 1]
            ELSE <<file[i]>> \o Kept(newest[i - 1], Range(file) \ {file[i]})
    IN  newest[Len(file)]

\* complete behind a command and its blank.
ArgCompletion(t, end) ==
    [prefix |-> SubSeq(t, 1, end), token |-> From(t, end + 1), count |-> comp.count,
     items |-> StartWith(ArgList, From(t, First(t, end, Except({" "}))))]

\* complete for the name of a command; the count is also in the prefix.
NameCompletion(t, count, word) ==
    [prefix |-> SubSeq(t, 1, word - 1), token |-> From(t, word), count |-> SubSeq(t, count, word - 1),
     items |-> StartWith(NameList, From(t, word))]

SearchCompletion(t) ==
    [prefix |-> <<"/">>, token |-> Rest(t), count |-> comp.count,
     items |-> StartWith(Newest(lines["/"]), Rest(t))]

Completion(t) ==
    LET count == First(t, 1, Except({":", " "}))
        word == First(t, count, Except(Digit))
        end == First(t, word, {" "})
        known == /\ t[1] = ":" /\ end > word /\ end <= Len(t)
                 /\ StartWith(NameList, SubSeq(t, word, end - 1)) # <<>>
    IN  CASE t[1] = "/" -> SearchCompletion(t)
          [] known      -> ArgCompletion(t, end)
          [] OTHER      -> NameCompletion(t, count, word)

\* What is left of excomp when no list is shown: the rest is written before it
\* is read again.
Idle(count) == [prefix |-> <<>>, token |-> <<>>, count |-> count, current |-> <<>>, started |-> <<>>]
NoList == list' = Closed /\ comp' = Idle(comp.count)

Shown(c, match) == c.prefix \o c.count \o match

\* Mutant: behind the ends the selection stays.
MutantKeepsSelection(l, back) ==
    LET n == Len(l.items)
        to == IF back THEN l.active - 1 ELSE l.active + 1
        active == CASE to < 0 -> n [] to > n + 1 -> 1 [] OTHER -> to
    IN  [l EXCEPT !.active = active, !.sel = IF active \in 1 .. n THEN active ELSE @]

\* completion_next: behind the ends nothing is selected.
CompletionNext(l, back) ==
    LET n == Len(l.items)
        to == IF back THEN l.active - 1 ELSE l.active + 1
        active == CASE to < 0 -> n [] to > n + 1 -> 1 [] OTHER -> to
    IN  [l EXCEPT !.active = active, !.sel = IF active \in 1 .. n THEN active ELSE 0]

\* completion_select, of the item or of what was typed behind the prefix.
Select(c, match) ==
    /\ comp' = [c EXCEPT !.current = Shown(c, match)]
    /\ SetText(Shown(c, match))

-----------------------------------------------------------------------------
(* Actions.                                                                  *)

Init ==
    /\ mode = "normal" /\ text = <<>>
    /\ timer = FALSE /\ lost = 0
    /\ list = Closed
    /\ comp = Idle(<<>>)
    /\ walk = NoWalk /\ lines = Lines
    /\ register = None
    /\ search = [active |-> FALSE, last |-> None, awaited |-> 0, matches |-> None, raced |-> FALSE]
    /\ pending = <<>>
    /\ incsearch \in BOOLEAN
    /\ opened = 0

\* vb_enter_prompt: normal mode is left, the prompt is set and its change seen.
OpenPrompt(p) ==
    /\ mode = "normal" /\ mode' = "command"
    /\ opened < MaxPrompts /\ opened' = opened + 1
    /\ InputPrint(<<p>>, FALSE)
    /\ InputChanged(<<p>>, Finish(search), FALSE)
    /\ UNCHANGED <<compVars, walk, incsearch>>

\* Mutant: the search of the prompt goes on.
MutantKeepsSearch(to) ==
    /\ mode' = "normal" /\ NoList /\ SetText(to) /\ NoSearch(search)

\* vb_enter for normal mode: ex_leave; the text is set when nobody looks.
Leave(to) ==
    /\ mode' = "normal" /\ NoList /\ SetText(to)
    /\ NoSearch(IF incsearch THEN Finish(search) ELSE search)

\* A prompt that was cleared can only be left.
HasPrompt == Focused /\ text # <<>>

Change(t) ==
    /\ SetText(t) /\ InputChanged(t, search, list # Closed)
    /\ UNCHANGED <<mode, compVars, walk, incsearch, opened>>

Type(k) ==
    /\ HasPrompt /\ k \in Keys[text[1]] /\ Len(text) < MaxText[text[1]]
    /\ Change(Append(text, k))

\* CTRL-H: who deletes the prompt leaves.
Backspace ==
    /\ HasPrompt
    /\ IF Len(text) > 1 THEN Change(Front(text))
       ELSE Leave(<<>>) /\ UNCHANGED <<walk, incsearch, opened>>

\* CTRL-U.
ClearLine == HasPrompt /\ Len(text) > 1 /\ Change(<<text[1]>>)

\* <Esc>, which clears the text, and CTRL-C, which does not.
Escape(clears) ==
    /\ Focused
    /\ Leave(IF clears THEN <<>> ELSE Message)
    /\ UNCHANGED <<walk, incsearch, opened>>

\* <Tab> while the text is that of the completion.
TabOn(back) ==
    /\ HasPrompt /\ list # Closed /\ text = comp.current
    /\ list' = CompletionNext(list, back)
    /\ Select(comp, IF list'.active \in DOMAIN list.items THEN list.items[list'.active] ELSE comp.token)
    /\ NoSearch(search)
    /\ UNCHANGED <<mode, walk, incsearch, opened>>

\* <Tab> otherwise: nothing is found, one item is taken, or a list is shown.
TabStart(back) ==
    LET new == Completion(text)
        c == [prefix |-> new.prefix, token |-> new.token, count |-> new.count,
              current |-> comp.current, started |-> text]
        shown == CompletionNext([items |-> new.items, sel |-> 0, active |-> 0], back)
    IN  /\ HasPrompt /\ (list = Closed \/ text # comp.current)
        /\ Len(text) <= MaxText[text[1]]
        /\ CASE new.items = <<>> ->
                  list' = Closed /\ comp' = Idle(new.count) /\ SetText(text) /\ NoSearch(search)
             [] Len(new.items) = 1 ->
                  list' = Closed /\ comp' = Idle(new.count) /\ SetText(Shown(c, new.items[1]))
                  /\ InputChanged(text', search, FALSE)
             [] OTHER ->
                  list' = shown /\ Select(c, new.items[shown.sel]) /\ NoSearch(search)
        /\ UNCHANGED <<mode, walk, incsearch, opened>>

\* Mutant: a walk goes on whatever stands in the box.
MutantNoRewind(t) ==
    IF walk # NoWalk THEN walk
    ELSE [items |-> <<Rest(t)>> \o StartWith(Newest(lines[t[1]]), Rest(t)), at |-> 1, prefix |-> t[1]]

\* The walk of history for a text: the old one if it stands at this text.
WalkFor(t) ==
    IF walk # NoWalk /\ t = <<walk.prefix>> \o walk.items[walk.at] THEN walk
    ELSE [items |-> <<Rest(t)>> \o StartWith(Newest(lines[t[1]]), Rest(t)), at |-> 1, prefix |-> t[1]]

\* <Up> and <Down>: behind the ends the text is set again.
Walk(up) ==
    LET w == WalkFor(text)
        to == IF up THEN w.at + 1 ELSE w.at - 1
        at == IF to \in DOMAIN w.items THEN to ELSE w.at
        t == <<w.prefix>> \o w.items[at]
    IN  /\ HasPrompt
        /\ walk' = [w EXCEPT !.at = at]
        /\ InputPrint(t, FALSE)
        /\ InputChanged(t, search, list # Closed)
        /\ UNCHANGED <<mode, compVars, incsearch, opened>>

\* <CR> on a search: the prompt is left, then what stands in it is committed.
EnterSearch ==
    /\ HasPrompt /\ text[1] = "/"
    /\ mode' = "normal" /\ NoList /\ SetText(Message)
    /\ Search(IF incsearch THEN Finish(search) ELSE search, IF Len(text) = 1 THEN None ELSE Rest(text), TRUE)
    /\ UNCHANGED <<walk, incsearch, opened>>

\* <CR> on a command, which may be kept out of the history, and may print.
EnterCommand(recorded) ==
    /\ HasPrompt /\ text[1] = ":"
    /\ mode' = "normal" /\ NoList
    /\ SetText(<<>>) \/ \E hide \in BOOLEAN : InputPrint(Message, hide)
    /\ search' = IF incsearch THEN Finish(search) ELSE search
    /\ lines' = IF recorded THEN [lines EXCEPT ![":"] = Append(@, Rest(text))] ELSE lines
    /\ Recorded <= MaxLines
    /\ UNCHANGED <<walk, register, pending, incsearch, opened>>

\* vb_echo of whatever happens; in a prompt nothing is printed.
Echo(hide) ==
    /\ ~Focused
    /\ InputPrint(Message, hide)
    /\ UNCHANGED <<mode, compVars, walk, lines, searchVars, incsearch, opened>>

\* A timer fires: input_clear acts if the input box has the focus.
Timer(known) ==
    /\ IF known THEN timer ELSE lost > 0
    /\ lost' = IF known THEN lost ELSE lost - 1
    /\ IF Focused THEN text' = <<>> /\ timer' = FALSE
       ELSE text' = text /\ timer' = (timer /\ ~known)
    /\ UNCHANGED <<mode, compVars, walk, lines, searchVars, incsearch, opened>>

\* n in normal mode.
NextMatch ==
    /\ mode = "normal"
    /\ Search(search, None, FALSE)
    /\ UNCHANGED <<mode, inputVars, compVars, walk, incsearch, opened>>

\* Mutant: a text that is not found does not count as an answer.
MutantFailsUncounted(answer) ==
    IF search.awaited > 0
    THEN [search EXCEPT !.awaited = IF answer = <<>> THEN @ ELSE @ - 1, !.matches = answer]
    ELSE search

\* on_found_text and on_failed_to_find_text.
Counted(answer) ==
    IF search.awaited > 0 THEN [search EXCEPT !.awaited = @ - 1, !.matches = answer] ELSE search

Answer ==
    /\ pending # <<>>
    /\ search' = Counted(Head(pending).text)
    /\ pending' = Tail(pending)
    /\ UNCHANGED <<mode, inputVars, compVars, walk, lines, register, incsearch, opened>>

\* The page is committed: a search that is active is cleared from the box.
LoadCommitted ==
    /\ IF search.active /\ ~Focused THEN InputPrint(<<>>, FALSE) ELSE UNCHANGED inputVars
    /\ search' = Finish(search)
    /\ UNCHANGED <<mode, compVars, walk, lines, register, pending, incsearch, opened>>

Next ==
    \/ \E p \in Prompts : OpenPrompt(p)
    \/ \E k \in UNION {Keys[p] : p \in Prompts} : Type(k)
    \/ Backspace \/ ClearLine \/ \E clears \in BOOLEAN : Escape(clears)
    \/ \E back \in BOOLEAN : TabOn(back) \/ TabStart(back) \/ Walk(back)
    \/ EnterSearch \/ \E recorded \in BOOLEAN : EnterCommand(recorded)
    \/ \E hide \in BOOLEAN : Echo(hide)
    \/ \E known \in BOOLEAN : Timer(known)
    \/ NextMatch \/ Answer \/ LoadCommitted

Spec == Init /\ [][Next]_vars

-----------------------------------------------------------------------------
(* Properties.                                                               *)

\* The state keeps its shape: the selection is an item of the list, a walk
\* stands at one of its items, and no answer is awaited that does not come.
TypeOK ==
    /\ mode \in {"normal", "command"}
    /\ timer \in BOOLEAN /\ lost \in 0 .. MaxLost
    /\ list.sel \in 0 .. Len(list.items) /\ list.active \in 0 .. Len(list.items) + 1
    /\ walk # NoWalk => walk.at \in DOMAIN walk.items
    /\ search.awaited \in 0 .. Len(pending)
    /\ Len(pending) <= MaxPending

\* While a list is shown (completion_next and completion_select), the text is
\* the item that is selected, or was changed since; a list is only shown in a
\* prompt, and its walk over the ends (completion.c:311) brings back what was
\* typed, if no count was.
SelectionIsShown ==
    list # Closed =>
        /\ Focused
        /\ text = comp.current =>
              IF list.sel = 0 THEN comp.count = <<>> => text = comp.started
              ELSE text = Shown(comp, list.items[list.sel])

\* Until it is left, a prompt stays what it was opened as: neither the history
\* (exhist is kept from prompt to prompt) nor a completion changes it.
PromptIsKept ==
    [][HasPrompt /\ HasPrompt' => text'[1] = text[1]]_vars

\* In a prompt, where input_clear acts, no timer runs that could clear what is
\* typed, but one that another message had replaced.
PromptStays == Focused => ~timer

\* When the page has answered all it was asked for, the count in the status
\* bar is that of the last search (awaited_matches_updates), unless a search
\* was begun while a step to the next match was not answered.
MatchesAreCurrent ==
    pending = <<>> /\ search.last # None /\ ~search.raced =>
        search.matches = search.last /\ search.awaited = 0

\* Who leaves a prompt without a commit leaves no search behind: ex_leave
\* ends the incremental search, also when the page was loaded meanwhile.
SearchEndsWithPrompt ==
    [][Focused /\ ~Focused' /\ pending' = pending => ~search'.active]_vars

\* No prompt reaches into the next: not the walk through the history of the
\* one before (exhist), and not its incremental search (ex_leave).
PromptsAreApart == PromptIsKept /\ SearchEndsWithPrompt

-----------------------------------------------------------------------------
(* What the comments promise and the code does not keep.                     *)

\* "show the user the initial typed content" (completion.c:311): a count is
\* put in twice, and one that was typed earlier is put in once more.
TypedComesBack ==
    list # Closed /\ text = comp.current /\ list.sel = 0 => text = comp.started

\* "Committed search without string re-searches last string"
\* (command.c:97): with incsearch the prompt itself is taken for a search.
EmptyRepeats ==
    [][HasPrompt /\ text = <<"/">> /\ mode' = "normal" /\ register # None /\ Len(pending') = Len(pending) + 2
         => search'.last = register]_vars

\* "If TRUE the inputbox is cleared after a short timeout" (main.c:1081).
MessagesAreCleared == [][Timer(TRUE) => text' = <<>>]_vars

\* "might be the user is typing in it" (main.c:312): a timer that another
\* message replaced clears what is typed.
TypedStays == [][HasPrompt /\ Focused' => text' # <<>>]_vars

\* With incsearch the text of a search prompt is searched as it changes; not
\* while a list is shown (main.c:1233), even if the text is typed.
TypedIsSearched ==
    Focused /\ incsearch /\ text # <<>> /\ text[1] = "/" /\ list = Closed => search.last = Rest(text)
=============================================================================
