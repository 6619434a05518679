------------------------------- MODULE Modes -------------------------------
(***************************************************************************)
(* The modes of the tabs and hinting: vb_enter and vb_mode_handle_key in   *)
(* src/main.c, the key handlers of src/normal.c, src/input.c, src/ex.c and *)
(* src/hints.c, and the page events that change the mode.                  *)
(*                                                                         *)
(* Every tab has a mode, but the Mode records with their flags, the state  *)
(* of the key parsers and the saved settings of hinting are static: the    *)
(* tabs share them.  Leaving command mode while hints are shown evaluates  *)
(* a script synchronously, as do the keys typed then; the handler waits in *)
(* a frame of `waits` and the main loop runs other handlers meanwhile.     *)
(*                                                                         *)
(* Left out: keys that only move or edit, the literal key after CTRL-V and *)
(* FLAG_NOMAP (see KeyMap), hint-timeout (off by default), the effects of  *)
(* ex commands.  input-autohide is on, as by default: an empty input box   *)
(* is hidden and loses the focus.                                          *)
(***************************************************************************)
EXTENDS Naturals, Sequences, SequencesExt, FiniteSets

CONSTANTS
    Tab,        \* the tabs, all open at first
    Keys,       \* the keys that are typed
    MaxWaits,   \* bound: nested synchronous evaluations
    MaxAnswers, \* bound: no key is pressed with as many open hint calls
    MaxClosed   \* bound: tabs that are closed

Printable == {"char", ";", "g", "mark", "quote", ":", "/", "f", "F"}
Key == Printable \cup {"esc", "ctrlC", "ctrlO", "ctrlR", "ctrlZ", "enter", "bs"}

ASSUME ModesAssumption ==
    /\ Keys \subseteq Key
    /\ MaxWaits \in Nat /\ MaxAnswers \in Nat /\ MaxClosed \in Nat

VARIABLES
    open,     \* the tabs that are not closed
    shown,    \* the tab of the current page
    mode,     \* c->mode->id of every tab
    hinting,  \* FLAG_HINTING of the mode 'c'
    ignore,   \* FLAG_IGNORE_FOCUS of the mode 'i'
    pending,  \* normal.c, info: the keys of an incomplete command
    ctrlo,    \* input.c, ctrlo
    register, \* ex.c, info.phase = PHASE_REG
    text,     \* the content of the input box
    focus,    \* the widget with the focus
    popover,  \* the input box is in the floating popover
    hint,     \* hints.c, hints: prompt and saved setting
    js,       \* the tabs whose web settings allow scripts at the moment
    answers,  \* hint calls of every tab without answer, oldest first
    waits,    \* handlers in a synchronous evaluation, innermost last
    newTab,   \* the tabs with state.open_in_new_tab
    fired,    \* those of newTab in which a hint was fired: they will navigate (history)
    scripts,  \* the tabs whose settings allow scripts and script windows
    auth,     \* tabs whose page asked for a user and is not left since (history)
    clashes   \* what got in one another's way (history)

keyVars == <<pending, ctrlo, register>>
modeVars == <<mode, hinting, ignore, focus, popover, text, waits, js>>
hintVars == <<hint, answers, newTab>>
tabVars == <<open, shown, fired>>
vars == <<keyVars, modeVars, hintVars, tabVars, scripts, auth, clashes>>

-----------------------------------------------------------------------------
Mode == {"n", "i", "p", "c"}

\* Prompts: ;o follows a link, ;t opens a new tab, ;O asks for data to put
\* behind ":open", g;t hints again and again.
HintPrompt == {";o", ";t", ";O", "g;t"}
Text == HintPrompt \cup {"", ":", "/", ";", "other"}

Answer == {"over", "done", "insert", "data", "error"}
\* What the page may answer to a call while it shows the hints of prompt p.
AnswersTo(p) == {"over", "error"} \cup
                (IF p = ";O" THEN {"data"} ELSE {"done", "insert"})

\* vb_enter after the sync call of its leave handler, and the rest of
\* hints_keypress and ex_keypress after theirs.
LeaveFrame == {f \in [tab : Tab, to : {"n", "i"}, then : {"keep", "clear", "open"}] :
                   f.then = "open" => f.to = "n"}
KeyFrame == [tab : Tab, key : Key, prompt : Text]
IsLeave(f) == "to" \in DOMAIN f

\* A user who leaves the input mode gives up what the page asked for.
GiveUp == auth' = auth \ {t \in {shown} : mode'[t] # "i"}

-----------------------------------------------------------------------------
(* Entering and leaving modes.                                             *)

\* Mutant: only the way back to normal mode closes the popover.
MutantKeepPopover(t, to, then, closed) ==
    /\ mode' = [mode EXCEPT ![t] = IF then = "open" THEN "c" ELSE to]
    /\ hinting' = (hinting /\ then # "open")
    /\ ignore' = (ignore /\ to # "i")
    /\ popover' = (popover /\ ~(closed /\ to = "n"))
    /\ focus' = IF then = "open" THEN "input" ELSE IF t = shown THEN "web" ELSE focus
    /\ text' = IF then = "clear" THEN "" ELSE text

\* vb_enter after the leave handler: closed says whether it was ex_leave.
\* After "open" the mode n is only passed on the way back to the mode c.
Arrive(t, to, then, closed) ==
    /\ mode' = [mode EXCEPT ![t] = IF then = "open" THEN "c" ELSE to]
    /\ hinting' = (hinting /\ then # "open")
    /\ ignore' = (ignore /\ to # "i")
    /\ popover' = (popover /\ ~closed)
    /\ focus' = CASE then = "open" -> "input"
                  [] then # "open" /\ t = shown -> "web"
                  [] OTHER -> focus
    /\ text' = CASE then = "clear" -> ""
                 [] then = "open" /\ (t = shown \/ focus = "web") -> ":"
                 [] OTHER -> text

\* Mutant: hints end when normal mode is entered, not when command mode is left.
MutantClearInNormal(rest, t, to, then) ==
    IF mode[t] = to /\ then # "open"
    THEN /\ text' = IF then = "clear" THEN "" ELSE text
         /\ waits' = rest
         /\ UNCHANGED <<mode, hinting, ignore, focus, popover, js>>
    ELSE IF mode[t] = "c" /\ hinting /\ to = "n"
    THEN /\ hinting' = FALSE
         /\ text' = ""
         /\ focus' = "web"
         /\ waits' = Append(rest, [tab |-> t, to |-> to, then |-> then])
         /\ UNCHANGED <<mode, ignore, popover, js>>
    ELSE /\ Arrive(t, to, then, mode[t] = "c")
         /\ waits' = rest
         /\ UNCHANGED js

\* vb_enter(c, to) and what its caller does then.  With hints shown hints_clear
\* ends them, and waits for the page before it restores the settings.
Enter(rest, t, to, then) ==
    IF mode[t] = to /\ then # "open"
    THEN /\ text' = IF then = "clear" THEN "" ELSE text
         /\ waits' = rest
         /\ UNCHANGED <<mode, hinting, ignore, focus, popover, js>>
    ELSE IF mode[t] = "c" /\ hinting
    THEN /\ hinting' = FALSE
         /\ text' = ""
         /\ focus' = "web"
         /\ waits' = Append(rest, [tab |-> t, to |-> to, then |-> then])
         /\ Len(waits') <= MaxWaits
         /\ UNCHANGED <<mode, ignore, popover, js>>
    ELSE /\ Arrive(t, to, then, mode[t] = "c")
         /\ waits' = rest
         /\ UNCHANGED js

\* An asynchronous call of a hint function.
Ask(t, p) == answers' = [answers EXCEPT ![t] = Append(@, p)]

\* Mutant: the setting is not saved before it is overridden.
MutantNoSave(t, p) ==
    /\ hinting' = TRUE
    /\ hint' = [hint EXCEPT !.prompt = p]
    /\ js' = js \cup {t}
    /\ newTab' = newTab
    /\ Ask(t, p)

\* hints_create with a valid prompt in a mode without hints.
StartHints(t, p) ==
    /\ hinting' = TRUE
    /\ hint' = [prompt |-> p, js |-> t \in js]
    /\ js' = js \cup {t}
    /\ newTab' = IF p \in {";t", "g;t"} THEN newTab \cup {t} ELSE newTab
    /\ Ask(t, p)

\* vb_enter_prompt from normal mode, or from input mode after CTRL-O.
EnterPrompt(t, p) ==
    /\ mode' = [mode EXCEPT ![t] = "c"]
    /\ text' = p
    /\ focus' = "input"
    /\ popover' = (popover \/ p \in {":", "/"})
    /\ IF p \in HintPrompt
       THEN StartHints(t, p)
       ELSE hinting' = FALSE /\ UNCHANGED <<js, hintVars>>
    /\ UNCHANGED <<ignore, waits>>

\* The text of the input box changes: ex_input_changed of the shown tab, if
\* the box has the focus.
Changed(rest, new) ==
    IF focus = "input" /\ mode[shown] = "c" /\ new = ";" /\ hinting
    THEN Enter(rest, shown, "n", "keep") /\ UNCHANGED hintVars
    ELSE /\ text' = new
         /\ waits' = rest
         /\ IF focus = "input" /\ mode[shown] = "c" /\ new \in HintPrompt
            THEN IF hinting
                 THEN /\ hint' = [hint EXCEPT !.prompt = new]
                      /\ Ask(shown, new)
                      /\ UNCHANGED <<hinting, js, newTab>>
                 ELSE StartHints(shown, new)
            ELSE UNCHANGED <<hinting, js, hintVars>>
         /\ UNCHANGED <<mode, ignore, focus, popover>>

-----------------------------------------------------------------------------
(* The key parser of normal mode.                                          *)

NeedsMore(keys) == keys \in {<<";">>, <<"g">>, <<"mark">>, <<"quote">>, <<"g", ";">>}

\* normal_keypress returns RESULT_MORE: also after the name of a register.
More(k) == \/ NeedsMore(Append(pending, k))
           \/ pending = <<"quote">> /\ k \in Printable \ {"F"}

\* The prompts a complete command may open; ";" stands for an invalid one.
Prompts(keys) ==
    CASE keys = <<":">> -> {":"}
      [] keys = <<"/">> -> {"/"}
      [] keys = <<"f">> -> {";o"}
      [] keys = <<"F">> -> {";t"}
      [] keys = <<";", "char">> -> {";o", ";t", ";O", ";"}
      [] keys = <<"g", ";", "char">> -> {"g;t", ";"}
      [] Len(keys) > 1 /\ keys[Len(keys) - 1] = ";" /\ Last(keys) # "char" -> {";"}
      [] OTHER -> {}

\* normal_ex, normal_hint, normal_pass, normal_clear_input; the others do not
\* change the mode.
Command(t, keys) ==
    \/ \E p \in Prompts(keys) : EnterPrompt(t, p)
    \/ /\ Prompts(keys) = {}
       /\ mode' = IF keys = <<"ctrlZ">> THEN [mode EXCEPT ![t] = "p"] ELSE mode
       /\ focus' = IF keys = <<"esc">> \/ ctrlo THEN "web" ELSE focus
       /\ text' = IF keys = <<"esc">> THEN "" ELSE text
       /\ UNCHANGED <<hinting, ignore, popover, waits, js, hintVars>>

NormalKey(t, k) ==
    /\ pending' = IF NeedsMore(Append(pending, k)) THEN Append(pending, k) ELSE <<>>
    /\ IF More(k) THEN UNCHANGED <<modeVars, hintVars>>
                  ELSE Command(t, Append(pending, k))

\* input_keypress: after CTRL-O the keys are those of a normal command.
InputKey(t, k) ==
    IF ctrlo
    THEN NormalKey(t, k) /\ ctrlo' = More(k)
    ELSE /\ ctrlo' = (k = "ctrlO")
         /\ UNCHANGED <<pending, hintVars>>
         /\ CASE k = "esc"   -> Enter(waits, t, "n", "keep")
              [] k = "ctrlZ" -> /\ mode' = [mode EXCEPT ![t] = "p"]
                                /\ UNCHANGED <<hinting, ignore, focus, popover,
                                               text, waits, js>>
              [] OTHER       -> UNCHANGED modeVars

PassKey(t, k) ==
    /\ UNCHANGED hintVars
    /\ IF k = "esc" THEN Enter(waits, t, "n", "keep") ELSE UNCHANGED modeVars

-----------------------------------------------------------------------------
(* Command mode and hinting.                                               *)

\* Text with a character deleted, or typed.
Shorter == IF text \in HintPrompt THEN {";"} ELSE {"", text}
Longer(k) == CASE text = "" /\ k \in {":", "/", ";"} -> {k}
               [] text = "" /\ k \notin {":", "/", ";"} -> {"other"}
               [] text = ";" /\ k = "char" -> {";o", ";t", ";O", ";"}
               [] OTHER -> {text}

\* The part of ex_keypress that edits and ends the command line.
EditKey(rest, t, k) ==
    /\ register' = (k = "ctrlR" /\ ~register)
    /\ IF register
       THEN \E new \in {text} \cup Longer("char") : Changed(rest, new)
       ELSE CASE k = "esc"   -> Enter(rest, t, "n", "clear") /\ UNCHANGED hintVars
              [] k = "enter" -> /\ UNCHANGED hintVars
                                /\ IF text \in {":", "/"}
                                   THEN \E then \in {"keep", "clear"} :
                                            Enter(rest, t, "n", then)
                                   ELSE /\ waits' = rest
                                        /\ UNCHANGED <<mode, hinting, ignore,
                                              focus, popover, text, js>>
              [] k = "bs"    -> \E new \in Shorter :
                                    IF new = ""
                                    THEN /\ Enter(rest, t, "n", "clear")
                                         /\ UNCHANGED hintVars
                                    ELSE Changed(rest, new)
              [] k \in Printable -> \E new \in Longer(k) : Changed(rest, new)
              [] OTHER       -> /\ waits' = rest
                                /\ UNCHANGED <<mode, hinting, ignore, focus,
                                               popover, text, js, hintVars>>

\* hints_keypress: <CR> fires the hint, other keys are first offered to the
\* page, which is asked synchronously.
HintKey(t, k) ==
    /\ UNCHANGED <<keyVars, mode, hinting, ignore, focus, popover, text, js,
                   hint, newTab>>
    /\ IF k = "enter"
       THEN Ask(t, hint.prompt) /\ UNCHANGED waits
       ELSE /\ waits' = Append(waits, [tab |-> t, key |-> k, prompt |-> hint.prompt])
            /\ Len(waits') <= MaxWaits
            /\ UNCHANGED answers

\* ex_keypress.
CommandKey(t, k) ==
    CASE k = "ctrlC" -> Enter(waits, t, "n", "keep") /\ UNCHANGED <<keyVars, hintVars>>
      [] k # "ctrlC" /\ hinting -> HintKey(t, k)
      [] OTHER -> EditKey(waits, t, k) /\ UNCHANGED <<pending, ctrlo>>

\* vb_mode_handle_key: a key goes to the mode of the shown tab.
KeyPress(k) ==
    /\ \A t \in Tab : Len(answers[t]) < MaxAnswers
    /\ CASE mode[shown] = "n" -> NormalKey(shown, k) /\ UNCHANGED <<ctrlo, register>>
         [] mode[shown] = "i" -> InputKey(shown, k) /\ UNCHANGED register
         [] mode[shown] = "p" -> PassKey(shown, k) /\ UNCHANGED keyVars
         [] OTHER -> CommandKey(shown, k)
    /\ GiveUp
    /\ UNCHANGED tabVars

\* hint_function_check_result, when the page shows hints of prompt p.
Result(rest, t, p, r) ==
    /\ CASE r = "done" /\ hint.prompt # "g;t" /\ mode[t] = "c" ->
                Enter(rest, t, "n", "keep")
         [] r = "insert" -> Enter(rest, t, "i", "keep")
         [] r = "data" /\ hint.prompt # "g;t" ->
                Enter(rest, t, "n", IF hint.prompt = ";O" THEN "open" ELSE "keep")
         [] OTHER -> /\ waits' = rest
                     /\ UNCHANGED <<mode, hinting, ignore, focus, popover, text, js>>
    /\ fired' = IF r = "done" /\ p # ";O" THEN fired \cup (newTab \cap {t})
                                       ELSE fired

\* on_hint_function_finished_usermessage.
HintAnswered(t) ==
    /\ answers[t] # <<>>
    /\ answers' = [answers EXCEPT ![t] = Tail(@)]
    /\ \E r \in AnswersTo(Head(answers[t])) : Result(waits, t, Head(answers[t]), r)
    /\ UNCHANGED <<keyVars, hint, newTab, open, shown, auth>>

\* hints.update never takes <Esc> for a hint key.
KeyAnswers(f) == CASE f.key \in Printable -> AnswersTo(f.prompt)
                   [] f.key = "bs"        -> {"over", "error"}
                   [] OTHER               -> {"error"}

\* ext_proxy_eval_script_sync returns to the innermost handler: to hints_clear,
\* which restores the settings, or to hints_keypress; a key that the page did
\* not take is an ordinary key.
WaitEnds ==
    /\ waits # <<>>
    /\ LET f == Last(waits)
           rest == Front(waits)
       IN IF IsLeave(f)
          THEN /\ js' = IF hint.js THEN js ELSE js \ {f.tab}
               /\ Arrive(f.tab, f.to, f.then, TRUE)
               /\ waits' = rest
               /\ UNCHANGED <<hintVars, fired, keyVars>>
          ELSE \E r \in KeyAnswers(f) :
               IF r = "error"
               THEN EditKey(rest, f.tab, f.key) /\ UNCHANGED <<pending, ctrlo, fired>>
               ELSE Result(rest, f.tab, f.prompt, r) /\ UNCHANGED <<hintVars, keyVars>>
    /\ UNCHANGED <<open, shown, auth>>

-----------------------------------------------------------------------------
(* Events of the pages and of the window.                                  *)

\* Mutant: the flag of on_webview_authenticate is not looked at.
MutantListen(t, editable) ==
    /\ t \in open
    /\ mode[t] = (IF editable THEN "n" ELSE "i")
    /\ Enter(waits, t, IF editable THEN "i" ELSE "n", "keep")
    /\ UNCHANGED <<keyVars, hintVars, tabVars, auth>>

\* on_script_message_focus: the focus of a page moved into or out of a field.
FocusMessage(t, editable) ==
    /\ t \in open
    /\ ~(ignore /\ mode[t] = "i")
    /\ mode[t] = (IF editable THEN "n" ELSE "i")
    /\ Enter(waits, t, IF editable THEN "i" ELSE "n", "keep")
    /\ UNCHANGED <<keyVars, hintVars, tabVars, auth>>

\* on_webview_authenticate: input mode for the dialog, without focus messages.
Authenticate(t) ==
    /\ t \in open /\ mode[t] = "n"
    /\ mode' = [mode EXCEPT ![t] = "i"]
    /\ ignore' = TRUE
    /\ auth' = auth \cup {t}
    /\ focus' = IF t = shown THEN "web" ELSE focus
    /\ UNCHANGED <<keyVars, hinting, popover, text, waits, js, hintVars, tabVars>>

\* on_webview_load_changed, WEBKIT_LOAD_STARTED.
LoadStarted(t) ==
    /\ t \in open /\ mode[t] = "c" /\ hinting
    /\ Enter(waits, t, "n", "keep")
    /\ UNCHANGED <<keyVars, hintVars, tabVars, auth>>

\* WEBKIT_LOAD_COMMITTED: the flag of the mode the tab is in is removed.
LoadCommitted(t) ==
    /\ t \in open /\ mode[t] = "i"
    /\ ignore' = FALSE
    /\ auth' = auth \ {t}
    /\ UNCHANGED <<keyVars, mode, hinting, focus, popover, text, waits, js,
                   hintVars, tabVars>>

\* decide_navigation_action: of a hint, a click, or a command.
Navigate(t) ==
    /\ t \in open \cap newTab
    /\ newTab' = newTab \ {t}
    /\ fired' = fired \ {t}
    /\ UNCHANGED <<keyVars, modeVars, hint, answers, open, shown, auth>>

\* on_notebook_switch_page, after a click on the label of a tab.
SwitchPage(t) ==
    /\ t \in open \ {shown}
    /\ shown' = t
    /\ focus' = "web"
    /\ UNCHANGED <<keyVars, mode, hinting, ignore, popover, text, waits, js,
                   hintVars, open, fired, auth>>

\* Mutant: the page is not switched with the tab.
MutantStay(t) ==
    /\ t \in open /\ open # {t}
    /\ Cardinality(Tab \ open) < MaxClosed
    /\ open' = open \ {t}
    /\ answers' = [answers EXCEPT ![t] = <<>>]
    /\ UNCHANGED <<keyVars, modeVars, hint, newTab, fired, shown, auth>>

\* vb_tab_close, when the page closes itself: the mode is not left.
CloseTab(t) ==
    /\ t \in open /\ open # {t}
    /\ Cardinality(Tab \ open) < MaxClosed
    /\ \A i \in 1 .. Len(waits) : waits[i].tab # t
    /\ open' = open \ {t}
    /\ IF t = shown THEN shown' \in open' /\ focus' = "web"
                    ELSE UNCHANGED <<shown, focus>>
    /\ answers' = [answers EXCEPT ![t] = <<>>]
    /\ newTab' = newTab \ {t}
    /\ fired' = fired \ {t}
    /\ auth' = auth \ {t}
    /\ UNCHANGED <<keyVars, mode, hinting, ignore, popover, text, waits, js, hint>>

\* The user clicks into the visible input box or into the page.
Click(w) ==
    /\ focus # w
    /\ w = "input" => text # ""
    /\ focus' = w
    /\ UNCHANGED <<keyVars, mode, hinting, ignore, popover, text, waits, js,
                   hintVars, tabVars, auth>>

-----------------------------------------------------------------------------
(* What tabs and handlers that share static state may do to one another.     *)

TwoIn(m) == \E s, t \in open : s # t /\ mode[s] = m /\ mode[t] = m

\* Two tabs are in command mode, or hints are shown before the last ones are out
\* of the way.
HintsClash == \/ TwoIn("c")
              \/ hinting /\ \E i \in DOMAIN waits : IsLeave(waits[i])

\* Two tabs are in input mode, or a handler waits though the mode it was called
\* for was left.
InputsClash == \/ TwoIn("i")
               \/ \E i \in DOMAIN waits : mode[waits[i].tab] # "c"

\* An answer to hints that are not there any more.
LateAnswer == \E t \in open' : /\ Len(answers'[t]) < Len(answers[t])
                               /\ mode[t] # "c"

\* No hints are shown or on their way out, and all settings are in place.
HintsInOrder == /\ ~hinting /\ \A i \in DOMAIN waits : ~IsLeave(waits[i])
                /\ \A t \in open : (t \in js) = (t \in scripts)

\* A clash is over when the settings are in order, or no page waits for a user.
Remember ==
    /\ UNCHANGED scripts
    /\ clashes' = {what \in clashes : IF what = "hints" THEN ~HintsInOrder'
                                                      ELSE auth' # {}}
             \cup {what \in {"hints"} : HintsClash'}
             \cup {what \in {"inputs"} : InputsClash' \/ LateAnswer}

-----------------------------------------------------------------------------
Init ==
    /\ open = Tab
    /\ shown \in Tab
    /\ mode = [t \in Tab |-> "n"]
    /\ hinting = FALSE /\ ignore = FALSE
    /\ pending = <<>> /\ ctrlo = FALSE /\ register = FALSE
    /\ text = "" /\ focus = "web" /\ popover = FALSE
    /\ hint = [prompt |-> "", js |-> FALSE]
    /\ scripts \in SUBSET Tab /\ js = scripts
    /\ answers = [t \in Tab |-> <<>>]
    /\ waits = <<>>
    /\ newTab = {} /\ fired = {} /\ auth = {} /\ clashes = {}

Next ==
    \/ \E k \in Keys : KeyPress(k) /\ Remember
    \/ \E t \in Tab : HintAnswered(t) /\ Remember
    \/ WaitEnds /\ Remember
    \/ \E t \in Tab, editable \in BOOLEAN : FocusMessage(t, editable) /\ Remember
    \/ \E t \in Tab : Authenticate(t) /\ Remember
    \/ \E t \in Tab : LoadStarted(t) /\ Remember
    \/ \E t \in Tab : LoadCommitted(t) /\ Remember
    \/ \E t \in Tab : Navigate(t) /\ Remember
    \/ \E t \in Tab : SwitchPage(t) /\ Remember
    \/ \E t \in Tab : CloseTab(t) /\ Remember
    \/ \E w \in {"web", "input"} : Click(w) /\ Remember

Spec == Init /\ [][Next]_vars

-----------------------------------------------------------------------------
(* Properties.                                                             *)

\* Types; the shown tab is open, and hinting is a submode of command mode.
TypeOK ==
    /\ open \subseteq Tab /\ shown \in open
    /\ mode \in [Tab -> Mode]
    /\ hinting \in BOOLEAN /\ ignore \in BOOLEAN
    /\ pending = <<>> \/ NeedsMore(pending)
    /\ ctrlo \in BOOLEAN /\ register \in BOOLEAN
    /\ text \in Text /\ focus \in {"web", "input"} /\ popover \in BOOLEAN
    /\ hint \in [prompt : HintPrompt \cup {""}, js : BOOLEAN]
    /\ js \subseteq Tab
    /\ answers \in [Tab -> Seq(HintPrompt)]
    /\ waits \in Seq(LeaveFrame \cup KeyFrame)
    /\ newTab \subseteq Tab /\ fired \subseteq Tab
    /\ scripts \subseteq Tab /\ auth \subseteq Tab
    /\ clashes \subseteq {"hints", "inputs"}

\* hints.c: "we save the actual value to be able restore it after hints where
\* fired".  Scripts are allowed against the settings of a tab, or forbidden,
\* only while hints are shown or on the way out of them.  The one place for the
\* saved value is enough as long as no two tabs are in command mode and no hints
\* start before the last ones are out of the way.
ScriptsRestored ==
    \A t \in open : (t \in js) # (t \in scripts) =>
        \/ mode[t] = "c" /\ hinting
        \/ \E i \in 1 .. Len(waits) : IsLeave(waits[i]) /\ waits[i].tab = t
        \/ "hints" \in clashes

\* Hinting never forbids scripts where all tabs allow them: hints of one tab
\* that are ended in another, or from inside the evaluation that ends others,
\* put back a setting that was saved for hints, and never a stale one.
ScriptsStayAllowed == scripts = Tab => js = Tab

\* main.c, on_webview_authenticate: "Make sure we do not switch back to normal
\* mode in case a previos page is open and looses the focus."  Until the load
\* is committed or the user leaves it, the input mode and its deafness stay,
\* unless a second tab is in the one input mode, the answer to hints that are
\* gone comes late, or a handler goes on that left hints before.
AuthKeepsInput ==
    \A t \in auth : \/ mode[t] = "i" /\ ignore
                    \/ "inputs" \in clashes

\* floating-cmdline.h: "Callers open the popover on prompt-mode entry and close
\* it on leave".  While the popover is open some tab is in command mode, or was
\* when it was closed.
PopoverInPrompt == popover => \E t \in Tab : mode[t] = "c"

\* What vb_enter changed on entering hints or a prompt, the script setting and
\* the popover, is put back when the mode is left (hints_clear, ex_leave), and an
\* authentication does not let the mode be left: in any number of tabs, and
\* with all that runs inside the evaluations of hints_clear and hints_keypress.
SettingsFollowMode == ScriptsRestored /\ PopoverInPrompt /\ AuthKeepsInput

-----------------------------------------------------------------------------
(* What the manual or a comment says and the code does not keep.           *)

\* doc/vimb.1 on CTRL-O in input mode: "Executes the next command as normal
\* mode command and return to input mode."  Keys are not taken for such a
\* command once the shown tab has left the input mode.
CtrlOInInput == ctrlo => mode[shown] = "i"

\* hints.c, hints_clear, on the flag that opens the next navigation in a new
\* tab: it "will naturally be consumed when the navigation happens, or will be
\* harmless if no navigation occurs".  A tab that has no hints on the screen
\* and in which no hint was fired keeps no such flag for a later navigation.
CancelledHintsAreHarmless ==
    \A t \in newTab : mode[t] = "c" \/ t \in fired \/ waits # <<>>
=============================================================================
