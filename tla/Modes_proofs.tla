---------------------------- MODULE Modes_proofs ----------------------------
(***************************************************************************)
(* Proofs about Modes: its types, that hinting never forbids scripts where *)
(* all tabs allow them, and that what a mode changed is put back when it   *)
(* is left.                                                                *)
(*                                                                         *)
(* The second needs a stronger invariant: whenever hints are shown, or a   *)
(* handler on the way out of hints waits for the page, the setting that is *)
(* going to be restored allows scripts.  Handlers may run inside such a    *)
(* wait, end the same hints again or start new ones; each of them either   *)
(* keeps the setting that was saved or saves one that allows scripts.      *)
(*                                                                         *)
(* The third needs to know, as long as no clash is noted, which tabs are   *)
(* still to get back what is saved (Due), and that all others have their   *)
(* own setting; and that handlers, calls and authentications belong to     *)
(* open tabs.                                                              *)
(***************************************************************************)
EXTENDS Modes, SequenceTheorems, TLAPS

Frame == LeaveFrame \cup KeyFrame

\* A handler waits in hints_clear.
Leaving == \E i \in DOMAIN waits : IsLeave(waits[i])

\* What is saved for the way out of hints allows scripts.
SavedAllows ==
    scripts = Tab => /\ js = Tab
                     /\ hinting \/ Leaving => hint.js

\* Hints that are shown have a prompt, with which their answer is typed.
HintsHavePrompt == hinting => hint.prompt \in HintPrompt

IInv == TypeOK /\ HintsHavePrompt /\ SavedAllows

(* The parts of the type invariant.                                        *)
ModeTypes ==
    /\ mode \in [Tab -> Mode]
    /\ hinting \in BOOLEAN /\ ignore \in BOOLEAN
    /\ text \in Text /\ focus \in {"web", "input"} /\ popover \in BOOLEAN
    /\ js \subseteq Tab
    /\ waits \in Seq(Frame)

HintTypes ==
    /\ hint \in [prompt : HintPrompt \cup {""}, js : BOOLEAN]
    /\ answers \in [Tab -> Seq(HintPrompt)]
    /\ newTab \subseteq Tab

KeyTypes ==
    /\ pending = <<>> \/ NeedsMore(pending)
    /\ ctrlo \in BOOLEAN /\ register \in BOOLEAN

TabTypes ==
    /\ open \subseteq Tab /\ shown \in open /\ fired \subseteq Tab
    /\ auth \subseteq Tab

CoreTypes == ModeTypes /\ HintTypes /\ KeyTypes /\ TabTypes

HistTypes == scripts \subseteq Tab /\ clashes \subseteq {"hints", "inputs"}

(* What the steps do to the saved setting: they keep it, or save a new one. *)
Kept ==
    /\ js' = js
    /\ hint'.js = hint.js
    /\ hinting' \/ Leaving' => hinting \/ Leaving
    /\ hinting' => hinting
    /\ hint.prompt \in HintPrompt => hint'.prompt \in HintPrompt

Started ==
    /\ \E t \in Tab : hint'.js = (t \in js) /\ js' = js \cup {t}
    /\ hint'.prompt \in HintPrompt

StepOK == ModeTypes' /\ HintTypes' /\ (Kept \/ Started)

\* The frames that stay when a handler goes on.
Inside(rest) ==
    /\ rest \in Seq(Frame)
    /\ (\E i \in DOMAIN rest : IsLeave(rest[i])) => Leaving

\* The parts of TypeOK by name.
LEMMA TypeParts == TypeOK <=> CoreTypes /\ HistTypes
  BY DEF TypeOK, CoreTypes, ModeTypes, HintTypes, KeyTypes, TabTypes, HistTypes, Frame

\* The same for the next state.
LEMMA TypePartsNext == TypeOK' <=> CoreTypes' /\ HistTypes'
  BY DEF TypeOK, CoreTypes, ModeTypes, HintTypes, KeyTypes, TabTypes, HistTypes, Frame

\* What is remembered besides keeps its types.
LEMMA RememberStep ==
    ASSUME HistTypes, Remember \/ UNCHANGED vars
    PROVE  HistTypes' /\ scripts' = scripts
  BY DEF HistTypes, Remember, vars

\* A step that keeps the saved setting or saves a new one keeps the invariant.
LEMMA SavedStep ==
    ASSUME HintsHavePrompt, SavedAllows, Kept \/ Started, scripts' = scripts
    PROVE  HintsHavePrompt' /\ SavedAllows'
  BY DEF HintsHavePrompt, SavedAllows, Kept, Started

\* All frames are inside themselves.
LEMMA AllInside ==
    ASSUME ModeTypes PROVE Inside(waits)
  BY DEF ModeTypes, Inside, Leaving

-----------------------------------------------------------------------------
(* The operators the actions are built from.                               *)

\* Arrive keeps the types.
LEMMA ArriveTypes ==
    ASSUME ModeTypes, NEW t \in Tab, NEW to \in {"n", "i"},
           NEW then \in {"keep", "clear", "open"}, NEW closed \in BOOLEAN,
           Arrive(t, to, then, closed)
    PROVE  /\ mode' \in [Tab -> Mode]
           /\ hinting' \in BOOLEAN /\ ignore' \in BOOLEAN
           /\ text' \in Text /\ focus' \in {"web", "input"} /\ popover' \in BOOLEAN
           /\ hinting' => hinting
  <1>1. mode' \in [Tab -> Mode]
    BY DEF ModeTypes, Arrive, Mode
  <1>2. /\ hinting' \in BOOLEAN /\ ignore' \in BOOLEAN /\ popover' \in BOOLEAN
        /\ hinting' => hinting
    BY DEF ModeTypes, Arrive
  <1>3. text' \in Text /\ focus' \in {"web", "input"}
    BY DEF ModeTypes, Arrive, Text
  <1> QED
    BY <1>1, <1>2, <1>3

\* Enter keeps the types, and a frame that it adds is one.
LEMMA EnterStep ==
    ASSUME ModeTypes, NEW rest, Inside(rest), NEW t \in Tab, NEW to \in {"n", "i"},
           NEW then \in {"keep", "clear", "open"}, then = "open" => to = "n",
           Enter(rest, t, to, then)
    PROVE  /\ ModeTypes'
           /\ js' = js
           /\ hinting' \/ Leaving' => hinting \/ Leaving
           /\ hinting' => hinting
  <1>1. CASE mode[t] = to /\ then # "open"
    <2>1. /\ waits' = rest
          /\ UNCHANGED <<mode, hinting, ignore, focus, popover, js>>
          /\ text' \in Text
      BY <1>1 DEF Enter, ModeTypes, Text
    <2> QED
      BY <2>1 DEF ModeTypes, Inside, Leaving
  <1>2. CASE ~(mode[t] = to /\ then # "open") /\ mode[t] = "c" /\ hinting
    <2>1. /\ hinting' = FALSE
          /\ text' = ""
          /\ focus' = "web"
          /\ waits' = Append(rest, [tab |-> t, to |-> to, then |-> then])
          /\ UNCHANGED <<mode, ignore, popover, js>>
      BY <1>2 DEF Enter
    <2>2. [tab |-> t, to |-> to, then |-> then] \in Frame
      BY DEF Frame, LeaveFrame
    <2>3. waits' \in Seq(Frame)
      BY <2>1, <2>2, AppendProperties DEF Inside
    <2> QED
      BY <1>2, <2>1, <2>3 DEF ModeTypes, Text
  <1>3. CASE ~(mode[t] = to /\ then # "open") /\ ~(mode[t] = "c" /\ hinting)
    <2>1. Arrive(t, to, then, mode[t] = "c") /\ waits' = rest /\ js' = js
      BY <1>3 DEF Enter
    <2>2. (mode[t] = "c") \in BOOLEAN
      OBVIOUS
    <2> QED
      BY <2>1, <2>2, ArriveTypes DEF ModeTypes, Inside, Leaving
  <1> QED
    BY <1>1, <1>2, <1>3

\* One more call without an answer.
LEMMA AskTypes ==
    ASSUME HintTypes, NEW t \in Tab, NEW p \in HintPrompt, Ask(t, p)
    PROVE  answers' \in [Tab -> Seq(HintPrompt)]
  <1>1. answers[t] \in Seq(HintPrompt)
    BY DEF HintTypes
  <1>2. Append(answers[t], p) \in Seq(HintPrompt)
    BY <1>1, AppendProperties
  <1>3. answers' = [answers EXCEPT ![t] = Append(answers[t], p)]
    BY DEF Ask
  <1> QED
    BY <1>2, <1>3 DEF HintTypes

\* StartHints: the setting that is saved is the one in force.
LEMMA StartHintsStep ==
    ASSUME HintTypes, js \subseteq Tab, NEW t \in Tab, NEW p \in HintPrompt,
           StartHints(t, p)
    PROVE  HintTypes' /\ js' \subseteq Tab /\ hinting' = TRUE /\ Started
  <1>1. answers' \in [Tab -> Seq(HintPrompt)]
    BY AskTypes DEF StartHints
  <1>2. /\ hint' = [prompt |-> p, js |-> t \in js]
        /\ js' = js \cup {t}
        /\ hinting' = TRUE
        /\ newTab' \subseteq Tab
    BY DEF StartHints, HintTypes
  <1>3. (t \in js) \in BOOLEAN
    OBVIOUS
  <1>4. hint' \in [prompt : HintPrompt \cup {""}, js : BOOLEAN]
    BY <1>2, <1>3
  <1>5. hint'.js = (t \in js) /\ hint'.prompt = p
    BY <1>2
  <1> QED
    BY <1>1, <1>2, <1>4, <1>5 DEF HintTypes, Started

\* A step of Enter that leaves the hints alone.
LEMMA EnterKeeps ==
    ASSUME ModeTypes, HintTypes, NEW rest, Inside(rest), NEW t \in Tab,
           NEW to \in {"n", "i"}, NEW then \in {"keep", "clear", "open"},
           then = "open" => to = "n",
           Enter(rest, t, to, then), UNCHANGED hintVars
    PROVE  StepOK
  BY EnterStep DEF StepOK, Kept, HintTypes, hintVars

\* EnterPrompt, with and without hints.
LEMMA PromptStep ==
    ASSUME ModeTypes, HintTypes, NEW t \in Tab,
           NEW p \in HintPrompt \cup {":", "/", ";"}, EnterPrompt(t, p)
    PROVE  StepOK
  <1>1. /\ mode' \in [Tab -> Mode]
        /\ text' \in Text /\ focus' = "input" /\ popover' \in BOOLEAN
        /\ UNCHANGED <<ignore, waits>>
    BY DEF EnterPrompt, ModeTypes, Mode, Text
  <1>2. CASE p \in HintPrompt
    <2>1. StartHints(t, p)
      BY <1>2 DEF EnterPrompt
    <2> QED
      BY <1>1, <1>2, <2>1, StartHintsStep DEF ModeTypes, StepOK
  <1>3. CASE p \notin HintPrompt
    <2>1. hinting' = FALSE /\ UNCHANGED <<js, hintVars>>
      BY <1>3 DEF EnterPrompt
    <2> QED
      BY <1>1, <2>1 DEF ModeTypes, HintTypes, StepOK, Kept, Leaving, hintVars
  <1> QED
    BY <1>2, <1>3

\* Changed: hints start, go on or end with the text.
LEMMA ChangedStep ==
    ASSUME ModeTypes, HintTypes, shown \in Tab, NEW rest, Inside(rest),
           NEW new \in Text, Changed(rest, new)
    PROVE  StepOK
  <1>1. CASE focus = "input" /\ mode[shown] = "c" /\ new = ";" /\ hinting
    <2>1. Enter(rest, shown, "n", "keep") /\ UNCHANGED hintVars
      BY <1>1 DEF Changed
    <2> QED
      BY <2>1, EnterKeeps
  <1>2. CASE ~(focus = "input" /\ mode[shown] = "c" /\ new = ";" /\ hinting)
    <2>1. text' = new /\ waits' = rest /\ UNCHANGED <<mode, ignore, focus, popover>>
      BY <1>2 DEF Changed
    <2>2. Leaving' => Leaving
      BY <2>1 DEF Leaving, Inside
    <2>3. CASE focus = "input" /\ mode[shown] = "c" /\ new \in HintPrompt /\ hinting
      <3>1. /\ hint' = [hint EXCEPT !.prompt = new]
            /\ Ask(shown, new)
            /\ UNCHANGED <<hinting, js, newTab>>
        BY <1>2, <2>3 DEF Changed
      <3>2. answers' \in [Tab -> Seq(HintPrompt)]
        BY <2>3, <3>1, AskTypes
      <3>3. hint' \in [prompt : HintPrompt \cup {""}, js : BOOLEAN]
            /\ hint'.js = hint.js /\ hint'.prompt = new
        BY <2>3, <3>1 DEF HintTypes
      <3> QED
        BY <2>1, <2>3, <2>2, <3>1, <3>2, <3>3 DEF ModeTypes, HintTypes, StepOK, Kept, Inside
    <2>4. CASE focus = "input" /\ mode[shown] = "c" /\ new \in HintPrompt /\ ~hinting
      <3>1. StartHints(shown, new)
        BY <1>2, <2>4 DEF Changed
      <3>2. HintTypes' /\ js' \subseteq Tab /\ hinting' = TRUE /\ Started
        BY <2>4, <3>1, StartHintsStep DEF ModeTypes
      <3> QED
        BY <2>1, <3>2 DEF ModeTypes, StepOK, Inside
    <2>5. CASE ~(focus = "input" /\ mode[shown] = "c" /\ new \in HintPrompt)
      <3>1. UNCHANGED <<hinting, js, hintVars>>
        BY <1>2, <2>5 DEF Changed
      <3> QED
        BY <2>1, <2>2, <3>1 DEF ModeTypes, HintTypes, StepOK, Kept, Inside, hintVars
    <2> QED
      BY <2>3, <2>4, <2>5
  <1> QED
    BY <1>1, <1>2

\* Steps that touch neither hints nor settings nor waiting handlers.
LEMMA QuietStep ==
    ASSUME ModeTypes, HintTypes, mode' \in [Tab -> Mode], ignore' \in BOOLEAN,
           text' \in Text, focus' \in {"web", "input"}, popover' \in BOOLEAN,
           HintTypes', UNCHANGED <<hinting, hint, js, waits>>
    PROVE  StepOK
  BY DEF ModeTypes, StepOK, Kept, Leaving

-----------------------------------------------------------------------------
(* Keys.                                                                   *)

\* Command: a complete command of normal mode.
LEMMA CommandStep ==
    ASSUME ModeTypes, HintTypes, NEW t \in Tab, NEW keys, Command(t, keys)
    PROVE  StepOK
  <1>1. CASE \E p \in Prompts(keys) : EnterPrompt(t, p)
    <2>1. Prompts(keys) \subseteq HintPrompt \cup {":", "/", ";"}
      BY DEF Prompts, HintPrompt
    <2> QED
      BY <1>1, <2>1, PromptStep
  <1>2. CASE ~\E p \in Prompts(keys) : EnterPrompt(t, p)
    <2>1. /\ mode' = IF keys = <<"ctrlZ">> THEN [mode EXCEPT ![t] = "p"] ELSE mode
          /\ focus' = IF keys = <<"esc">> \/ ctrlo THEN "web" ELSE focus
          /\ text' = IF keys = <<"esc">> THEN "" ELSE text
          /\ UNCHANGED <<hinting, ignore, popover, waits, js, hintVars>>
      BY <1>2 DEF Command
    <2>2. mode' \in [Tab -> Mode]
      <3>1. [mode EXCEPT ![t] = "p"] \in [Tab -> Mode]
        BY DEF ModeTypes, Mode
      <3> QED
        BY <2>1, <3>1 DEF ModeTypes
    <2>3. text' \in Text /\ focus' \in {"web", "input"}
      BY <2>1 DEF ModeTypes, Text
    <2> QED
      BY <2>1, <2>2, <2>3, QuietStep DEF ModeTypes, HintTypes, hintVars
  <1> QED
    BY <1>1, <1>2

\* A key that changes nothing but the state of parsers.
LEMMA NothingStep ==
    ASSUME ModeTypes, HintTypes, UNCHANGED <<modeVars, hintVars>>
    PROVE  StepOK
  BY DEF ModeTypes, HintTypes, modeVars, hintVars, StepOK, Kept, Leaving

\* NormalKey: more of a command, or all of it.
LEMMA NormalKeyStep ==
    ASSUME ModeTypes, HintTypes, NEW t \in Tab, NEW k, NormalKey(t, k)
    PROVE  StepOK /\ (pending' = <<>> \/ NeedsMore(pending)')
  <1>1. pending' = <<>> \/ NeedsMore(pending)'
    BY DEF NormalKey, NeedsMore
  <1>2. CASE More(k)
    BY <1>1, <1>2, NothingStep DEF NormalKey
  <1>3. CASE ~More(k)
    BY <1>1, <1>3, CommandStep DEF NormalKey
  <1> QED
    BY <1>2, <1>3

\* InputKey, also after CTRL-O.
LEMMA InputKeyStep ==
    ASSUME ModeTypes, HintTypes, KeyTypes, NEW t \in Tab, NEW k, InputKey(t, k)
    PROVE  StepOK /\ (pending' = <<>> \/ NeedsMore(pending)') /\ ctrlo' \in BOOLEAN
  <1>1. CASE ctrlo
    <2>1. NormalKey(t, k) /\ ctrlo' = More(k)
      BY <1>1 DEF InputKey
    <2>2. More(k) \in BOOLEAN
      BY DEF More, NeedsMore
    <2> QED
      BY <2>1, <2>2, NormalKeyStep
  <1>2. CASE ~ctrlo
    <2>1. ctrlo' \in BOOLEAN /\ UNCHANGED <<pending, hintVars>>
      BY <1>2 DEF InputKey
    <2>2. pending' = <<>> \/ NeedsMore(pending)'
      BY <2>1 DEF KeyTypes, NeedsMore
    <2>3. CASE k = "esc"
      <3>1. Enter(waits, t, "n", "keep")
        BY <1>2, <2>3 DEF InputKey
      <3> QED
        BY <2>1, <2>2, <3>1, AllInside, EnterKeeps
    <2>4. CASE k = "ctrlZ"
      <3>1. /\ mode' = [mode EXCEPT ![t] = "p"]
            /\ UNCHANGED <<hinting, ignore, focus, popover, text, waits, js>>
        BY <1>2, <2>4 DEF InputKey
      <3>2. mode' \in [Tab -> Mode]
        BY <3>1 DEF ModeTypes, Mode
      <3> QED
        BY <2>1, <2>2, <3>1, <3>2, QuietStep DEF ModeTypes, HintTypes, hintVars
    <2>5. CASE k # "esc" /\ k # "ctrlZ"
      <3>1. UNCHANGED modeVars
        BY <1>2, <2>5 DEF InputKey
      <3> QED
        BY <2>1, <2>2, <3>1, NothingStep
    <2> QED
      BY <2>3, <2>4, <2>5
  <1> QED
    BY <1>1, <1>2

\* What edits and ends the command line.
LEMMA EditKeyStep ==
    ASSUME ModeTypes, HintTypes, KeyTypes, shown \in Tab, NEW rest, Inside(rest),
           NEW t \in Tab, NEW k, EditKey(rest, t, k)
    PROVE  StepOK /\ register' \in BOOLEAN
  <1>1. register' \in BOOLEAN
    BY DEF EditKey, KeyTypes
  <1>2. text \in Text /\ Shorter \subseteq Text /\ \A c : Longer(c) \subseteq Text
    <2>1. text \in Text
      BY DEF ModeTypes
    <2>2. Shorter \subseteq Text
      BY <2>1 DEF Shorter, Text
    <2>3. ASSUME NEW c PROVE Longer(c) \subseteq Text
      BY <2>1 DEF Longer, Text, HintPrompt
    <2> QED
      BY <2>1, <2>2, <2>3
  <1>3. CASE \E new \in Text : Changed(rest, new)
    BY <1>1, <1>3, ChangedStep
  <1>4. CASE \E then \in {"keep", "clear"} : Enter(rest, t, "n", then) /\ UNCHANGED hintVars
    BY <1>1, <1>4, EnterKeeps
  <1>5. CASE /\ waits' = rest
             /\ UNCHANGED <<mode, hinting, ignore, focus, popover, text, js, hintVars>>
    BY <1>1, <1>5 DEF ModeTypes, HintTypes, hintVars, Inside, StepOK, Kept, Leaving
  <1>6. CASE register
    <2>1. \E new \in {text} \cup Longer("char") : Changed(rest, new)
      BY <1>6 DEF EditKey
    <2> QED
      BY <1>2, <1>3, <2>1
  <1>7. CASE ~register /\ k = "esc"
    <2>1. Enter(rest, t, "n", "clear") /\ UNCHANGED hintVars
      BY <1>7 DEF EditKey, Printable
    <2> QED
      BY <1>4, <2>1
  <1>8. CASE ~register /\ k = "enter"
    <2>1. /\ UNCHANGED hintVars
          /\ IF text \in {":", "/"}
             THEN \E then \in {"keep", "clear"} : Enter(rest, t, "n", then)
             ELSE /\ waits' = rest
                  /\ UNCHANGED <<mode, hinting, ignore, focus, popover, text, js>>
      BY <1>8 DEF EditKey, Printable
    <2> QED
      BY <1>4, <1>5, <2>1
  <1>9. CASE ~register /\ k = "bs"
    <2>1. PICK new \in Shorter : IF new = ""
                                 THEN /\ Enter(rest, t, "n", "clear")
                                      /\ UNCHANGED hintVars
                                 ELSE Changed(rest, new)
      BY <1>9 DEF EditKey, Printable
    <2> QED
      BY <1>2, <1>3, <1>4, <2>1
  <1>10. CASE ~register /\ k \in Printable
    <2>1. \E new \in Longer(k) : Changed(rest, new)
      BY <1>10 DEF EditKey, Printable
    <2> QED
      BY <1>2, <1>3, <2>1
  <1>11. CASE ~register /\ k \notin {"esc", "enter", "bs"} \cup Printable
    <2>1. /\ waits' = rest
          /\ UNCHANGED <<mode, hinting, ignore, focus, popover, text, js, hintVars>>
      BY <1>11 DEF EditKey, Printable
    <2> QED
      BY <1>5, <2>1
  <1> QED
    BY <1>6, <1>7, <1>8, <1>9, <1>10, <1>11

\* HintKey: the hint is fired, or the page is asked about the key.
LEMMA HintKeyStep ==
    ASSUME ModeTypes, HintTypes, KeyTypes, hint.prompt \in HintPrompt,
           NEW t \in Tab, NEW k \in Key, HintKey(t, k)
    PROVE  StepOK
  <1>1. UNCHANGED <<mode, hinting, ignore, focus, popover, text, js, hint, newTab>>
    BY DEF HintKey
  <1>2. CASE k = "enter"
    <2>1. Ask(t, hint.prompt) /\ UNCHANGED waits
      BY <1>2 DEF HintKey
    <2>2. answers' \in [Tab -> Seq(HintPrompt)]
      BY <2>1, AskTypes
    <2> QED
      BY <1>1, <2>1, <2>2, QuietStep DEF ModeTypes, HintTypes
  <1>3. CASE k # "enter"
    <2> DEFINE f == [tab |-> t, key |-> k, prompt |-> hint.prompt]
    <2>1. waits' = Append(waits, f) /\ UNCHANGED answers
      BY <1>3 DEF HintKey
    <2>2. f \in KeyFrame /\ ~IsLeave(f)
      BY DEF KeyFrame, Text, IsLeave
    <2> HIDE DEF f
    <2>3. waits \in Seq(Frame) /\ f \in Frame
      BY <2>2 DEF ModeTypes, Frame
    <2>4. /\ waits' \in Seq(Frame) /\ Len(waits') = Len(waits) + 1
          /\ \A i \in 1 .. Len(waits) : waits'[i] = waits[i]
          /\ waits'[Len(waits) + 1] = f
      BY <2>1, <2>3, AppendProperties
    <2>5. Leaving' => Leaving
      <3>1. ASSUME NEW i \in DOMAIN waits', IsLeave(waits'[i]) PROVE Leaving
        <4>1. i \in 1 .. Len(waits) + 1 /\ Len(waits) \in Nat
          BY <2>3, <2>4
        <4>2. i # Len(waits) + 1
          BY <2>2, <2>4, <3>1 DEF IsLeave
        <4>3. i \in 1 .. Len(waits)
          BY <4>1, <4>2
        <4> QED
          BY <2>3, <2>4, <3>1, <4>3 DEF Leaving, IsLeave
      <3> QED
        BY <3>1 DEF Leaving, IsLeave
    <2> QED
      BY <1>1, <2>1, <2>4, <2>5 DEF ModeTypes, HintTypes, StepOK, Kept
  <1> QED
    BY <1>2, <1>3

\* PassKey: only escape does something.
LEMMA PassKeyStep ==
    ASSUME ModeTypes, HintTypes, NEW t \in Tab, NEW k, PassKey(t, k)
    PROVE  StepOK
  <1>1. CASE k = "esc"
    <2>1. Enter(waits, t, "n", "keep") /\ UNCHANGED hintVars
      BY <1>1 DEF PassKey
    <2> QED
      BY <2>1, AllInside, EnterKeeps
  <1>2. CASE k # "esc"
    BY <1>2, NothingStep DEF PassKey
  <1> QED
    BY <1>1, <1>2

\* CommandKey: a key for the hints or for the line.
LEMMA CommandKeyStep ==
    ASSUME TypeOK, HintsHavePrompt, NEW t \in Tab, NEW k \in Key, CommandKey(t, k)
    PROVE  StepOK /\ KeyTypes'
  <1>0. ModeTypes /\ HintTypes /\ KeyTypes /\ TabTypes
    BY TypeParts DEF CoreTypes
  <1> USE <1>0
  <1>1. CASE k = "ctrlC"
    <2>1. Enter(waits, t, "n", "keep") /\ UNCHANGED <<keyVars, hintVars>>
      BY <1>1 DEF CommandKey
    <2>2. KeyTypes'
      BY <2>1 DEF KeyTypes, keyVars, NeedsMore
    <2> QED
      BY <2>1, <2>2, AllInside, EnterKeeps
  <1>2. CASE k # "ctrlC" /\ hinting
    <2>1. HintKey(t, k)
      BY <1>2 DEF CommandKey
    <2>2. KeyTypes'
      BY <2>1 DEF HintKey, KeyTypes, keyVars, NeedsMore
    <2> QED
      BY <1>2, <2>1, <2>2, HintKeyStep DEF HintsHavePrompt
  <1>3. CASE k # "ctrlC" /\ ~hinting
    <2>1. EditKey(waits, t, k) /\ UNCHANGED <<pending, ctrlo>>
      BY <1>3 DEF CommandKey
    <2>2. StepOK /\ register' \in BOOLEAN
      BY <2>1, AllInside, EditKeyStep DEF TabTypes
    <2> QED
      BY <2>1, <2>2 DEF KeyTypes, NeedsMore
  <1> QED
    BY <1>1, <1>2, <1>3

\* KeyPress, in every mode.
LEMMA KeyPressStep ==
    ASSUME IInv, NEW k \in Keys, KeyPress(k)
    PROVE  CoreTypes' /\ StepOK
  <1>1. ModeTypes /\ HintTypes /\ KeyTypes /\ TabTypes
    BY TypeParts DEF IInv, CoreTypes
  <1>2. k \in Key /\ shown \in Tab
    BY <1>1, ModesAssumption DEF TabTypes
  <1>3. auth' \subseteq auth /\ UNCHANGED tabVars
    BY DEF KeyPress, GiveUp
  <1>4. StepOK /\ KeyTypes'
    <2>1. CASE mode[shown] = "n"
      <3>1. NormalKey(shown, k) /\ UNCHANGED <<ctrlo, register>>
        BY <2>1 DEF KeyPress
      <3> QED
        BY <1>1, <1>2, <3>1, NormalKeyStep DEF KeyTypes, NeedsMore
    <2>2. CASE mode[shown] = "i"
      <3>1. InputKey(shown, k) /\ UNCHANGED register
        BY <2>2 DEF KeyPress
      <3> QED
        BY <1>1, <1>2, <3>1, InputKeyStep DEF KeyTypes, NeedsMore
    <2>3. CASE mode[shown] = "p"
      <3>1. PassKey(shown, k) /\ UNCHANGED keyVars
        BY <2>3 DEF KeyPress
      <3> QED
        BY <1>1, <1>2, <3>1, PassKeyStep DEF KeyTypes, keyVars, NeedsMore
    <2>4. CASE mode[shown] \notin {"n", "i", "p"}
      <3>1. CommandKey(shown, k)
        BY <2>4 DEF KeyPress
      <3> QED
        BY <1>2, <3>1, CommandKeyStep DEF IInv
    <2> QED
      BY <2>1, <2>2, <2>3, <2>4
  <1>5. TabTypes'
    BY <1>1, <1>3 DEF TabTypes, tabVars
  <1> QED
    BY <1>1, <1>3, <1>4, <1>5 DEF StepOK, CoreTypes

-----------------------------------------------------------------------------
(* Answers of the page.                                                    *)

\* Result: what an answer of the page does.
LEMMA ResultStep ==
    ASSUME ModeTypes, fired \subseteq Tab, NEW rest, Inside(rest), NEW t \in Tab,
           NEW p, NEW r, Result(rest, t, p, r)
    PROVE  /\ ModeTypes'
           /\ js' = js
           /\ hinting' \/ Leaving' => hinting \/ Leaving
           /\ hinting' => hinting
           /\ fired' \subseteq Tab
  <1>1. fired' \subseteq Tab
    BY DEF Result
  <1>2. \/ \E to \in {"n", "i"}, then \in {"keep", "clear", "open"} :
               (then = "open" => to = "n") /\ Enter(rest, t, to, then)
        \/ /\ waits' = rest
           /\ UNCHANGED <<mode, hinting, ignore, focus, popover, text, js>>
    BY DEF Result
  <1>3. CASE /\ waits' = rest
             /\ UNCHANGED <<mode, hinting, ignore, focus, popover, text, js>>
    BY <1>1, <1>3 DEF ModeTypes, Inside, Leaving
  <1> QED
    BY <1>1, <1>2, <1>3, EnterStep

\* HintAnswered: the oldest call of a tab is answered.
LEMMA HintAnsweredStep ==
    ASSUME IInv, NEW t \in Tab, HintAnswered(t)
    PROVE  CoreTypes' /\ StepOK
  <1>1. ModeTypes /\ HintTypes /\ KeyTypes /\ TabTypes
    BY TypeParts DEF IInv, CoreTypes
  <1>2. /\ answers[t] # <<>>
        /\ answers' = [answers EXCEPT ![t] = Tail(answers[t])]
        /\ UNCHANGED <<keyVars, hint, newTab, open, shown, auth>>
    BY DEF HintAnswered
  <1>3. answers' \in [Tab -> Seq(HintPrompt)]
    <2>1. answers[t] \in Seq(HintPrompt)
      BY <1>1 DEF HintTypes
    <2>2. Tail(answers[t]) \in Seq(HintPrompt)
      BY <1>2, <2>1, HeadTailProperties
    <2> QED
      BY <1>1, <1>2, <2>2 DEF HintTypes
  <1>4. PICK r \in AnswersTo(Head(answers[t])) : Result(waits, t, Head(answers[t]), r)
    BY DEF HintAnswered
  <1>5. /\ ModeTypes'
        /\ js' = js
        /\ hinting' \/ Leaving' => hinting \/ Leaving
        /\ hinting' => hinting
        /\ fired' \subseteq Tab
    BY <1>1, <1>4, AllInside, ResultStep DEF TabTypes
  <1>6. HintTypes' /\ KeyTypes' /\ TabTypes'
    BY <1>1, <1>2, <1>3, <1>5 DEF HintTypes, KeyTypes, TabTypes, keyVars, NeedsMore
  <1>7. StepOK
    BY <1>2, <1>5, <1>6 DEF StepOK, Kept
  <1> QED
    BY <1>1, <1>2, <1>5, <1>6, <1>7 DEF CoreTypes

\* A sequence is its front and its last element.
LEMMA FrontElements ==
    ASSUME NEW w \in Seq(Frame), w # <<>>
    PROVE  /\ Front(w) \in Seq(Frame) /\ Last(w) \in Frame
           /\ w = Append(Front(w), Last(w))
  <1> DEFINE n == Len(w)
  <1>1. n \in Nat /\ n > 0
    OBVIOUS
  <1>2. Last(w) = w[n] /\ w[n] \in Frame
    BY <1>1 DEF Last
  <1>3. Front(w) = SubSeq(w, 1, n - 1)
    BY DEF Front
  <1>4. \A i \in 1 .. n - 1 : w[i] \in Frame
    BY <1>1
  <1> HIDE DEF n
  <1>5. /\ Front(w) \in Seq(Frame)
        /\ Len(Front(w)) = n - 1
        /\ \A i \in 1 .. n - 1 : Front(w)[i] = w[i]
    <2>1. 1 \in Int /\ n - 1 \in Int
      BY <1>1
    <2>2. /\ Front(w) \in Seq(Frame)
          /\ Len(Front(w)) = IF 1 <= n - 1 THEN n - 1 - 1 + 1 ELSE 0
          /\ \A i \in 1 .. (n - 1 - 1 + 1) : Front(w)[i] = w[1 + i - 1]
      BY <1>3, <1>4, <2>1, SubSeqProperties
    <2>3. ASSUME NEW k \in Nat, NEW m, m = IF 1 <= k THEN k - 1 + 1 ELSE 0
          PROVE  m = k /\ k - 1 + 1 = k /\ \A i \in 1 .. k : 1 + i - 1 = i
      BY <2>3
    <2>4. n - 1 \in Nat
      BY <1>1
    <2>5. Len(Front(w)) = n - 1 /\ n - 1 - 1 + 1 = n - 1
      BY <2>2, <2>3, <2>4
    <2> QED
      BY <2>2, <2>3, <2>4, <2>5
  <1> DEFINE v == Append(Front(w), Last(w))
  <1>6. /\ v \in Seq(Frame) /\ Len(v) = n - 1 + 1
        /\ \A i \in 1 .. n - 1 : v[i] = Front(w)[i]
        /\ v[n - 1 + 1] = Last(w)
    BY <1>2, <1>5, AppendProperties
  <1> HIDE DEF v
  <1>7. Len(v) = n /\ v[n] = w[n] /\ \A i \in 1 .. n : v[i] = w[i]
    <2>1. n - 1 + 1 = n /\ \A i \in 1 .. n : i \in 1 .. n - 1 \/ i = n
      BY <1>1
    <2> QED
      BY <1>2, <1>5, <1>6, <2>1
  <1>8. v = w
    BY <1>6, <1>7, SeqEqual DEF n
  <1> QED
    BY <1>2, <1>5, <1>8 DEF v

\* The innermost handler, and those that wait behind it.
LEMMA Innermost ==
    ASSUME ModeTypes, waits # <<>>
    PROVE  Last(waits) \in Frame /\ Inside(Front(waits))
           /\ (IsLeave(Last(waits)) => Leaving)
  <1> DEFINE r == Front(waits)
             f == Last(waits)
             n == Len(r)
  <1>1. r \in Seq(Frame) /\ f \in Frame /\ waits = Append(r, f)
    BY FrontElements DEF ModeTypes
  <1> HIDE DEF r, f
  <1>2. /\ n \in Nat /\ DOMAIN r = 1 .. n /\ DOMAIN waits = 1 .. n + 1
        /\ \A i \in 1 .. n : waits[i] = r[i]
        /\ waits[n + 1] = f
    BY <1>1, AppendProperties
  <1> HIDE DEF n
  <1>3. /\ \A i \in DOMAIN r : i \in DOMAIN waits /\ waits[i] = r[i]
        /\ n + 1 \in DOMAIN waits
    BY <1>2
  <1>4. Inside(r) /\ (IsLeave(f) => Leaving)
    BY <1>1, <1>2, <1>3 DEF Inside, Leaving, IsLeave
  <1> QED
    BY <1>1, <1>4 DEF r, f

\* WaitEnds: the innermost wait is over.
LEMMA WaitEndsStep ==
    ASSUME IInv, WaitEnds, scripts' = scripts
    PROVE  CoreTypes' /\ HintsHavePrompt' /\ SavedAllows'
  <1>1. ModeTypes /\ HintTypes /\ KeyTypes /\ TabTypes
    BY TypeParts DEF IInv, CoreTypes
  <1> DEFINE f == Last(waits)
             rest == Front(waits)
  <1>2. f \in Frame /\ Inside(rest) /\ (IsLeave(f) => Leaving)
    BY <1>1, Innermost DEF WaitEnds
  <1>3. UNCHANGED <<open, shown, auth>>
    BY DEF WaitEnds
  <1>4. CASE IsLeave(f)
    <2>1. /\ js' = IF hint.js THEN js ELSE js \ {f.tab}
          /\ Arrive(f.tab, f.to, f.then, TRUE)
          /\ waits' = rest
          /\ UNCHANGED <<hintVars, fired, keyVars>>
      BY <1>4 DEF WaitEnds
    <2>2. f \in LeaveFrame
      BY <1>2, <1>4 DEF Frame, KeyFrame, IsLeave
    <2>3. f.tab \in Tab /\ f.to \in {"n", "i"} /\ f.then \in {"keep", "clear", "open"}
      BY <2>2 DEF LeaveFrame
    <2> HIDE DEF f, rest
    <2>4. /\ mode' \in [Tab -> Mode]
          /\ hinting' \in BOOLEAN /\ ignore' \in BOOLEAN
          /\ text' \in Text /\ focus' \in {"web", "input"} /\ popover' \in BOOLEAN
          /\ hinting' => hinting
      BY <1>1, <2>1, <2>3, ArriveTypes
    <2>5. ModeTypes'
      BY <1>1, <1>2, <2>1, <2>4 DEF ModeTypes, Inside
    <2>6. HintTypes' /\ KeyTypes' /\ TabTypes'
      BY <1>1, <1>3, <2>1 DEF HintTypes, hintVars, KeyTypes, keyVars, NeedsMore, TabTypes
    <2>7. HintsHavePrompt' /\ SavedAllows'
      BY <1>2, <1>4, <2>1, <2>4 DEF IInv, HintsHavePrompt, SavedAllows, hintVars,
                                    Leaving, Inside
    <2> QED
      BY <1>1, <1>3, <2>5, <2>6, <2>7 DEF CoreTypes
  <1>5. CASE ~IsLeave(f)
    <2>1. PICK r \in KeyAnswers(f) :
               IF r = "error"
               THEN EditKey(rest, f.tab, f.key) /\ UNCHANGED <<pending, ctrlo, fired>>
               ELSE Result(rest, f.tab, f.prompt, r) /\ UNCHANGED <<hintVars, keyVars>>
      BY <1>5 DEF WaitEnds
    <2>2. f.tab \in Tab
      BY <1>2, <1>5 DEF Frame, LeaveFrame, KeyFrame, IsLeave
    <2> HIDE DEF f, rest
    <2>3. StepOK /\ KeyTypes' /\ fired' \subseteq Tab
      <3>1. CASE r = "error"
        <4>1. EditKey(rest, f.tab, f.key) /\ UNCHANGED <<pending, ctrlo, fired>>
          BY <2>1, <3>1
        <4>2. StepOK /\ register' \in BOOLEAN
          BY <1>1, <1>2, <2>2, <4>1, EditKeyStep DEF TabTypes
        <4> QED
          BY <1>1, <4>1, <4>2 DEF KeyTypes, NeedsMore, TabTypes
      <3>2. CASE r # "error"
        <4>1. Result(rest, f.tab, f.prompt, r) /\ UNCHANGED <<hintVars, keyVars>>
          BY <2>1, <3>2
        <4>2. /\ ModeTypes'
              /\ js' = js
              /\ hinting' \/ Leaving' => hinting \/ Leaving
              /\ hinting' => hinting
              /\ fired' \subseteq Tab
          BY <1>1, <1>2, <2>2, <4>1, ResultStep DEF TabTypes
        <4> QED
          BY <1>1, <4>1, <4>2 DEF HintTypes, hintVars, KeyTypes, keyVars, NeedsMore,
                                  StepOK, Kept
      <3> QED
        BY <3>1, <3>2
    <2>4. TabTypes'
      BY <1>1, <1>3, <2>3 DEF TabTypes
    <2>5. HintsHavePrompt' /\ SavedAllows'
      BY <2>3, SavedStep DEF IInv, StepOK
    <2> QED
      BY <1>1, <1>3, <2>3, <2>4, <2>5 DEF StepOK, CoreTypes
  <1> QED
    BY <1>4, <1>5

-----------------------------------------------------------------------------
(* Events of the pages and of the window.                                  *)

\* Handlers that only enter a mode.
LEMMA EnterEvent ==
    ASSUME IInv, NEW t \in Tab, NEW to \in {"n", "i"}, Enter(waits, t, to, "keep"),
           UNCHANGED <<keyVars, hintVars, tabVars, auth>>
    PROVE  CoreTypes' /\ StepOK
  <1>1. ModeTypes /\ HintTypes /\ KeyTypes /\ TabTypes
    BY TypeParts DEF IInv, CoreTypes
  <1>2. StepOK
    BY <1>1, AllInside, EnterKeeps
  <1>3. KeyTypes' /\ TabTypes'
    BY <1>1 DEF KeyTypes, keyVars, NeedsMore, TabTypes, tabVars
  <1> QED
    BY <1>2, <1>3 DEF StepOK, CoreTypes

\* Handlers that leave the hints and the waiting handlers alone.
LEMMA QuietEvent ==
    ASSUME IInv, mode' \in [Tab -> Mode], ignore' \in BOOLEAN,
           focus' \in {"web", "input"}, HintTypes', TabTypes',
           UNCHANGED <<keyVars, hinting, text, popover, hint, js, waits>>
    PROVE  CoreTypes' /\ StepOK
  <1>1. ModeTypes /\ HintTypes /\ KeyTypes
    BY TypeParts DEF IInv, CoreTypes
  <1>2. StepOK
    BY <1>1, QuietStep DEF ModeTypes
  <1>3. KeyTypes'
    BY <1>1 DEF KeyTypes, keyVars, NeedsMore
  <1> QED
    BY <1>2, <1>3 DEF StepOK, CoreTypes

\* CloseTab: what the tab had is gone.
LEMMA CloseTabStep ==
    ASSUME IInv, NEW t \in Tab, CloseTab(t)
    PROVE  CoreTypes' /\ StepOK
  <1>1. ModeTypes /\ HintTypes /\ TabTypes
    BY TypeParts DEF IInv, CoreTypes
  <1>2. /\ t \in open /\ open # {t}
        /\ open' = open \ {t}
        /\ IF t = shown THEN shown' \in open' /\ focus' = "web"
                        ELSE UNCHANGED <<shown, focus>>
        /\ answers' = [answers EXCEPT ![t] = <<>>]
        /\ newTab' = newTab \ {t}
        /\ fired' = fired \ {t}
        /\ auth' = auth \ {t}
        /\ UNCHANGED <<keyVars, mode, hinting, ignore, popover, text, waits, js, hint>>
    BY DEF CloseTab
  <1>3. TabTypes'
    BY <1>1, <1>2 DEF TabTypes
  <1>4. HintTypes'
    <2>1. <<>> \in Seq(HintPrompt)
      OBVIOUS
    <2> QED
      BY <1>1, <1>2, <2>1 DEF HintTypes
  <1>5. focus' \in {"web", "input"}
    BY <1>1, <1>2 DEF ModeTypes
  <1> QED
    BY <1>1, <1>2, <1>3, <1>4, <1>5, QuietEvent DEF ModeTypes

-----------------------------------------------------------------------------
(* The invariant.                                                          *)

\* The invariant holds at first.
LEMMA InitInv == Init => IInv
  <1> SUFFICES ASSUME Init PROVE IInv
    OBVIOUS
  <1>1. /\ waits = <<>> /\ <<>> \in Seq(Frame)
        /\ <<>> \in Seq(HintPrompt)
    BY EmptySeq DEF Init
  <1>2. mode \in [Tab -> Mode] /\ text \in Text
    BY DEF Init, Mode, Text
  <1>3. ModeTypes
    BY <1>1, <1>2, ModesAssumption DEF Init, ModeTypes
  <1>4. hint \in [prompt : HintPrompt \cup {""}, js : BOOLEAN]
    BY DEF Init
  <1>5. answers \in [Tab -> Seq(HintPrompt)]
    BY <1>1 DEF Init
  <1>6. HintTypes
    BY <1>4, <1>5 DEF Init, HintTypes
  <1>7. KeyTypes /\ TabTypes /\ HistTypes
    BY DEF Init, KeyTypes, TabTypes, HistTypes
  <1>8. ~Leaving
    <2>1. DOMAIN waits = {}
      BY <1>1
    <2> QED
      BY <2>1 DEF Leaving
  <1>9. SavedAllows /\ HintsHavePrompt
    BY <1>8 DEF Init, HintsHavePrompt, SavedAllows
  <1> QED
    BY <1>3, <1>6, <1>7, <1>9, TypeParts DEF IInv, CoreTypes

\* Every step keeps the invariant.
LEMMA NextInv == IInv /\ [Next]_vars => IInv'
  <1> SUFFICES ASSUME IInv, [Next]_vars PROVE IInv'
    OBVIOUS
  <1>0. ModeTypes /\ HintTypes /\ KeyTypes /\ TabTypes
    BY TypeParts DEF IInv, CoreTypes
  <1>h. HistTypes' /\ scripts' = scripts
    <2>1. Remember \/ UNCHANGED vars
      BY DEF Next
    <2> QED
      BY <2>1, TypeParts, RememberStep DEF IInv
  <1>a. ASSUME CoreTypes', StepOK PROVE IInv'
    BY <1>a, <1>h, SavedStep, TypePartsNext DEF IInv, StepOK
  <1>1. ASSUME NEW k \in Keys, KeyPress(k) PROVE IInv'
    BY <1>1, <1>a, KeyPressStep
  <1>2. ASSUME NEW t \in Tab, HintAnswered(t) PROVE IInv'
    BY <1>2, <1>a, HintAnsweredStep
  <1>3. CASE WaitEnds
    BY <1>3, <1>h, WaitEndsStep, TypePartsNext DEF IInv
  <1>4. ASSUME NEW t \in Tab, NEW editable \in BOOLEAN, FocusMessage(t, editable)
        PROVE  IInv'
    <2>1. \E to \in {"n", "i"} : Enter(waits, t, to, "keep")
      BY <1>4 DEF FocusMessage
    <2>2. UNCHANGED <<keyVars, hintVars, tabVars, auth>>
      BY <1>4 DEF FocusMessage
    <2> QED
      BY <1>0, <1>a, <2>1, <2>2, EnterEvent
  <1>5. ASSUME NEW t \in Tab, Authenticate(t) PROVE IInv'
    <2>1. /\ mode' = [mode EXCEPT ![t] = "i"] /\ ignore' = TRUE
          /\ auth' = auth \cup {t}
          /\ focus' = IF t = shown THEN "web" ELSE focus
          /\ UNCHANGED <<keyVars, hinting, popover, text, waits, js, hintVars, tabVars>>
      BY <1>5 DEF Authenticate
    <2>2. mode' \in [Tab -> Mode] /\ focus' \in {"web", "input"}
      BY <1>0, <2>1 DEF ModeTypes, Mode
    <2>3. HintTypes' /\ TabTypes'
      BY <1>0, <2>1 DEF HintTypes, hintVars, TabTypes, tabVars
    <2> QED
      BY <1>a, <2>1, <2>2, <2>3, QuietEvent DEF hintVars
  <1>6. ASSUME NEW t \in Tab, LoadStarted(t) PROVE IInv'
    <2>1. /\ Enter(waits, t, "n", "keep")
          /\ UNCHANGED <<keyVars, hintVars, tabVars, auth>>
      BY <1>6 DEF LoadStarted
    <2> QED
      BY <1>0, <1>a, <2>1, EnterEvent
  <1>7. ASSUME NEW t \in Tab, LoadCommitted(t) PROVE IInv'
    <2>1. /\ ignore' = FALSE /\ auth' = auth \ {t}
          /\ UNCHANGED <<keyVars, mode, hinting, focus, popover, text, waits, js,
                         hintVars, tabVars>>
      BY <1>7 DEF LoadCommitted
    <2>2. HintTypes' /\ TabTypes'
      BY <1>0, <2>1 DEF HintTypes, hintVars, TabTypes, tabVars
    <2> QED
      BY <1>0, <1>a, <2>1, <2>2, QuietEvent DEF ModeTypes, hintVars
  <1>8. ASSUME NEW t \in Tab, Navigate(t) PROVE IInv'
    <2>1. /\ newTab' = newTab \ {t} /\ fired' = fired \ {t}
          /\ UNCHANGED <<keyVars, modeVars, hint, answers, open, shown, auth>>
      BY <1>8 DEF Navigate
    <2>2. HintTypes' /\ TabTypes'
      BY <1>0, <2>1 DEF HintTypes, TabTypes
    <2> QED
      BY <1>0, <1>a, <2>1, <2>2, QuietEvent DEF ModeTypes, modeVars
  <1>9. ASSUME NEW t \in Tab, SwitchPage(t) PROVE IInv'
    <2>1. /\ t \in open /\ shown' = t /\ focus' = "web"
          /\ UNCHANGED <<keyVars, mode, hinting, ignore, popover, text, waits, js,
                         hintVars, open, fired, auth>>
      BY <1>9 DEF SwitchPage
    <2>2. HintTypes' /\ TabTypes'
      BY <1>0, <2>1 DEF HintTypes, hintVars, TabTypes
    <2> QED
      BY <1>0, <1>a, <2>1, <2>2, QuietEvent DEF ModeTypes, hintVars
  <1>10. ASSUME NEW t \in Tab, CloseTab(t) PROVE IInv'
    BY <1>10, <1>a, CloseTabStep
  <1>11. ASSUME NEW w \in {"web", "input"}, Click(w) PROVE IInv'
    <2>1. /\ focus' = w
          /\ UNCHANGED <<keyVars, mode, hinting, ignore, popover, text, waits, js,
                         hintVars, tabVars, auth>>
      BY <1>11 DEF Click
    <2>2. HintTypes' /\ TabTypes'
      BY <1>0, <2>1 DEF HintTypes, hintVars, TabTypes, tabVars
    <2> QED
      BY <1>0, <1>a, <2>1, <2>2, QuietEvent DEF ModeTypes, hintVars
  <1>12. CASE UNCHANGED vars
    <2>1. UNCHANGED <<keyVars, modeVars, hintVars, tabVars, auth>>
      BY <1>12 DEF vars
    <2>2. HintTypes' /\ TabTypes'
      BY <1>0, <2>1 DEF HintTypes, hintVars, TabTypes, tabVars
    <2> QED
      BY <1>0, <1>a, <2>1, <2>2, QuietEvent DEF ModeTypes, modeVars, hintVars
  <1> QED
    BY <1>1, <1>2, <1>3, <1>4, <1>5, <1>6, <1>7, <1>8, <1>9, <1>10, <1>11, <1>12 DEF Next

\* The types, and what is saved on the way out of hints, in every behaviour.
THEOREM Invariance == Spec => []IInv
  <1> QED
    BY InitInv, NextInv, PTL DEF Spec

\* Every reachable state of the modes is well typed: the shown tab is open,
\* and the frames of waiting handlers belong to tabs.
THEOREM TypeCorrect == Spec => []TypeOK
  <1>1. IInv => TypeOK
    BY DEF IInv
  <1> QED
    BY <1>1, Invariance, PTL

\* Where all tabs allow scripts, hinting never forbids them: hints_clear may
\* run for any tab, and inside the evaluation of another hints_clear.
THEOREM ScriptsAreNeverTaken == Spec => []ScriptsStayAllowed
  <1>1. IInv => ScriptsStayAllowed
    BY DEF IInv, SavedAllows, ScriptsStayAllowed
  <1> QED
    BY <1>1, Invariance, PTL

-----------------------------------------------------------------------------
(***************************************************************************)
(* What vb_enter changed is put back.  A step belongs to one open tab: it  *)
(* changes the mode of no other, and of the hints it keeps what is saved,  *)
(* begins or ends them, or (with the mode 'c' entered from another tab)    *)
(* forgets them, which is a clash.                                         *)
(***************************************************************************)

\* The tabs that waiting handlers belong to, and those that leave hints.
FrameTabs(w) == {w[i].tab : i \in DOMAIN w}
LeaveTabs(w) == {w[i].tab : i \in {j \in DOMAIN w : IsLeave(w[j])}}

\* The setting of tab t is still to be restored from what is saved.
Due(t) == (hinting /\ mode[t] = "c") \/ t \in LeaveTabs(waits)

Restorable(t) ==
    IF Due(t) THEN hint.js = (t \in scripts) /\ (t \in scripts => t \in js)
              ELSE (t \in js) = (t \in scripts)

HintsKept == "hints" \notin clashes => \A t \in open : Restorable(t)

\* Handlers, authentications and calls belong to open tabs.
Present ==
    /\ FrameTabs(waits) \subseteq open /\ auth \subseteq open
    /\ \A t \in Tab \ open : answers[t] = <<>>

ClashesNoted ==
    /\ HintsClash => "hints" \in clashes
    /\ InputsClash => "inputs" \in clashes

FollowInv ==
    IInv /\ Present /\ ClashesNoted /\ HintsKept /\ AuthKeepsInput /\ PopoverInPrompt

(* What a step of tab t does.                                              *)
ModesStep(t) == \A u \in Tab : u # t => mode'[u] = mode[u]
IgnoreStep(t) == ignore' = ignore \/ (mode[t] # "i" /\ mode'[t] = "i")
PopStep(t) == popover' => /\ popover \/ mode'[t] = "c"
                          /\ mode[t] = "c" => mode'[t] = "c"

HintsSame(t) == /\ hinting' = hinting /\ js' = js /\ hint'.js = hint.js
                /\ LeaveTabs(waits') = LeaveTabs(waits)
                /\ hinting => (mode'[t] = "c" <=> mode[t] = "c")
HintsEnd(t) == /\ hinting /\ ~hinting' /\ js' = js /\ hint'.js = hint.js
               /\ LeaveTabs(waits') = LeaveTabs(waits) \cup {t}
               /\ mode[t] = "c" /\ mode'[t] = "c"
HintsForgotten(t) == /\ ~hinting' /\ js' = js /\ hint'.js = hint.js
                     /\ LeaveTabs(waits') = LeaveTabs(waits)
                     /\ mode[t] # "c" /\ mode'[t] = "c"
HintsBegin(t) == /\ hinting' /\ js' = js \cup {t} /\ hint'.js = (t \in js)
                 /\ LeaveTabs(waits') = LeaveTabs(waits)
                 /\ ~hinting \/ mode[t] # "c"
                 /\ mode'[t] = "c"
HintsStep(t) == HintsSame(t) \/ HintsEnd(t) \/ HintsForgotten(t) \/ HintsBegin(t)

Acts(t) == ModesStep(t) /\ IgnoreStep(t) /\ PopStep(t) /\ HintsStep(t)

\* The frames that stay are those of the tabs that wait, but for keys.
Remain(rest) ==
    /\ rest \in Seq(Frame)
    /\ LeaveTabs(rest) = LeaveTabs(waits)
    /\ FrameTabs(rest) \subseteq open

\* An added frame adds its tab.
LEMMA AppendTabs ==
    ASSUME NEW w \in Seq(Frame), NEW f \in Frame
    PROVE  /\ FrameTabs(Append(w, f)) = FrameTabs(w) \cup {f.tab}
           /\ IsLeave(f) => LeaveTabs(Append(w, f)) = LeaveTabs(w) \cup {f.tab}
           /\ ~IsLeave(f) => LeaveTabs(Append(w, f)) = LeaveTabs(w)
  <1> DEFINE v == Append(w, f)
             n == Len(w)
  <1>1. /\ n \in Nat /\ DOMAIN w = 1 .. n /\ DOMAIN v = 1 .. n + 1
        /\ \A i \in 1 .. n : v[i] = w[i]
        /\ v[n + 1] = f
    BY AppendProperties
  <1> HIDE DEF v, n
  <1>2. DOMAIN v = DOMAIN w \cup {n + 1} /\ \A i \in DOMAIN w : v[i] = w[i]
    BY <1>1
  <1>3. FrameTabs(v) = FrameTabs(w) \cup {f.tab}
    BY <1>1, <1>2 DEF FrameTabs
  <1>4. IsLeave(f) => LeaveTabs(v) = LeaveTabs(w) \cup {f.tab}
    BY <1>1, <1>2 DEF LeaveTabs, IsLeave
  <1>5. ~IsLeave(f) => LeaveTabs(v) = LeaveTabs(w)
    BY <1>1, <1>2 DEF LeaveTabs, IsLeave
  <1> QED
    BY <1>3, <1>4, <1>5 DEF v

\* The frame that is taken off takes its tab with it.
LEMMA FrontTabs ==
    ASSUME NEW w \in Seq(Frame), w # <<>>
    PROVE  /\ Front(w) \in Seq(Frame) /\ Last(w) \in Frame
           /\ FrameTabs(w) = FrameTabs(Front(w)) \cup {Last(w).tab}
           /\ IsLeave(Last(w)) => LeaveTabs(w) = LeaveTabs(Front(w)) \cup {Last(w).tab}
           /\ ~IsLeave(Last(w)) => LeaveTabs(Front(w)) = LeaveTabs(w)
  <1> DEFINE r == Front(w)
             f == Last(w)
  <1>1. r \in Seq(Frame) /\ f \in Frame /\ w = Append(r, f)
    BY FrontElements
  <1> HIDE DEF r, f
  <1>2. /\ FrameTabs(w) = FrameTabs(r) \cup {f.tab}
        /\ IsLeave(f) => LeaveTabs(w) = LeaveTabs(r) \cup {f.tab}
        /\ ~IsLeave(f) => LeaveTabs(w) = LeaveTabs(r)
    BY <1>1, AppendTabs
  <1> QED
    BY <1>1, <1>2 DEF r, f

\* Leaving hints, said of frames and of tabs.
LEMMA LeaveTabsOf ==
    ASSUME NEW w
    PROVE  (\E i \in DOMAIN w : IsLeave(w[i])) <=> LeaveTabs(w) # {}
  BY DEF LeaveTabs

\* All frames remain.
LEMMA AllRemain ==
    ASSUME ModeTypes, Present PROVE Remain(waits)
  BY DEF ModeTypes, Present, Remain

-----------------------------------------------------------------------------
(* The operators the actions are built from, again.                        *)

\* vb_enter.  A caller that opens the line again enters the mode n before.
LEMMA EnterActs ==
    ASSUME ModeTypes, open \subseteq Tab, NEW rest, Remain(rest), NEW t \in open,
           NEW to \in {"n", "i"}, NEW then \in {"keep", "clear", "open"},
           then = "open" => to = "n",
           Enter(rest, t, to, then), hint'.js = hint.js
    PROVE  Acts(t) /\ FrameTabs(waits') \subseteq open
  <1>1. CASE mode[t] = to /\ then # "open"
    <2>1. /\ waits' = rest
          /\ UNCHANGED <<mode, hinting, ignore, popover, js>>
      BY <1>1 DEF Enter
    <2> QED
      BY <2>1 DEF Remain, Acts, ModesStep, IgnoreStep, PopStep, HintsStep, HintsSame
  <1>2. CASE ~(mode[t] = to /\ then # "open") /\ mode[t] = "c" /\ hinting
    <2> DEFINE f == [tab |-> t, to |-> to, then |-> then]
    <2>1. /\ hinting' = FALSE
          /\ waits' = Append(rest, f)
          /\ UNCHANGED <<mode, ignore, popover, js>>
      BY <1>2 DEF Enter
    <2>2. f \in Frame /\ f.tab = t /\ IsLeave(f)
      BY DEF Frame, LeaveFrame, IsLeave
    <2> HIDE DEF f
    <2>3. /\ FrameTabs(waits') = FrameTabs(rest) \cup {t}
          /\ LeaveTabs(waits') = LeaveTabs(rest) \cup {t}
      BY <2>1, <2>2, AppendTabs DEF Remain
    <2>4. HintsEnd(t) /\ FrameTabs(waits') \subseteq open
      BY <1>2, <2>1, <2>3 DEF Remain, HintsEnd
    <2> QED
      BY <2>1, <2>4 DEF Acts, ModesStep, IgnoreStep, PopStep, HintsStep
  <1>3. CASE ~(mode[t] = to /\ then # "open") /\ ~(mode[t] = "c" /\ hinting)
    <2>1. /\ mode' = [mode EXCEPT ![t] = IF then = "open" THEN "c" ELSE to]
          /\ hinting' = (hinting /\ then # "open")
          /\ ignore' = (ignore /\ to # "i")
          /\ popover' = (popover /\ ~(mode[t] = "c"))
          /\ waits' = rest /\ js' = js
      BY <1>3 DEF Enter, Arrive
    <2>2. /\ \A u \in Tab : u # t => mode'[u] = mode[u]
          /\ mode'[t] = IF then = "open" THEN "c" ELSE to
      BY <2>1 DEF ModeTypes
    <2>3. IgnoreStep(t)
      BY <1>3, <2>1, <2>2 DEF ModeTypes, IgnoreStep
    <2>4. PopStep(t)
      BY <2>1 DEF PopStep
    <2>5. HintsSame(t) \/ HintsForgotten(t)
      <3>1. /\ LeaveTabs(waits') = LeaveTabs(waits) /\ js' = js
            /\ hint'.js = hint.js
        BY <2>1 DEF Remain
      <3>2. CASE ~hinting
        BY <2>1, <3>1, <3>2 DEF HintsSame, ModeTypes
      <3>3. CASE hinting /\ then # "open"
        <4>1. mode'[t] # "c" /\ mode[t] # "c" /\ hinting' = hinting
          BY <1>3, <2>1, <2>2, <3>3
        <4> QED
          BY <3>1, <4>1 DEF HintsSame
      <3>4. CASE hinting /\ then = "open"
        <4>1. mode'[t] = "c" /\ mode[t] # "c" /\ ~hinting'
          BY <1>3, <2>1, <2>2, <3>4
        <4> QED
          BY <3>1, <4>1 DEF HintsForgotten
      <3> QED
        BY <3>2, <3>3, <3>4
    <2> QED
      BY <2>1, <2>2, <2>3, <2>4, <2>5 DEF Remain, Acts, ModesStep, HintsStep
  <1> QED
    BY <1>1, <1>2, <1>3

\* Steps that touch neither hints nor waiting handlers nor the popover.
LEMMA QuietActs ==
    ASSUME NEW t, ModesStep(t), (mode[t] # "c" /\ mode'[t] # "c") \/ mode' = mode,
           LeaveTabs(waits') = LeaveTabs(waits), hint'.js = hint.js,
           UNCHANGED <<hinting, ignore, popover, js>>
    PROVE  Acts(t)
  BY DEF Acts, IgnoreStep, PopStep, HintsStep, HintsSame

\* The calls of closed tabs are left alone.
AnswersStay == \A u \in Tab \ open : answers'[u] = answers[u]

\* hints_create saves the setting of its tab.
LEMMA StartActs ==
    ASSUME HintTypes, NEW t \in open, NEW p, StartHints(t, p),
           LeaveTabs(waits') = LeaveTabs(waits),
           ~hinting \/ mode[t] # "c", mode'[t] = "c"
    PROVE  HintsBegin(t) /\ AnswersStay
  <1>1. /\ hinting' = TRUE
        /\ hint' = [prompt |-> p, js |-> t \in js]
        /\ js' = js \cup {t}
    BY DEF StartHints
  <1>2. hint'.js = (t \in js)
    BY <1>1
  <1>3. AnswersStay
    BY DEF HintTypes, StartHints, Ask, AnswersStay
  <1> QED
    BY <1>1, <1>2, <1>3 DEF HintsBegin

\* vb_enter_prompt, from a mode that is not the command mode.
LEMMA PromptActs ==
    ASSUME ModeTypes, HintTypes, open \subseteq Tab, NEW t \in open, NEW p,
           mode[t] # "c", EnterPrompt(t, p)
    PROVE  Acts(t) /\ waits' = waits /\ AnswersStay
  <1>1. /\ mode' = [mode EXCEPT ![t] = "c"]
        /\ UNCHANGED <<ignore, waits>>
    BY DEF EnterPrompt
  <1>2. ModesStep(t) /\ mode'[t] = "c" /\ IgnoreStep(t) /\ PopStep(t)
    BY <1>1 DEF ModeTypes, ModesStep, IgnoreStep, PopStep
  <1>3. CASE p \in HintPrompt
    <2>1. StartHints(t, p)
      BY <1>3 DEF EnterPrompt
    <2> QED
      BY <1>1, <1>2, <2>1, StartActs DEF Acts, HintsStep
  <1>4. CASE p \notin HintPrompt
    <2>1. hinting' = FALSE /\ js' = js /\ hint' = hint /\ answers' = answers
      BY <1>4 DEF EnterPrompt, hintVars
    <2>2. HintsForgotten(t)
      BY <1>1, <1>2, <2>1 DEF HintsForgotten
    <2> QED
      BY <1>1, <1>2, <2>1, <2>2 DEF Acts, HintsStep, AnswersStay
  <1> QED
    BY <1>3, <1>4

\* ex_input_changed is one of the shown tab.
LEMMA ChangedActs ==
    ASSUME ModeTypes, HintTypes, open \subseteq Tab, shown \in open,
           NEW rest, Remain(rest), NEW new, Changed(rest, new)
    PROVE  /\ Acts(shown) /\ FrameTabs(waits') \subseteq open
           /\ mode[shown] = "c" \/ mode' = mode
           /\ AnswersStay
  <1>1. CASE focus = "input" /\ mode[shown] = "c" /\ new = ";" /\ hinting
    <2>1. Enter(rest, shown, "n", "keep") /\ hint' = hint /\ answers' = answers
      BY <1>1 DEF Changed, hintVars
    <2> QED
      BY <1>1, <2>1, EnterActs DEF AnswersStay
  <1>2. CASE ~(focus = "input" /\ mode[shown] = "c" /\ new = ";" /\ hinting)
    <2>1. waits' = rest /\ UNCHANGED <<mode, ignore, popover>>
      BY <1>2 DEF Changed
    <2>2. /\ LeaveTabs(waits') = LeaveTabs(waits) /\ FrameTabs(waits') \subseteq open
          /\ ModesStep(shown) /\ IgnoreStep(shown) /\ PopStep(shown)
      BY <2>1 DEF Remain, ModesStep, IgnoreStep, PopStep
    <2>3. CASE focus = "input" /\ mode[shown] = "c" /\ new \in HintPrompt /\ hinting
      <3>1. /\ hint' = [hint EXCEPT !.prompt = new]
            /\ Ask(shown, new)
            /\ UNCHANGED <<hinting, js>>
        BY <1>2, <2>3 DEF Changed
      <3>2. hint'.js = hint.js /\ AnswersStay
        BY <3>1 DEF HintTypes, Ask, AnswersStay
      <3> QED
        BY <2>1, <2>2, <2>3, <3>1, <3>2, QuietActs
    <2>4. CASE focus = "input" /\ mode[shown] = "c" /\ new \in HintPrompt /\ ~hinting
      <3>1. StartHints(shown, new)
        BY <1>2, <2>4 DEF Changed
      <3>2. HintsBegin(shown) /\ AnswersStay
        BY <2>1, <2>2, <2>4, <3>1, StartActs
      <3> QED
        BY <2>2, <2>4, <3>2 DEF Acts, HintsStep
    <2>5. CASE ~(focus = "input" /\ mode[shown] = "c" /\ new \in HintPrompt)
      <3>1. UNCHANGED <<hinting, js, hint, answers>>
        BY <1>2, <2>5 DEF Changed, hintVars
      <3> QED
        BY <2>1, <2>2, <3>1, QuietActs DEF AnswersStay
    <2> QED
      BY <2>3, <2>4, <2>5
  <1> QED
    BY <1>1, <1>2

-----------------------------------------------------------------------------
(* Keys, again.                                                            *)

\* A complete command of normal mode, or a part of one.
LEMMA NormalKeyActs ==
    ASSUME ModeTypes, HintTypes, open \subseteq Tab, NEW t \in open, mode[t] # "c",
           NEW k, NormalKey(t, k)
    PROVE  Acts(t) /\ waits' = waits /\ AnswersStay
  <1>1. CASE More(k)
    <2>1. UNCHANGED <<mode, hinting, ignore, popover, js, waits, hint, answers>>
      BY <1>1 DEF NormalKey, modeVars, hintVars
    <2> QED
      BY <2>1, QuietActs DEF ModesStep, AnswersStay
  <1>2. ASSUME NEW keys, Command(t, keys)
        PROVE  Acts(t) /\ waits' = waits /\ AnswersStay
    <2>1. CASE \E p \in Prompts(keys) : EnterPrompt(t, p)
      BY <2>1, PromptActs
    <2>2. CASE ~\E p \in Prompts(keys) : EnterPrompt(t, p)
      <3>1. /\ mode' = IF keys = <<"ctrlZ">> THEN [mode EXCEPT ![t] = "p"] ELSE mode
            /\ UNCHANGED <<hinting, ignore, popover, waits, js, hint, answers>>
        BY <1>2, <2>2 DEF Command, hintVars
      <3>2. ModesStep(t) /\ mode'[t] # "c"
        BY <3>1 DEF ModeTypes, ModesStep
      <3> QED
        BY <3>1, <3>2, QuietActs DEF AnswersStay
    <2> QED
      BY <2>1, <2>2
  <1> QED
    BY <1>1, <1>2 DEF NormalKey

\* A key in input mode, also after CTRL-O.
LEMMA InputKeyActs ==
    ASSUME ModeTypes, HintTypes, open \subseteq Tab, Present,
           NEW t \in open, mode[t] = "i", NEW k, InputKey(t, k)
    PROVE  Acts(t) /\ FrameTabs(waits') \subseteq open /\ AnswersStay
  <1>1. CASE ctrlo
    BY <1>1, NormalKeyActs DEF InputKey, Present
  <1>2. CASE ~ctrlo
    <2>1. hint' = hint /\ AnswersStay
      BY <1>2 DEF InputKey, hintVars, AnswersStay
    <2>2. CASE k = "esc"
      <3>1. Enter(waits, t, "n", "keep")
        BY <1>2, <2>2 DEF InputKey
      <3> QED
        BY <2>1, <3>1, AllRemain, EnterActs
    <2>3. CASE k = "ctrlZ"
      <3>1. /\ mode' = [mode EXCEPT ![t] = "p"]
            /\ UNCHANGED <<hinting, ignore, popover, js, waits>>
        BY <1>2, <2>3 DEF InputKey
      <3>2. ModesStep(t) /\ mode'[t] # "c"
        BY <3>1 DEF ModeTypes, ModesStep
      <3> QED
        BY <2>1, <3>1, <3>2, QuietActs DEF Present
    <2>4. CASE k # "esc" /\ k # "ctrlZ"
      <3>1. UNCHANGED <<mode, hinting, ignore, popover, js, waits>>
        BY <1>2, <2>4 DEF InputKey, modeVars
      <3> QED
        BY <2>1, <3>1, QuietActs DEF ModesStep, Present
    <2> QED
      BY <2>2, <2>3, <2>4
  <1> QED
    BY <1>1, <1>2

\* A step of tab t, or one of the shown tab if it is in command mode.
ActsOrChanges(t) ==
    /\ \/ Acts(t)
       \/ Acts(shown) /\ (mode[shown] = "c" \/ mode' = mode)
    /\ FrameTabs(waits') \subseteq open
    /\ AnswersStay

\* A key for the command line.
LEMMA EditKeyActs ==
    ASSUME ModeTypes, HintTypes, open \subseteq Tab, shown \in open,
           NEW rest, Remain(rest), NEW t \in open, NEW k, EditKey(rest, t, k)
    PROVE  ActsOrChanges(t)
  <1>1. CASE \E new : Changed(rest, new)
    BY <1>1, ChangedActs DEF ActsOrChanges
  <1>2. CASE \E then \in {"keep", "clear"} :
                 Enter(rest, t, "n", then) /\ UNCHANGED hintVars
    BY <1>2, EnterActs DEF ActsOrChanges, AnswersStay, hintVars
  <1>3. CASE /\ waits' = rest
             /\ UNCHANGED <<mode, hinting, ignore, popover, js, hintVars>>
    <2>1. hint' = hint /\ answers' = answers
      BY <1>3 DEF hintVars
    <2>2. Acts(t)
      BY <1>3, <2>1, QuietActs DEF ModesStep, Remain
    <2> QED
      BY <1>3, <2>1, <2>2 DEF ActsOrChanges, AnswersStay, Remain
  <1>4. CASE register
    BY <1>1, <1>4 DEF EditKey
  <1>5. CASE ~register /\ k = "esc"
    <2>1. Enter(rest, t, "n", "clear") /\ UNCHANGED hintVars
      BY <1>5 DEF EditKey, Printable
    <2> QED
      BY <1>2, <2>1
  <1>6. CASE ~register /\ k = "enter"
    <2>1. /\ UNCHANGED hintVars
          /\ IF text \in {":", "/"}
             THEN \E then \in {"keep", "clear"} : Enter(rest, t, "n", then)
             ELSE /\ waits' = rest
                  /\ UNCHANGED <<mode, hinting, ignore, focus, popover, text, js>>
      BY <1>6 DEF EditKey, Printable
    <2> QED
      BY <1>2, <1>3, <2>1
  <1>7. CASE ~register /\ k = "bs"
    <2>1. PICK new \in Shorter : IF new = ""
                                 THEN /\ Enter(rest, t, "n", "clear")
                                      /\ UNCHANGED hintVars
                                 ELSE Changed(rest, new)
      BY <1>7 DEF EditKey, Printable
    <2> QED
      BY <1>1, <1>2, <2>1
  <1>8. CASE ~register /\ k \in Printable
    <2>1. \E new \in Longer(k) : Changed(rest, new)
      BY <1>8 DEF EditKey, Printable
    <2> QED
      BY <1>1, <2>1
  <1>9. CASE ~register /\ k \notin {"esc", "enter", "bs"} \cup Printable
    <2>1. /\ waits' = rest
          /\ UNCHANGED <<mode, hinting, ignore, focus, popover, text, js, hintVars>>
      BY <1>9 DEF EditKey, Printable
    <2> QED
      BY <1>3, <2>1
  <1> QED
    BY <1>4, <1>5, <1>6, <1>7, <1>8, <1>9

\* A key for the hints: it waits in a frame that does not leave them.
LEMMA HintKeyActs ==
    ASSUME ModeTypes, HintTypes, Present, hint.prompt \in HintPrompt,
           NEW t \in open, t \in Tab, NEW k \in Key, HintKey(t, k)
    PROVE  Acts(t) /\ FrameTabs(waits') \subseteq open /\ AnswersStay
  <1>1. UNCHANGED <<mode, hinting, ignore, popover, js, hint>>
    BY DEF HintKey
  <1>2. /\ LeaveTabs(waits') = LeaveTabs(waits)
        /\ FrameTabs(waits') \subseteq open
        /\ AnswersStay
    <2>1. CASE k = "enter"
      BY <2>1 DEF HintKey, Present, HintTypes, Ask, AnswersStay
    <2>2. CASE k # "enter"
      <3> DEFINE f == [tab |-> t, key |-> k, prompt |-> hint.prompt]
      <3>1. waits' = Append(waits, f) /\ answers' = answers
        BY <2>2 DEF HintKey
      <3>2. f \in Frame /\ f.tab = t /\ ~IsLeave(f)
        BY DEF Frame, KeyFrame, Text, IsLeave
      <3> HIDE DEF f
      <3> QED
        BY <3>1, <3>2, AppendTabs DEF ModeTypes, Present, AnswersStay
    <2> QED
      BY <2>1, <2>2
  <1> QED
    BY <1>1, <1>2, QuietActs DEF ModesStep

\* KeyPress is a step of the shown tab.
LEMMA KeyPressActs ==
    ASSUME IInv, Present, NEW k \in Keys, KeyPress(k)
    PROVE  ActsOrChanges(shown)
  <1>1. /\ ModeTypes /\ HintTypes /\ open \subseteq Tab /\ shown \in open
        /\ hinting => hint.prompt \in HintPrompt
    BY TypeParts DEF IInv, CoreTypes, TabTypes, HintsHavePrompt
  <1>2. k \in Key /\ shown \in Tab
    BY <1>1, ModesAssumption
  <1>3. ASSUME AnswersStay, Acts(shown), FrameTabs(waits') \subseteq open
        PROVE  ActsOrChanges(shown)
    BY <1>3 DEF ActsOrChanges
  <1>4. CASE mode[shown] = "c"
    <2>1. CommandKey(shown, k)
      BY <1>4 DEF KeyPress
    <2>2. CASE k = "ctrlC"
      <3>1. Enter(waits, shown, "n", "keep") /\ hint' = hint /\ AnswersStay
        BY <2>1, <2>2 DEF CommandKey, hintVars, AnswersStay
      <3> QED
        BY <1>1, <1>3, <3>1, AllRemain, EnterActs
    <2>3. CASE k # "ctrlC" /\ hinting
      <3>1. HintKey(shown, k)
        BY <2>1, <2>3 DEF CommandKey
      <3> QED
        BY <1>1, <1>2, <1>3, <2>3, <3>1, HintKeyActs
    <2>4. CASE k # "ctrlC" /\ ~hinting
      <3>1. EditKey(waits, shown, k)
        BY <2>1, <2>4 DEF CommandKey
      <3> QED
        BY <1>1, <3>1, AllRemain, EditKeyActs
    <2> QED
      BY <2>2, <2>3, <2>4
  <1>5. CASE mode[shown] = "n"
    <2>1. NormalKey(shown, k)
      BY <1>5 DEF KeyPress
    <2> QED
      BY <1>1, <1>3, <1>5, <2>1, NormalKeyActs DEF Present
  <1>6. CASE mode[shown] = "i"
    <2>1. InputKey(shown, k)
      BY <1>6 DEF KeyPress
    <2> QED
      BY <1>1, <1>3, <1>6, <2>1, InputKeyActs
  <1>7. CASE mode[shown] = "p"
    <2>1. PassKey(shown, k)
      BY <1>7 DEF KeyPress
    <2>2. hint' = hint /\ AnswersStay
      BY <2>1 DEF PassKey, hintVars, AnswersStay
    <2>3. CASE k = "esc"
      BY <1>1, <1>3, <2>1, <2>2, <2>3, AllRemain, EnterActs DEF PassKey
    <2>4. CASE k # "esc"
      <3>1. UNCHANGED <<mode, hinting, ignore, popover, js, waits>>
        BY <2>1, <2>4 DEF PassKey, modeVars
      <3> QED
        BY <1>3, <2>2, <3>1, QuietActs DEF ModesStep, Present
    <2> QED
      BY <2>3, <2>4
  <1> QED
    BY <1>1, <1>4, <1>5, <1>6, <1>7, <1>2 DEF ModeTypes, Mode

-----------------------------------------------------------------------------
(* Clashes, and what is kept without them.                                 *)

\* What Remember notes, and when it forgets.
LEMMA RememberFacts ==
    ASSUME Remember
    PROVE  /\ HintsClash' => "hints" \in clashes'
           /\ InputsClash' \/ LateAnswer => "inputs" \in clashes'
           /\ "hints" \notin clashes' => "hints" \notin clashes \/ HintsInOrder'
           /\ "inputs" \notin clashes' => "inputs" \notin clashes \/ auth' = {}
           /\ scripts' = scripts
  BY DEF Remember

\* Without a clash one open tab is in command mode at most, and hints are not
\* shown while others are left.
LEMMA NoClash ==
    ASSUME ~HintsClash
    PROVE  /\ \A s, t \in open : mode[s] = "c" /\ mode[t] = "c" => s = t
           /\ hinting => LeaveTabs(waits) = {}
  BY LeaveTabsOf DEF HintsClash, TwoIn

\* The same for the next state.
LEMMA NoClashNext ==
    ASSUME ~HintsClash'
    PROVE  /\ \A s, t \in open' : mode'[s] = "c" /\ mode'[t] = "c" => s = t
           /\ hinting' => LeaveTabs(waits') = {}
  BY LeaveTabsOf DEF HintsClash, TwoIn, LeaveTabs

\* When all is in order nothing is to be restored.
LEMMA InOrderNext ==
    ASSUME HintsInOrder' PROVE \A u \in open' : Restorable(u)'
  <1>1. LeaveTabs(waits') = {}
    BY LeaveTabsOf DEF HintsInOrder, LeaveTabs
  <1> QED
    BY <1>1 DEF HintsInOrder, Restorable, Due

\* A step of an open tab keeps what is saved for it, and no other loses it.
LEMMA HintsStepKeeps ==
    ASSUME ~HintsClash, ~HintsClash', \A u \in open : Restorable(u),
           open \subseteq Tab, NEW t \in open, ModesStep(t), HintsStep(t),
           open' = open, scripts' = scripts
    PROVE  \A u \in open : Restorable(u)'
  <1>1. /\ \A u \in open : mode[u] = "c" /\ mode[t] = "c" => u = t
        /\ hinting => LeaveTabs(waits) = {}
    BY NoClash
  <1>2. /\ \A u \in open : mode'[u] = "c" /\ mode'[t] = "c" => u = t
        /\ hinting' => LeaveTabs(waits') = {}
    BY NoClashNext
  <1> SUFFICES ASSUME NEW u \in open PROVE Restorable(u)'
    OBVIOUS
  <1>3. Restorable(u) /\ (u # t => mode'[u] = mode[u])
    BY DEF ModesStep
  <1>4. CASE HintsSame(t)
    <2>1. Due(u)' <=> Due(u)
      BY <1>3, <1>4 DEF HintsSame, Due
    <2> QED
      BY <1>3, <1>4, <2>1 DEF HintsSame, Restorable
  <1>5. CASE HintsEnd(t)
    <2>1. Due(u)' <=> Due(u)
      BY <1>1, <1>3, <1>5 DEF HintsEnd, Due
    <2> QED
      BY <1>3, <1>5, <2>1 DEF HintsEnd, Restorable
  <1>6. CASE HintsForgotten(t)
    <2>1. Due(u)' <=> Due(u)
      BY <1>2, <1>3, <1>6 DEF HintsForgotten, Due
    <2> QED
      BY <1>3, <1>6, <2>1 DEF HintsForgotten, Restorable
  <1>7. CASE HintsBegin(t)
    <2>1. ~Due(u) /\ (Due(u)' <=> u = t)
      BY <1>2, <1>3, <1>7 DEF HintsBegin, Due
    <2> QED
      BY <1>3, <1>7, <2>1 DEF HintsBegin, Restorable
  <1> QED
    BY <1>4, <1>5, <1>6, <1>7 DEF HintsStep

\* Everything but the authentications, after a step of an open tab.
LEMMA HintsFollow ==
    ASSUME FollowInv, Remember, NEW t \in open, ModesStep(t), PopStep(t),
           HintsStep(t), FrameTabs(waits') \subseteq open, AnswersStay,
           open' = open, auth' \subseteq open
    PROVE  Present' /\ ClashesNoted' /\ HintsKept' /\ PopoverInPrompt'
  <1>1. open \subseteq Tab
    BY TypeParts DEF FollowInv, IInv, CoreTypes, TabTypes
  <1>2. Present'
    BY DEF FollowInv, Present, AnswersStay
  <1>3. ClashesNoted'
    BY RememberFacts DEF ClashesNoted
  <1>4. HintsKept'
    <2> SUFFICES ASSUME "hints" \notin clashes' PROVE \A u \in open : Restorable(u)'
      BY DEF HintsKept
    <2>1. CASE HintsInOrder'
      BY <2>1, InOrderNext
    <2>2. CASE ~HintsInOrder'
      <3>1. "hints" \notin clashes /\ ~HintsClash' /\ scripts' = scripts
        BY <2>2, RememberFacts
      <3>2. ~HintsClash /\ \A u \in open : Restorable(u)
        BY <3>1 DEF FollowInv, ClashesNoted, HintsKept
      <3> QED
        BY <1>1, <3>1, <3>2, HintsStepKeeps
    <2> QED
      BY <2>1, <2>2
  <1>5. PopoverInPrompt'
    BY <1>1 DEF FollowInv, PopoverInPrompt, PopStep, ModesStep
  <1> QED
    BY <1>2, <1>3, <1>4, <1>5

\* An authentication is not left by a step of a tab that does not leave its own.
LEMMA AuthFollows ==
    ASSUME FollowInv, Remember, NEW t \in open, ModesStep(t), IgnoreStep(t),
           open' = open, auth' \subseteq auth,
           "inputs" \notin clashes /\ "inputs" \notin clashes' /\ t \in auth'
               => mode'[t] = "i"
    PROVE  AuthKeepsInput'
  <1> SUFFICES ASSUME NEW u \in auth', "inputs" \notin clashes'
               PROVE  mode'[u] = "i" /\ ignore'
    BY DEF AuthKeepsInput
  <1>1. "inputs" \notin clashes /\ ~InputsClash'
    BY RememberFacts
  <1>2. open \subseteq Tab /\ u \in open
    BY TypeParts DEF FollowInv, IInv, CoreTypes, TabTypes, Present
  <1>3. mode[u] = "i" /\ ignore
    BY <1>1 DEF FollowInv, AuthKeepsInput
  <1>4. mode'[u] = "i"
    BY <1>1, <1>2, <1>3 DEF ModesStep
  <1>5. ignore'
    <2> SUFFICES ASSUME mode[t] # "i", mode'[t] = "i" PROVE FALSE
      BY <1>3 DEF IgnoreStep
    <2>1. TwoIn("i")'
      BY <1>2, <1>3, <1>4 DEF TwoIn
    <2> QED
      BY <1>1, <2>1 DEF InputsClash
  <1> QED
    BY <1>4, <1>5

\* Both together.
LEMMA ActsFollow ==
    ASSUME FollowInv, Remember, NEW t \in open, ActsOrChanges(t),
           open' = open, auth' \subseteq auth,
           "inputs" \notin clashes /\ "inputs" \notin clashes' /\ t \in auth'
               => mode'[t] = "i"
    PROVE  Present' /\ ClashesNoted' /\ HintsKept' /\ AuthKeepsInput' /\ PopoverInPrompt'
  <1>1. shown \in open /\ auth' \subseteq open
    BY TypeParts DEF FollowInv, IInv, CoreTypes, TabTypes, Present
  <1>2. CASE Acts(t)
    BY <1>1, <1>2, HintsFollow, AuthFollows DEF ActsOrChanges, Acts
  <1>3. CASE Acts(shown) /\ (mode[shown] = "c" \/ mode' = mode)
    <2>1. "inputs" \notin clashes /\ shown \in auth' => mode'[shown] = "i"
      BY <1>3 DEF FollowInv, AuthKeepsInput
    <2> QED
      BY <1>1, <1>3, <2>1, HintsFollow, AuthFollows DEF ActsOrChanges, Acts
  <1> QED
    BY <1>2, <1>3 DEF ActsOrChanges

-----------------------------------------------------------------------------
(* The actions.                                                            *)

Follows == Present' /\ ClashesNoted' /\ HintsKept' /\ AuthKeepsInput' /\ PopoverInPrompt'

\* A handler that enters a mode, of a tab that does not wait for a user.
LEMMA EnterFollows ==
    ASSUME FollowInv, Remember, NEW t \in open, NEW to \in {"n", "i"},
           Enter(waits, t, to, "keep"), UNCHANGED <<hintVars, tabVars, auth>>,
           "inputs" \notin clashes => t \notin auth
    PROVE  Follows
  <1>1. ModeTypes /\ open \subseteq Tab /\ Present
    BY TypeParts DEF FollowInv, IInv, CoreTypes, TabTypes
  <1>2. hint' = hint /\ answers' = answers /\ open' = open
    BY DEF hintVars, tabVars
  <1>3. Acts(t) /\ FrameTabs(waits') \subseteq open
    BY <1>1, <1>2, AllRemain, EnterActs
  <1>4. ActsOrChanges(t)
    BY <1>2, <1>3 DEF ActsOrChanges, AnswersStay
  <1> QED
    BY <1>2, <1>4, ActsFollow DEF Follows

\* Handlers that leave the modes, the hints and the waiting handlers alone.
LEMMA NothingFollows ==
    ASSUME FollowInv, Remember,
           UNCHANGED <<mode, hinting, ignore, popover, waits, js, hint, answers,
                       open, auth>>
    PROVE  Follows
  <1>1. shown \in open
    BY TypeParts DEF FollowInv, IInv, CoreTypes, TabTypes
  <1>2. Acts(shown)
    BY QuietActs DEF ModesStep
  <1>3. ActsOrChanges(shown)
    BY <1>2 DEF ActsOrChanges, AnswersStay, FollowInv, Present
  <1>4. "inputs" \notin clashes /\ shown \in auth' => mode'[shown] = "i"
    BY DEF FollowInv, AuthKeepsInput
  <1> QED
    BY <1>1, <1>3, <1>4, ActsFollow DEF Follows

\* A key goes to the shown tab; leaving the input mode is giving up.
LEMMA KeyPressFollows ==
    ASSUME FollowInv, Remember, NEW k \in Keys, KeyPress(k) PROVE Follows
  <1>1. /\ auth' = auth \ {t \in {shown} : mode'[t] # "i"}
        /\ open' = open
    BY DEF KeyPress, GiveUp, tabVars
  <1>2. shown \in open /\ IInv /\ Present
    BY TypeParts DEF FollowInv, IInv, CoreTypes, TabTypes
  <1>3. ActsOrChanges(shown)
    BY <1>2, KeyPressActs
  <1>4. auth' \subseteq auth /\ (shown \in auth' => mode'[shown] = "i")
    BY <1>1
  <1> QED
    BY <1>1, <1>2, <1>3, <1>4, ActsFollow DEF Follows

\* What an answer of the page makes a tab do.
LEMMA ResultActs ==
    ASSUME ModeTypes, open \subseteq Tab, NEW rest, Remain(rest), NEW t \in open,
           NEW p, NEW r, Result(rest, t, p, r), hint' = hint, AnswersStay
    PROVE  ActsOrChanges(t)
  <1>1. CASE \E to \in {"n", "i"}, then \in {"keep", "clear", "open"} :
                 (then = "open" => to = "n") /\ Enter(rest, t, to, then)
    BY <1>1, EnterActs DEF ActsOrChanges
  <1>2. CASE /\ waits' = rest
             /\ UNCHANGED <<mode, hinting, ignore, popover, js>>
    <2>1. Acts(t)
      BY <1>2, QuietActs DEF ModesStep, Remain
    <2> QED
      BY <1>2, <2>1 DEF ActsOrChanges, Remain
  <1> QED
    BY <1>1, <1>2 DEF Result

\* An asynchronous answer: if it is not late, its tab is in command mode.
LEMMA HintAnsweredFollows ==
    ASSUME FollowInv, Remember, NEW t \in Tab, HintAnswered(t) PROVE Follows
  <1>1. ModeTypes /\ HintTypes /\ open \subseteq Tab /\ Present
    BY TypeParts DEF FollowInv, IInv, CoreTypes, TabTypes
  <1>2. /\ answers[t] # <<>>
        /\ answers' = [answers EXCEPT ![t] = Tail(answers[t])]
        /\ UNCHANGED <<hint, open, auth>>
    BY DEF HintAnswered
  <1>3. t \in open
    BY <1>1, <1>2 DEF Present
  <1>4. AnswersStay
    BY <1>1, <1>2, <1>3 DEF AnswersStay, HintTypes
  <1>5. \E p, r : Result(waits, t, p, r)
    BY DEF HintAnswered
  <1>6. ActsOrChanges(t)
    BY <1>1, <1>2, <1>3, <1>4, <1>5, AllRemain, ResultActs
  <1>7. ASSUME "inputs" \notin clashes, "inputs" \notin clashes' PROVE t \notin auth'
    <2>1. ~LateAnswer
      BY <1>7, RememberFacts
    <2>2. Len(answers'[t]) < Len(answers[t])
      <3> DEFINE s == answers[t]
      <3>1. s \in Seq(HintPrompt) /\ s # <<>>
        BY <1>1, <1>2 DEF HintTypes
      <3>2. answers'[t] = Tail(s)
        BY <1>1, <1>2 DEF HintTypes
      <3> HIDE DEF s
      <3>3. Len(Tail(s)) = Len(s) - 1 /\ Len(s) \in Nat
        BY <3>1, HeadTailProperties
      <3>4. Len(answers'[t]) < Len(s)
        BY <3>2, <3>3
      <3> QED
        BY <3>4 DEF s
    <2>3. mode[t] = "c"
      BY <1>2, <1>3, <2>1, <2>2 DEF LateAnswer
    <2> QED
      BY <1>2, <1>7, <2>3 DEF FollowInv, AuthKeepsInput
  <1> QED
    BY <1>2, <1>3, <1>6, <1>7, ActsFollow DEF Follows

\* hints_clear goes on: the setting of its tab gets back what was saved.
LEMMA LeaveFollows ==
    ASSUME FollowInv, Remember, waits # <<>>, NEW f, f = Last(waits), IsLeave(f),
           WaitEnds
    PROVE  Follows
  <1> DEFINE rest == Front(waits)
             t == f.tab
  <1>1. /\ js' = IF hint.js THEN js ELSE js \ {t}
        /\ Arrive(t, f.to, f.then, TRUE)
        /\ waits' = rest
        /\ UNCHANGED <<hintVars, open, shown, auth>>
    BY DEF WaitEnds
  <1>2. ModeTypes /\ HintTypes /\ open \subseteq Tab /\ Present
    BY TypeParts DEF FollowInv, IInv, CoreTypes, TabTypes
  <1>3. /\ rest \in Seq(Frame) /\ f \in Frame
        /\ FrameTabs(waits) = FrameTabs(rest) \cup {t}
        /\ LeaveTabs(waits) = LeaveTabs(rest) \cup {t}
    BY <1>2, FrontTabs DEF ModeTypes
  <1>4. /\ f.to \in {"n", "i"} /\ f.then \in {"keep", "clear", "open"}
        /\ f.then = "open" => f.to = "n"
    BY <1>3 DEF Frame, LeaveFrame, KeyFrame, IsLeave
  <1>5. t \in open /\ FrameTabs(rest) \subseteq open
    BY <1>2, <1>3 DEF Present
  <1> HIDE DEF rest, t
  <1>6. /\ ModesStep(t) /\ ~popover'
        /\ hinting' = (hinting /\ f.then # "open")
        /\ mode'[t] = IF f.then = "open" THEN "c" ELSE f.to
        /\ ignore' = (ignore /\ f.to # "i")
    BY <1>1, <1>2, <1>5 DEF Arrive, ModeTypes, ModesStep
  <1>7. Present' /\ ClashesNoted'
    <2>1. Present'
      BY <1>1, <1>2, <1>5 DEF Present, hintVars
    <2> QED
      BY <2>1, RememberFacts DEF ClashesNoted
  <1>8. HintsKept'
    <2> SUFFICES ASSUME "hints" \notin clashes', ~HintsInOrder', NEW u \in open
                 PROVE  Restorable(u)'
      BY <1>1, InOrderNext DEF HintsKept
    <2>1. "hints" \notin clashes /\ scripts' = scripts
      BY RememberFacts
    <2>2. ~HintsClash /\ Restorable(u) /\ Restorable(t)
      BY <1>5, <2>1 DEF FollowInv, ClashesNoted, HintsKept
    <2>3. ~hinting
      BY <1>3, <2>2, NoClash
    <2>4. Due(t) /\ ~hinting' /\ hint' = hint
      BY <1>1, <1>3, <1>6, <2>3 DEF Due, hintVars
    <2>5. hint.js = (t \in scripts) /\ (t \in scripts => t \in js)
      BY <2>2, <2>4 DEF Restorable
    <2>6. CASE u = t
      <3>1. t \in js' <=> t \in scripts
        <4>1. CASE t \in scripts
          BY <1>1, <2>5, <4>1
        <4>2. CASE t \notin scripts
          BY <1>1, <2>5, <4>2
        <4> QED
          BY <4>1, <4>2
      <3> QED
        BY <2>1, <2>4, <2>5, <2>6, <3>1 DEF Restorable
    <2>7. CASE u # t
      <3>1. (u \in js' <=> u \in js) /\ (Due(u)' <=> Due(u))
        BY <1>1, <1>3, <2>3, <2>4, <2>7 DEF Due
      <3> QED
        BY <2>1, <2>2, <2>4, <3>1 DEF Restorable
    <2> QED
      BY <2>6, <2>7
  <1>9. AuthKeepsInput'
    <2> SUFFICES ASSUME "inputs" \notin clashes', "inputs" \notin clashes
                 PROVE  AuthKeepsInput'
      BY RememberFacts DEF AuthKeepsInput
    <2>1. mode[t] = "c" /\ t \notin auth
      BY <1>3 DEF FollowInv, ClashesNoted, InputsClash, AuthKeepsInput, FrameTabs
    <2>2. IgnoreStep(t)
      BY <1>2, <1>4, <1>6, <2>1 DEF IgnoreStep, ModeTypes
    <2> QED
      BY <1>1, <1>5, <1>6, <2>1, <2>2, AuthFollows
  <1>10. PopoverInPrompt'
    BY <1>6 DEF PopoverInPrompt
  <1> QED
    BY <1>7, <1>8, <1>9, <1>10 DEF Follows

\* WaitEnds: hints are left, or a key goes on.
LEMMA WaitEndsFollows ==
    ASSUME FollowInv, Remember, WaitEnds PROVE Follows
  <1> DEFINE f == Last(waits)
             rest == Front(waits)
  <1>1. CASE IsLeave(f)
    BY <1>1, LeaveFollows DEF WaitEnds
  <1>2. CASE ~IsLeave(f)
    <2>1. PICK r : IF r = "error"
                   THEN EditKey(rest, f.tab, f.key)
                   ELSE Result(rest, f.tab, f.prompt, r) /\ UNCHANGED hintVars
      BY <1>2 DEF WaitEnds
    <2>2. waits # <<>> /\ UNCHANGED <<open, shown, auth>>
      BY DEF WaitEnds
    <2>3. ModeTypes /\ HintTypes /\ open \subseteq Tab /\ shown \in open /\ Present
      BY TypeParts DEF FollowInv, IInv, CoreTypes, TabTypes
    <2>4. /\ rest \in Seq(Frame) /\ f \in Frame
          /\ FrameTabs(waits) = FrameTabs(rest) \cup {f.tab}
          /\ LeaveTabs(rest) = LeaveTabs(waits)
      BY <1>2, <2>2, <2>3, FrontTabs DEF ModeTypes
    <2> HIDE DEF f, rest
    <2>5. Remain(rest) /\ f.tab \in open
      BY <2>3, <2>4 DEF Remain, Present
    <2>6. ActsOrChanges(f.tab)
      <3>1. CASE r # "error"
        <4>1. hint' = hint /\ AnswersStay
          BY <2>1, <3>1 DEF hintVars, AnswersStay
        <4> QED
          BY <2>1, <2>3, <2>5, <3>1, <4>1, ResultActs
      <3>2. CASE r = "error"
        BY <2>1, <2>3, <2>5, <3>2, EditKeyActs
      <3> QED
        BY <3>1, <3>2
    <2>7. "inputs" \notin clashes => f.tab \notin auth
      <3> SUFFICES ASSUME "inputs" \notin clashes PROVE f.tab \notin auth
        OBVIOUS
      <3>1. \A i \in DOMAIN waits : mode[waits[i].tab] = "c"
        BY DEF FollowInv, ClashesNoted, InputsClash
      <3>2. f.tab \in FrameTabs(waits)
        BY <2>4
      <3>3. PICK i \in DOMAIN waits : waits[i].tab = f.tab
        BY <3>2 DEF FrameTabs
      <3>4. mode[f.tab] = "c"
        BY <3>1, <3>3
      <3> QED
        BY <3>4 DEF FollowInv, AuthKeepsInput
    <2> QED
      BY <2>2, <2>5, <2>6, <2>7, ActsFollow DEF Follows
  <1> QED
    BY <1>1, <1>2

\* The messages of pages: a tab that waits for a user does not listen to those
\* about the focus.
LEMMA FocusMessageFollows ==
    ASSUME FollowInv, Remember, NEW t \in Tab, NEW editable \in BOOLEAN,
           FocusMessage(t, editable)
    PROVE  Follows
  <1>1. /\ t \in open /\ ~(ignore /\ mode[t] = "i")
        /\ UNCHANGED <<hintVars, tabVars, auth>>
    BY DEF FocusMessage
  <1>2. "inputs" \notin clashes => t \notin auth
    BY <1>1 DEF FollowInv, AuthKeepsInput
  <1>3. \E to \in {"n", "i"} : Enter(waits, t, to, "keep")
    BY DEF FocusMessage
  <1> QED
    BY <1>1, <1>2, <1>3, EnterFollows

\* on_webview_authenticate.
LEMMA AuthenticateFollows ==
    ASSUME FollowInv, Remember, NEW t \in Tab, Authenticate(t) PROVE Follows
  <1>1. /\ t \in open /\ mode[t] = "n"
        /\ mode' = [mode EXCEPT ![t] = "i"] /\ ignore' = TRUE
        /\ auth' = auth \cup {t}
        /\ UNCHANGED <<hinting, popover, waits, js, hint, answers, open>>
    BY DEF Authenticate, hintVars, tabVars
  <1>2. ModeTypes /\ open \subseteq Tab /\ Present
    BY TypeParts DEF FollowInv, IInv, CoreTypes, TabTypes
  <1>3. ModesStep(t) /\ mode'[t] = "i"
    BY <1>1, <1>2 DEF ModeTypes, ModesStep
  <1>4. PopStep(t) /\ HintsSame(t)
    BY <1>1, <1>3 DEF PopStep, HintsSame
  <1>5. /\ FrameTabs(waits') \subseteq open /\ AnswersStay
        /\ open' = open /\ auth' \subseteq open
    BY <1>1, <1>2 DEF Present, AnswersStay
  <1>6. Present' /\ ClashesNoted' /\ HintsKept' /\ PopoverInPrompt'
    BY <1>1, <1>3, <1>4, <1>5, HintsFollow DEF HintsStep
  <1>7. AuthKeepsInput'
    <2> SUFFICES ASSUME "inputs" \notin clashes', NEW u \in auth'
                 PROVE  mode'[u] = "i" /\ ignore'
      BY DEF AuthKeepsInput
    <2>1. "inputs" \notin clashes
      BY RememberFacts
    <2>2. u = t \/ mode[u] = "i"
      BY <1>1, <2>1 DEF FollowInv, AuthKeepsInput
    <2> QED
      BY <1>1, <1>2, <1>3, <2>2 DEF ModesStep, Present
  <1> QED
    BY <1>6, <1>7 DEF Follows

\* A load that is committed ends the authentication of its own tab; another that
\* waits would be a second tab in input mode.
LEMMA LoadCommittedFollows ==
    ASSUME FollowInv, Remember, NEW t \in Tab, LoadCommitted(t) PROVE Follows
  <1>1. /\ t \in open /\ mode[t] = "i" /\ auth' = auth \ {t}
        /\ UNCHANGED <<mode, hinting, popover, waits, js, hint, answers, open>>
    BY DEF LoadCommitted, hintVars, tabVars
  <1>2. open \subseteq Tab /\ Present
    BY TypeParts DEF FollowInv, IInv, CoreTypes, TabTypes
  <1>3. ModesStep(t) /\ PopStep(t) /\ HintsSame(t)
    BY <1>1 DEF ModesStep, PopStep, HintsSame
  <1>4. /\ FrameTabs(waits') \subseteq open /\ AnswersStay
        /\ open' = open /\ auth' \subseteq open
    BY <1>1, <1>2 DEF Present, AnswersStay
  <1>5. Present' /\ ClashesNoted' /\ HintsKept' /\ PopoverInPrompt'
    BY <1>1, <1>3, <1>4, HintsFollow DEF HintsStep
  <1>6. AuthKeepsInput'
    <2> SUFFICES ASSUME "inputs" \notin clashes', NEW u \in auth' PROVE FALSE
      BY DEF AuthKeepsInput
    <2>1. "inputs" \notin clashes /\ u \in auth /\ u # t
      BY <1>1, RememberFacts
    <2>2. ~TwoIn("i") /\ mode[u] = "i"
      BY <2>1 DEF FollowInv, ClashesNoted, InputsClash, AuthKeepsInput
    <2> QED
      BY <1>1, <1>2, <2>1, <2>2 DEF TwoIn, Present
  <1> QED
    BY <1>5, <1>6 DEF Follows

\* A closed tab leaves all the others as they were.
LEMMA CloseTabFollows ==
    ASSUME FollowInv, Remember, NEW t \in Tab, CloseTab(t) PROVE Follows
  <1>1. /\ open' = open \ {t} /\ auth' = auth \ {t}
        /\ \A i \in 1 .. Len(waits) : waits[i].tab # t
        /\ answers' = [answers EXCEPT ![t] = <<>>]
        /\ UNCHANGED <<mode, hinting, ignore, popover, waits, js, hint>>
    BY DEF CloseTab
  <1>2. ModeTypes /\ HintTypes /\ open \subseteq Tab /\ Present
    BY TypeParts DEF FollowInv, IInv, CoreTypes, TabTypes
  <1>3. Present'
    <2>1. DOMAIN waits = 1 .. Len(waits)
      BY <1>2 DEF ModeTypes
    <2>2. FrameTabs(waits) \subseteq open \ {t}
      BY <1>1, <1>2, <2>1 DEF Present, FrameTabs
    <2>3. \A u \in Tab \ open' : answers'[u] = <<>>
      BY <1>1, <1>2 DEF Present, HintTypes
    <2> QED
      BY <1>1, <1>2, <2>2, <2>3 DEF Present
  <1>4. ClashesNoted'
    BY RememberFacts DEF ClashesNoted
  <1>5. HintsKept'
    <2> SUFFICES ASSUME "hints" \notin clashes', ~HintsInOrder', NEW u \in open'
                 PROVE  Restorable(u)'
      BY InOrderNext DEF HintsKept
    <2>1. Restorable(u) /\ scripts' = scripts
      BY <1>1, RememberFacts DEF FollowInv, HintsKept
    <2>2. Due(u)' <=> Due(u)
      BY <1>1 DEF Due
    <2> QED
      BY <1>1, <2>1, <2>2 DEF Restorable
  <1>6. AuthKeepsInput'
    BY <1>1, RememberFacts DEF FollowInv, AuthKeepsInput
  <1>7. PopoverInPrompt'
    BY <1>1 DEF FollowInv, PopoverInPrompt
  <1> QED
    BY <1>3, <1>4, <1>5, <1>6, <1>7 DEF Follows

-----------------------------------------------------------------------------
\* All of it holds at first.
LEMMA FollowInit == Init => FollowInv
  <1> SUFFICES ASSUME Init PROVE FollowInv
    OBVIOUS
  <1>1. DOMAIN waits = {} /\ LeaveTabs(waits) = {}
    <2>1. waits = <<>>
      BY DEF Init
    <2>2. DOMAIN waits = {}
      BY <2>1
    <2> QED
      BY <2>2 DEF LeaveTabs
  <1>2. Present
    BY <1>1 DEF Init, Present, FrameTabs
  <1>3. ClashesNoted
    BY <1>1 DEF Init, ClashesNoted, HintsClash, InputsClash, TwoIn
  <1>4. HintsKept
    <2>1. \A t \in open : ~Due(t) /\ (t \in js <=> t \in scripts)
      BY <1>1 DEF Init, Due
    <2> QED
      BY <2>1 DEF HintsKept, Restorable
  <1>5. AuthKeepsInput /\ PopoverInPrompt
    BY DEF Init, AuthKeepsInput, PopoverInPrompt
  <1> QED
    BY <1>2, <1>3, <1>4, <1>5, InitInv DEF FollowInv

\* And after every step.
LEMMA FollowNext == FollowInv /\ [Next]_vars => FollowInv'
  <1> SUFFICES ASSUME FollowInv, [Next]_vars PROVE FollowInv'
    OBVIOUS
  <1>1. IInv'
    BY NextInv DEF FollowInv
  <1>2. ASSUME Follows PROVE FollowInv'
    BY <1>1, <1>2 DEF Follows, FollowInv
  <1>3. ASSUME NEW k \in Keys, KeyPress(k), Remember PROVE FollowInv'
    BY <1>2, <1>3, KeyPressFollows
  <1>4. ASSUME NEW t \in Tab, HintAnswered(t), Remember PROVE FollowInv'
    BY <1>2, <1>4, HintAnsweredFollows
  <1>5. ASSUME WaitEnds, Remember PROVE FollowInv'
    BY <1>2, <1>5, WaitEndsFollows
  <1>6. ASSUME NEW t \in Tab, NEW editable \in BOOLEAN, FocusMessage(t, editable),
               Remember
        PROVE  FollowInv'
    BY <1>2, <1>6, FocusMessageFollows
  <1>7. ASSUME NEW t \in Tab, Authenticate(t), Remember PROVE FollowInv'
    BY <1>2, <1>7, AuthenticateFollows
  <1>8. ASSUME NEW t \in Tab, LoadStarted(t), Remember PROVE FollowInv'
    <2>1. /\ t \in open /\ mode[t] = "c" /\ Enter(waits, t, "n", "keep")
          /\ UNCHANGED <<hintVars, tabVars, auth>>
      BY <1>8 DEF LoadStarted
    <2>2. "inputs" \notin clashes => t \notin auth
      BY <2>1 DEF FollowInv, AuthKeepsInput
    <2> QED
      BY <1>2, <1>8, <2>1, <2>2, EnterFollows
  <1>9. ASSUME NEW t \in Tab, LoadCommitted(t), Remember PROVE FollowInv'
    BY <1>2, <1>9, LoadCommittedFollows
  <1>10. ASSUME NEW t \in Tab, Navigate(t), Remember PROVE FollowInv'
    BY <1>2, <1>10, NothingFollows DEF Navigate, modeVars
  <1>11. ASSUME NEW t \in Tab, CloseTab(t), Remember PROVE FollowInv'
    BY <1>2, <1>11, CloseTabFollows
  <1>12. ASSUME NEW t \in Tab, SwitchPage(t), Remember PROVE FollowInv'
    BY <1>2, <1>12, NothingFollows DEF SwitchPage, hintVars
  <1>13. ASSUME NEW w \in {"web", "input"}, Click(w), Remember PROVE FollowInv'
    BY <1>2, <1>13, NothingFollows DEF Click, hintVars, tabVars
  <1>14. CASE UNCHANGED vars
    <2>1. UNCHANGED <<open, mode, hinting, ignore, popover, hint, js, answers, waits,
                      scripts, auth, clashes>>
      BY <1>14 DEF vars, modeVars, hintVars, tabVars
    <2>2. Present' /\ AuthKeepsInput' /\ PopoverInPrompt'
      BY <2>1 DEF FollowInv, Present, AuthKeepsInput, PopoverInPrompt
    <2>3. ClashesNoted'
      BY <2>1 DEF FollowInv, ClashesNoted, HintsClash, InputsClash, TwoIn
    <2>4. HintsKept'
      BY <2>1 DEF FollowInv, HintsKept, Restorable, Due
    <2> QED
      BY <1>1, <2>2, <2>3, <2>4 DEF FollowInv
  <1> QED
    BY <1>3, <1>4, <1>5, <1>6, <1>7, <1>8, <1>9, <1>10, <1>11, <1>12, <1>13, <1>14
    DEF Next

\* What vb_enter changed for a mode is put back when it is left, and an
\* authentication keeps its mode until the load is committed or the user leaves
\* it: with any number of tabs and of handlers inside the evaluations of
\* others, as long as nothing of clashes has got in the way.
THEOREM SettingsAreRestored == Spec => []SettingsFollowMode
  <1>1. FollowInv => SettingsFollowMode
    <2> SUFFICES ASSUME FollowInv PROVE SettingsFollowMode
      OBVIOUS
    <2>1. ModeTypes
      BY TypeParts DEF FollowInv, IInv, CoreTypes
    <2>2. ScriptsRestored
      <3> SUFFICES ASSUME NEW t \in open, (t \in js) # (t \in scripts),
                          ~(mode[t] = "c" /\ hinting), "hints" \notin clashes
                   PROVE  \E i \in 1 .. Len(waits) : IsLeave(waits[i]) /\ waits[i].tab = t
        BY DEF ScriptsRestored
      <3>1. t \in LeaveTabs(waits)
        BY DEF FollowInv, HintsKept, Restorable, Due
      <3> QED
        BY <2>1, <3>1 DEF LeaveTabs, ModeTypes
    <2> QED
      BY <2>2 DEF FollowInv, SettingsFollowMode
  <1> QED
    BY <1>1, FollowInit, FollowNext, PTL DEF Spec
=============================================================================
