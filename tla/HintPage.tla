------------------------------ MODULE HintPage ------------------------------
(***************************************************************************)
(* The hints of a page, src/scripts/hints.js: the labels that the elements *)
(* get, and what the calls of hints.c do with them.  A call is a step, as  *)
(* the script runs to its end.  hints.c answers the prompt (Modes).        *)
(*                                                                         *)
(* Left out: which elements are visible and where their labels are put,    *)
(* the bound of 500 hints, and what a fired element does.                  *)
(***************************************************************************)
EXTENDS Integers, Sequences, SequencesExt, FiniteSetsExt

CONSTANTS Texts,    \* the texts of the visible elements, in document order
          Configs,  \* the settings that hints are started with
          Filters,  \* the texts that are typed behind the prompt, as words
          MaxKeys   \* bound: the most keys of a label that are typed

VARIABLE page       \* the state of the script

-----------------------------------------------------------------------------
(* Labels.                                                                 *)

\* Keys that begin with "0" are digits, and labels then begin with another.
Num(keys) == IF keys[1] = "0" /\ Len(keys) > 1 THEN 1 ELSE 0

\* Lengths, or powers of the base for digits, that 500 hints may need (config.def.h).
Lengths == 0 .. 9
Shorter(base, length) == FoldLeft(LAMBDA sum, k : sum + base ^ k, 0, [k \in 1 .. length - 1 |-> k])

\* Mutant: one label too many is expected of a length.
MutantOneMore(keys, count) ==
    LET base == Len(keys)
    IN  IF Num(keys) = 1
        THEN base ^ Min({k \in Lengths : base ^ k * (base - 1) >= count - 1}) - 1
        ELSE Shorter(base, Min({k \in Lengths : (IF k > 0 THEN base ^ k ELSE 0) >= count - 1}))

\* How many labels are passed over for all to have the same length.
Offset(keys, count) ==
    LET base == Len(keys)
    IN  IF Num(keys) = 1
        THEN base ^ Min({k \in Lengths : base ^ k * (base - 1) >= count}) - 1
        ELSE Shorter(base, Min({k \in Lengths : (IF k > 0 THEN base ^ k ELSE 0) >= count}))

\* The n-th label: n in the digits `keys`; without a zero, if they are letters.
Label(keys, n) ==
    LET rest(k) == k \div Len(keys) - (1 - Num(keys))
        label[k \in 0 .. n] ==
            (IF rest(k) >= Num(keys) THEN label[rest(k)] ELSE <<>>) \o <<keys[(k % Len(keys)) + 1]>>
    IN  label[n]

Labels(config, count) ==
    LET first == Num(config.keys)
                 + IF config.same /\ Len(config.keys) > 1 THEN Offset(config.keys, count) ELSE 0
    IN  [i \in 1 .. count |-> Label(config.keys, first + i - 1)]

-----------------------------------------------------------------------------
(* The state of the script: whether hints.c has started it (hinting) and   *)
(* hints are shown, the filter, the hints that match it and the active one *)
(* (not live: its hint is gone), and what the last call fired.             *)
NoHint == [element |-> 0, live |-> FALSE]
NoPage == [hinting |-> FALSE, config |-> CHOOSE config \in Configs : TRUE, shown |-> FALSE,
           text |-> <<>>, keys |-> <<>>, valid |-> <<>>, active |-> NoHint, fired |-> <<>>]

\* Every word of the filter is in the text; the empty filter is in all.
Matches(filter, text) ==
    \A i \in DOMAIN filter : \E at \in 1 .. Len(text) : IsPrefix(filter[i], SubSeq(text, at, Len(text)))

Candidates(s) ==
    IF s.shown THEN SelectSeq([i \in DOMAIN Texts |-> i], LAMBDA i : Matches(s.text, Texts[i])) ELSE <<>>
LabelOf(s, i) ==
    LET all == Candidates(s) IN Labels(s.config, Len(all))[CHOOSE k \in DOMAIN all : all[k] = i]
Valid(s) == SelectSeq(Candidates(s), LAMBDA i : IsPrefix(s.keys, LabelOf(s, i)))

FocusHint(s, k) ==
    [s EXCEPT !.active = IF k \in DOMAIN s.valid THEN [element |-> s.valid[k], live |-> TRUE] ELSE NoHint]

\* Mutant: the active hint stays when it is filtered out.
MutantKeepActive(s) ==
    LET new == [s EXCEPT !.valid = Valid(s)]
    IN  IF s.active = NoHint THEN FocusHint(new, 1) ELSE new

\* show, without the call that fires the last hint.
Refresh(s) ==
    LET new == [s EXCEPT !.valid = Valid(s)]
    IN  IF s.active.live /\ s.active.element \in ToSet(new.valid) THEN new ELSE FocusHint(new, 1)

\* The active hint is not forgotten.
Clear(s) ==
    [s EXCEPT !.shown = FALSE, !.text = <<>>, !.keys = <<>>, !.valid = <<>>, !.active.live = FALSE]

Fire(s) ==
    IF s.active = NoHint THEN s
    ELSE LET new == [s EXCEPT !.fired = Append(@, s.active.element)]
         IN  IF s.config.keepOpen THEN Refresh([new EXCEPT !.keys = <<>>]) ELSE Clear(new)

Show(s) ==
    IF s.config.followLast /\ Len(Valid(s)) <= 1
    THEN Fire(FocusHint([s EXCEPT !.valid = Valid(s)], 1))
    ELSE Refresh(s)

-----------------------------------------------------------------------------
(* The calls of hints.c, and of the window.                                *)
HintInit(s, config) == Show([s EXCEPT !.config = config, !.hinting = TRUE, !.shown = TRUE])

\* The text goes into the script as it is typed: behind a quote it is no script.
\* A filter takes the keys back.
Filter(s, words) ==
    IF \E i \in DOMAIN words : Contains(words[i], "'") THEN s
    ELSE Show([s EXCEPT !.keys = <<>>, !.text = words])

\* "null" takes the last key back; no other key than those of labels is one.
Update(s, key) ==
    IF key = "null" THEN IF s.keys = <<>> THEN s ELSE Refresh([s EXCEPT !.keys = Front(@)])
    ELSE IF Contains(s.config.keys, key) THEN Show([s EXCEPT !.keys = Append(@, key)]) ELSE s

\* The next hint or the one before, from the first if none is active.
Focus(s, back) ==
    LET n == Len(s.valid)
        at == SelectInSeq(s.valid, LAMBDA i : s.active.live /\ i = s.active.element)
        from == IF at = 0 THEN 1 ELSE at
    IN  FocusHint(s, IF back THEN IF from = 1 THEN n ELSE from - 1
                     ELSE IF from >= n THEN 1 ELSE from + 1)

\* A page that is resized or scrolled makes its hints anew.
Resize(s) == IF s.shown THEN Refresh([Clear(s) EXCEPT !.shown = TRUE]) ELSE s

-----------------------------------------------------------------------------
Init == page = NoPage
Quiet(s) == [s EXCEPT !.fired = <<>>]

\* hints_create starts hints that are not, and filters those that are.
Start == ~page.hinting /\ \E config \in Configs : page' = HintInit(Quiet(page), config)
TypeText == page.hinting /\ \E words \in Filters : page' = Filter(Quiet(page), words)
TypeKey ==
    /\ page.hinting /\ Len(page.keys) < MaxKeys
    /\ \E key \in ToSet(page.config.keys) : page' = Update(Quiet(page), key)
Backspace == page.hinting /\ page' = Update(Quiet(page), "null")
FocusNext == page.hinting /\ \E back \in BOOLEAN : page' = Focus(Quiet(page), back)

\* <CR> and the timeout; both may come before the answer to the other.
FireActive == page.hinting /\ page' = Fire(Quiet(page))

\* hints_clear.
End == page.hinting /\ page' = [Clear(Quiet(page)) EXCEPT !.hinting = FALSE]
Moves == page' = Resize(Quiet(page))

Next == \/ Start \/ TypeText \/ TypeKey \/ Backspace \/ FocusNext \/ FireActive \/ End \/ Moves
Spec == Init /\ [][Next]_page

-----------------------------------------------------------------------------
(* What the manual promises of labels and typing.                          *)

\* The labels of `count` hints are all different, and if all have the same
\* length none is the beginning of another; a key of a label is a hint key.
LabelsAreUnique(keys, count) ==
    \A same \in BOOLEAN :
        LET labels == Labels([keys |-> keys, same |-> same], count)
        IN  /\ IsInjective(labels)
            /\ \A i \in 1 .. count : ToSet(labels[i]) \subseteq ToSet(keys)
            /\ same /\ Len(keys) > 1 => \A i, j \in 1 .. count : Len(labels[i]) = Len(labels[j])

\* While hints are shown one that matches what was typed is active, if there
\* is any: <CR> never fires one that the user no longer sees.
ActiveIsValid ==
    page.shown => IF page.valid = <<>> THEN page.active = NoHint
                  ELSE page.active.live /\ Contains(page.valid, page.active.element)

\* What typing the keys fires in all, and <CR> behind them if it is needed.
Typed(s, keys, confirm) ==
    LET step(at, key) ==
            LET new == Update(Quiet(at.page), key) IN [page |-> new, fired |-> at.fired \o new.fired]
        last == FoldLeft(step, [page |-> s, fired |-> <<>>], keys)
    IN  IF confirm THEN last.fired \o Fire(Quiet(last.page)).fired ELSE last.fired

\* Whoever types the label of a hint, where labels have the same length, fires
\* that hint and no other, once: with hint-follow-last as soon as it is the last
\* one, with <CR> otherwise.
LabelFiresItsHint ==
    LET config == page.config IN
    page.shown /\ page.keys = <<>> /\ config.same /\ Len(config.keys) > 1
    /\ ~(config.followLast /\ config.keepOpen) =>
        \A i \in ToSet(Candidates(page)) :
            Typed(page, LabelOf(page, i), ~config.followLast) = <<i>>

\* Hints that are closed fire nothing; a second <CR> in front of the answer to the
\* first fires the same element again.
FiresOnce == [][page.hinting /\ ~page.shown => page'.fired = <<>>]_page

\* When a key is typed, the hint with just these keys as its label is active, the
\* one that <CR> or the timeout fires; another that was active and still matches
\* stays, as "10" does if its 0 and 1 are taken back and 1 is typed again.
ExactLabelIsActive ==
    [][TypeKey => \A i \in ToSet(page'.valid) :
                    LabelOf(page', i) = page'.keys => page'.active.element = i]_page

\* What is shown matches the text in the input box, also after the page was moved
\* (the prompt keeps the text, hints.js starts without one).
TextStaysFilter == [][Moves => page'.text = page.text]_page
=============================================================================
