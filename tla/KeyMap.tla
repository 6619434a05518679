------------------------------- MODULE KeyMap -------------------------------
(***************************************************************************)
(* The key queue of one client: src/map.c.                             *)
(*                                                                         *)
(* Typed keys and the strings of :normal and x-hint-command are appended   *)
(* to one queue per client.  map_handle_keys replaces the longest mapped   *)
(* prefix of the queue, or hands the keys to the handler of the current    *)
(* mode, until the queue is empty or holds the beginning of a longer       *)
(* mapping; a timer then flushes what is left.                             *)
(*                                                                         *)
(* map_handle_keys is re-entered on the same queue while one of its        *)
(* iterations is inside a mode handler: directly (:normal, ;x hints) and   *)
(* through the nested main loops of clipboard reads, completion and        *)
(* synchronous script evaluation, which dispatch key presses and the       *)
(* timer.  So a call is a frame of `stack`, its head the running call, and *)
(* every iteration of its loop is one step.                                *)
(*                                                                         *)
(* What a mode handler does with a key is left open: the properties hold   *)
(* for every handler.                                                      *)
(***************************************************************************)
EXTENDS Integers, Sequences, SequencesExt

CONSTANTS
    Key,         \* the bytes a key press can produce, CSI excluded
    CSI,         \* the byte that introduces a special key (ascii.h)
    Mode,        \* the mode ids
    NormalMode,  \* the mode :normal switches to
    Typed,       \* the byte strings of single key presses
    Strings,     \* the converted arguments of :normal and x-hint-command
    MapSet,      \* the mappings a user may define
    MaxEvents,   \* bound: external events of a behaviour
    MaxStack,    \* bound: nesting of map_handle_keys calls
    MaxQueue     \* bound: length of the queue

Byte == Key \cup {CSI}

ASSUME KeyMapAssumption ==
    /\ CSI \notin Key
    /\ NormalMode \in Mode
    /\ Typed \subseteq Seq(Byte) \ {<<>>}
    /\ Strings \subseteq Seq(Byte)
    \* ex_map refuses an empty lhs and an empty rhs
    /\ MapSet \subseteq [in : Seq(Byte) \ {<<>>}, mapped : Seq(Byte) \ {<<>>},
                         mode : Mode, remap : BOOLEAN]
    /\ MaxEvents \in Nat /\ MaxStack \in Nat /\ MaxQueue \in Nat

VARIABLES
    maps,       \* c->map.list
    queue,      \* c->map.queue with c->map.qlen = Len(queue)
    resolved,   \* c->map.resolved
    timer,      \* c->map.timout_id # 0
    mode,       \* c->mode->id
    nomap,      \* FLAG_NOMAP of the current mode
    processed,  \* c->state.processed_key
    stack,      \* active calls of map_handle_keys, innermost first
    events      \* external events so far

vars == <<maps, queue, resolved, timer, mode, nomap, processed, stack, events>>

(***************************************************************************)
(* Where a queued byte comes from.  An "event" byte belongs to a key press *)
(* whose signal handler has not returned, a "held" one to a press that was *)
(* already reported to GTK as handled.                                     *)
(***************************************************************************)
Tag == {"event", "held", "mapped", "noremap", "string", "bang"}

Frame == [at      : {"queue", "handler", "loop"},
          timeout : BOOLEAN,  \* called with keylen 0
          useMap  : BOOLEAN,  \* parameter use_map
          press   : BOOLEAN,  \* called by on_map_key_pressed
          cur     : Tag,      \* origin of the key the handler got last
          refused : BOOLEAN]  \* the handler left a key of this call to the page

Tagged(keys, tag) == [i \in 1..Len(keys) |-> [key |-> keys[i], tag |-> tag]]
Keys(q) == [i \in 1..Len(q) |-> q[i].key]
Drop(s, n) == SubSeq(s, n + 1, Len(s))

Top == Head(stack)
TopAt(where) == stack # <<>> /\ Top.at = where
InQueue == TopAt("queue")
InHandler == TopAt("handler")
\* The main loop runs: the outermost one, or one nested in a handler.
InLoop == stack = <<>> \/ TopAt("loop")

SetTop(f) == stack' = <<f>> \o Tail(stack)
Pop == stack' = Tail(stack)

-----------------------------------------------------------------------------
(* The mapping table.                                                      *)

Applies(m) == m.mode = mode /\ IsPrefix(m.in, Keys(queue))
Extends(m) == m.mode = mode /\ IsStrictPrefix(Keys(queue), m.in)

\* Mappings are tried in this call and in this state of the mode.
MapsTried == Top.useMap /\ ~nomap

Ambiguous == MapsTried /\ ~Top.timeout /\ \E m \in maps : Extends(m)
Matches == IF MapsTried THEN {m \in maps : Applies(m)} ELSE {}
IsLongest(m) == \A n \in Matches : Len(n.in) <= Len(m.in)

SameLhs(m, n) == m.mode = n.mode /\ m.in = n.in

-----------------------------------------------------------------------------
(* Calls of map_handle_keys.                                               *)

\* Mutant: the timer is removed, but armed only if there was none.
MutantArmOnce(keys, tag, useMap, press) ==
    /\ Len(stack) < MaxStack
    /\ Len(queue) + Len(keys) <= MaxQueue
    /\ timer' = (keys # <<>> /\ ~timer)
    /\ queue' = queue \o Tagged(keys, tag)
    /\ stack' = <<[at |-> "queue", timeout |-> keys = <<>>, useMap |-> useMap,
                   press |-> press, cur |-> tag, refused |-> FALSE]>> \o stack
    /\ UNCHANGED <<maps, resolved>>

\* The part of map_handle_keys before its loop.
Call(keys, tag, useMap, press) ==
    /\ Len(stack) < MaxStack
    /\ Len(queue) + Len(keys) <= MaxQueue
    /\ timer' = (keys # <<>>)
    /\ queue' = queue \o Tagged(keys, tag)
    /\ stack' = <<[at |-> "queue", timeout |-> keys = <<>>, useMap |-> useMap,
                   press |-> press, cur |-> tag, refused |-> FALSE]>> \o stack
    /\ UNCHANGED <<maps, resolved>>

\* on_map_key_pressed, up to the call.
PressKey(keys) ==
    /\ InLoop
    /\ events < MaxEvents
    /\ processed' = TRUE
    /\ Call(keys, "event", TRUE, TRUE)
    /\ events' = events + 1
    /\ UNCHANGED <<mode, nomap>>

\* do_timeout.
Timeout ==
    /\ InLoop
    /\ timer
    /\ Call(<<>>, "held", TRUE, FALSE)
    /\ UNCHANGED <<mode, nomap, processed, events>>

\* vb_enter: a mode that is entered anew starts without flags.
Enter(m) ==
    /\ mode' = m
    /\ nomap' = (nomap /\ m = mode)

\* ex_normal, from the command line or from an autocmd; no keys at all is a
\* call with keylen 0.
RunNormal(keys, bang) ==
    /\ InLoop \/ InHandler
    /\ events < MaxEvents
    /\ Call(keys, IF bang THEN "bang" ELSE "string", ~bang, FALSE)
    /\ Enter(NormalMode)
    /\ events' = events + 1
    /\ UNCHANGED processed

\* hint_function_check_result runs x-hint-command for a fired ;x hint.
RunHintCommand(keys) ==
    /\ InLoop
    /\ events < MaxEvents
    /\ Call(keys, "string", TRUE, FALSE)
    /\ events' = events + 1
    /\ UNCHANGED <<mode, nomap, processed>>

-----------------------------------------------------------------------------
(* The loop of map_handle_keys.                                            *)

\* Mutant: `while (resolved)` instead of `while (resolved > 0)`.
MutantUnsignedLoop ==
    /\ InQueue
    /\ resolved # 0
    /\ queue # <<>>
    /\ LET n == IF queue[1].key = CSI /\ Len(queue) >= 3 THEN 3 ELSE 1
       IN  /\ resolved' = resolved - n
           /\ queue' = Drop(queue, n)
    /\ nomap' = FALSE
    /\ SetTop([Top EXCEPT !.at = "handler", !.cur = queue[1].tag])
    /\ UNCHANGED <<maps, timer, mode, processed, events>>

\* Mutant: a special key at the end of the queue is sent byte by byte.
MutantLastSpecial ==
    /\ InQueue
    /\ resolved > 0
    /\ LET n == IF queue[1].key = CSI /\ Len(queue) > 3 THEN 3 ELSE 1
       IN  /\ resolved' = resolved - n
           /\ queue' = Drop(queue, n)
    /\ nomap' = FALSE
    /\ SetTop([Top EXCEPT !.at = "handler", !.cur = queue[1].tag])
    /\ UNCHANGED <<maps, timer, mode, processed, events>>

\* Send the first resolved key to the parser.  A special key takes three
\* bytes of the queue.
Deliver ==
    /\ InQueue
    /\ resolved > 0
    /\ LET n == IF queue[1].key = CSI /\ Len(queue) >= 3 THEN 3 ELSE 1
       IN  /\ resolved' = resolved - n
           /\ queue' = Drop(queue, n)
    /\ nomap' = FALSE
    /\ SetTop([Top EXCEPT !.at = "handler", !.cur = queue[1].tag])
    /\ UNCHANGED <<maps, timer, mode, processed, events>>

\* Mutant: a remapped rhs counts as resolved up to inlen without the test that
\* it begins with the lhs.
MutantNoPrefixTest(m) ==
    /\ InQueue
    /\ resolved <= 0
    /\ queue # <<>>
    /\ ~Ambiguous
    /\ m \in Matches
    /\ IsLongest(m)
    /\ Len(queue) - Len(m.in) + Len(m.mapped) <= MaxQueue
    /\ queue' = Tagged(m.mapped, IF m.remap THEN "mapped" ELSE "noremap")
                  \o Drop(queue, Len(m.in))
    /\ resolved' = IF m.remap THEN Len(m.in) ELSE Len(m.mapped)
    /\ UNCHANGED <<maps, timer, mode, nomap, processed, stack, events>>

\* Mutant: inlen instead of mappedlen keys of a noremap rhs are resolved.
MutantResolveInlen(m) ==
    /\ InQueue
    /\ resolved <= 0
    /\ queue # <<>>
    /\ ~Ambiguous
    /\ m \in Matches
    /\ IsLongest(m)
    /\ Len(queue) - Len(m.in) + Len(m.mapped) <= MaxQueue
    /\ queue' = Tagged(m.mapped, IF m.remap THEN "mapped" ELSE "noremap")
                  \o Drop(queue, Len(m.in))
    /\ resolved' = IF ~m.remap \/ IsPrefix(m.in, m.mapped)
                   THEN IF Len(m.in) < Len(m.mapped) THEN Len(m.in) ELSE Len(m.mapped)
                   ELSE resolved
    /\ UNCHANGED <<maps, timer, mode, nomap, processed, stack, events>>

\* Replace the matched keys by those of the longest matching map.
Substitute(m) ==
    /\ InQueue
    /\ resolved <= 0
    /\ queue # <<>>
    /\ ~Ambiguous
    /\ m \in Matches
    /\ IsLongest(m)
    /\ Len(queue) - Len(m.in) + Len(m.mapped) <= MaxQueue
    /\ queue' = Tagged(m.mapped, IF m.remap THEN "mapped" ELSE "noremap")
                  \o Drop(queue, Len(m.in))
    /\ resolved' = IF ~m.remap THEN Len(m.mapped)
                   ELSE IF IsPrefix(m.in, m.mapped) THEN Len(m.in)
                   ELSE resolved
    /\ UNCHANGED <<maps, timer, mode, nomap, processed, stack, events>>

\* The first key is not mapped.
ResolveFirst ==
    /\ InQueue
    /\ resolved <= 0
    /\ queue # <<>>
    /\ ~Ambiguous
    /\ Matches = {}
    /\ resolved' = 1
    /\ UNCHANGED <<maps, queue, timer, mode, nomap, processed, stack, events>>

\* All keys were processed; on_map_key_pressed reports processed_key to GTK.
Return ==
    /\ InQueue
    /\ resolved <= 0
    /\ queue = <<>>
    /\ resolved' = 0
    /\ Pop
    /\ UNCHANGED <<maps, queue, timer, mode, nomap, processed, events>>

\* Wait for more keys or for the timer (MAP_AMBIGUOUS).  The event of the
\* pressed key is over.
ReturnAmbiguous ==
    /\ InQueue
    /\ resolved <= 0
    /\ queue # <<>>
    /\ Ambiguous
    /\ Pop
    /\ queue' = IF Top.press
                THEN [i \in 1..Len(queue) |->
                        IF queue[i].tag = "event"
                        THEN [queue[i] EXCEPT !.tag = "held"] ELSE queue[i]]
                ELSE queue
    /\ UNCHANGED <<maps, resolved, timer, mode, nomap, processed, events>>

-----------------------------------------------------------------------------
(* What a mode handler may do.                                             *)

\* The handler returns; `refuse` is the assignment processed_key = FALSE.
HandlerDone(refuse) ==
    /\ InHandler
    /\ SetTop([Top EXCEPT !.at = "queue",
                          !.refused = @ \/ (refuse /\ Top.cur # "held")])
    /\ processed' = (processed /\ ~refuse)
    /\ UNCHANGED <<maps, queue, resolved, timer, mode, nomap, events>>

\* The handler waits for the second key of a command (c->mode->flags).
SetNomap ==
    /\ InHandler
    /\ nomap' = TRUE
    /\ UNCHANGED <<maps, queue, resolved, timer, mode, processed, stack, events>>

\* The handler iterates the main loop until an asynchronous reply is there.
RunLoop ==
    /\ InHandler
    /\ events < MaxEvents
    /\ SetTop([Top EXCEPT !.at = "loop"])
    /\ events' = events + 1
    /\ UNCHANGED <<maps, queue, resolved, timer, mode, nomap, processed>>

EndLoop ==
    /\ TopAt("loop")
    /\ SetTop([Top EXCEPT !.at = "handler"])
    /\ UNCHANGED <<maps, queue, resolved, timer, mode, nomap, processed, events>>

-----------------------------------------------------------------------------
(* What a handler or another source of the main loop may do.               *)

\* A command, a mouse click or a page load switches the mode.
EnterMode(m) ==
    /\ InLoop \/ InHandler
    /\ m # mode
    /\ Enter(m)
    /\ UNCHANGED <<maps, queue, resolved, timer, processed, stack, events>>

\* The modes are shared: another tab in the same mode changes its flags.
OtherTabFlag ==
    /\ InLoop
    /\ nomap' = ~nomap
    /\ UNCHANGED <<maps, queue, resolved, timer, mode, processed, stack, events>>

\* Mutant: the old mapping of the lhs stays in the list.
MutantPrependOnly(m) ==
    /\ InLoop \/ InHandler
    /\ events < MaxEvents
    /\ maps' = maps \cup {m}
    /\ events' = events + 1
    /\ UNCHANGED <<queue, resolved, timer, mode, nomap, processed, stack>>

\* map_insert replaces a mapping with the same lhs.
MapInsert(m) ==
    /\ InLoop \/ InHandler
    /\ events < MaxEvents
    /\ maps' = {n \in maps : ~SameLhs(m, n)} \cup {m}
    /\ events' = events + 1
    /\ UNCHANGED <<queue, resolved, timer, mode, nomap, processed, stack>>

\* map_delete.
MapDelete(m) ==
    /\ InLoop \/ InHandler
    /\ events < MaxEvents
    /\ m \in maps
    /\ maps' = {n \in maps : ~SameLhs(m, n)}
    /\ events' = events + 1
    /\ UNCHANGED <<queue, resolved, timer, mode, nomap, processed, stack>>

-----------------------------------------------------------------------------
\* map_init, with the mappings of the configuration file.
Init ==
    /\ maps \in SUBSET MapSet
    /\ \A m, n \in maps : SameLhs(m, n) => m = n
    /\ queue = <<>>
    /\ resolved = 0
    /\ timer = FALSE
    /\ mode = NormalMode
    /\ nomap = FALSE
    /\ processed = FALSE
    /\ stack = <<>>
    /\ events = 0

\* One iteration of map_handle_keys.
Iterate ==
    \/ Deliver
    \/ \E m \in maps : Substitute(m)
    \/ ResolveFirst
    \/ Return
    \/ ReturnAmbiguous

Handler ==
    \/ \E refuse \in BOOLEAN : HandlerDone(refuse)
    \/ SetNomap
    \/ RunLoop
    \/ EndLoop

External ==
    \/ \E keys \in Typed : PressKey(keys)
    \/ \E keys \in Strings, bang \in BOOLEAN : RunNormal(keys, bang)
    \/ \E keys \in Strings : RunHintCommand(keys)
    \/ \E m \in Mode : EnterMode(m)
    \/ OtherTabFlag
    \/ \E m \in MapSet : MapInsert(m) \/ MapDelete(m)

Next == Iterate \/ Handler \/ External \/ Timeout

Spec == Init /\ [][Next]_vars

\* The program runs a call to its end, handlers return, the replies their
\* loops wait for arrive, and GLib dispatches a due timer.
Fairness ==
    /\ WF_vars(Iterate)
    /\ WF_vars(\E refuse \in BOOLEAN : HandlerDone(refuse))
    /\ WF_vars(EndLoop)
    /\ WF_vars(Timeout)

FairSpec == Spec /\ Fairness

-----------------------------------------------------------------------------
(* Properties.                                                             *)

\* Type correctness; the queue, the counters and the frames stay in range.
TypeOK ==
    /\ maps \subseteq MapSet
    /\ queue \in Seq([key : Byte, tag : Tag])
    /\ resolved \in Int /\ resolved >= -2
    /\ timer \in BOOLEAN
    /\ mode \in Mode
    /\ nomap \in BOOLEAN
    /\ processed \in BOOLEAN
    /\ stack \in Seq(Frame)
    /\ events \in Nat

\* map_handle_keys never takes a key beyond the end of the queue, also when a
\* nested call drained the queue under a call that still counts keys.
ResolvedInQueue == resolved <= Len(queue)

\* Keys that nobody is working on wait for a timer: a typed prefix of a mapping
\* is never stuck in the queue (the timer of map_handle_keys is re-armed or
\* replaced by a flushing call in every order of nested calls).
PendingIsTimed == stack = <<>> /\ queue # <<>> => timer

\* The strengthening of PendingIsTimed that every step preserves.
UntimedIsFlushed ==
    queue # <<>> /\ ~timer => \E i \in 1..Len(stack) : stack[i].timeout

\* The output of a noremap mapping is resolved as long as it is queued.
NoremapIsResolved ==
    \A i \in 1..Len(queue) : queue[i].tag = "noremap" => i <= resolved

\* At most one mapping per mode and lhs (map_insert).
UniqueLhs == \A m, n \in maps : SameLhs(m, n) => m = n

\* What a queue is replaced by never depends on the order of the mapping list:
\* the longest match is unique, whatever was mapped, remapped and unmapped.
LongestIsUnique ==
    stack # <<>> =>
        \A m, n \in Matches : IsLongest(m) /\ IsLongest(n) => m = n

\* "Disallow mapping of rhs" (:nnoremap, vimb.1): no substitution consumes a key
\* that a noremap mapping produced, whatever runs nested in the handlers of the
\* keys before it.
NoremapNeverMapped ==
    [][\A m \in maps : Substitute(m) =>
         \A i \in 1..Len(m.in) : queue[i].tag # "noremap"]_vars

\* A special key is sent to the handler as a whole: no mapping, no nested call
\* and no count of resolved keys leaves its introducer without the two bytes
\* behind it.
SpecialKeysWhole ==
    [][Deliver /\ queue[1].key = CSI =>
         Len(queue) >= 3 /\ queue' = Drop(queue, 3)]_vars

\* Once the user stops, every queued key reaches a handler and every call of
\* map_handle_keys returns, whatever is nested in what, with one exception: from
\* some time on nothing happens but that :map mappings replace one another, which
\* has no limit ("nested and recursive use of mappings", vimb.1).
Remapping == \E m \in maps : m.remap /\ Substitute(m)

-----------------------------------------------------------------------------
(* What the manual or a comment says and the code does not keep.           *)

\* A key that the handlers refuse is left to GTK, also when it was held back as
\* the beginning of a mapping ("queue GDK key events, in order to later send
\* them if the map didn't match", map.c).
RefusedKeysReachThePage ==
    [][HandlerDone(TRUE) => Top.cur # "held"]_vars

\* processed_key "indicates if a key press was handled and should not bubbled
\* up" (main.h): a press is only passed on if a handler refused its key.
HandledKeysDoNotBubble ==
    [][Return /\ Top.press /\ ~processed => Top.refused]_vars

\* ":normal! ... no mapping is applied to cmds" (vimb.1).
BangNeverMapped ==
    [][\A m \in maps : Substitute(m) =>
         \A i \in 1..Len(m.in) : queue[i].tag # "bang"]_vars
=============================================================================
