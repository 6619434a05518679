---------------------------- MODULE KeyMap_proofs ----------------------------
(* Proofs about the key queue of KeyMap.                                   *)
EXTENDS KeyMap, SequenceTheorems, TLAPS

QueuedKey == [key : Byte, tag : Tag]

-----------------------------------------------------------------------------
(* Lemmas about the sequences of the model.                                *)

\* A function on 1..n is a sequence of length n.
LEMMA FunctionIsSeq ==
    ASSUME NEW S, NEW n \in Nat, NEW f \in [1..n -> S]
    PROVE  f \in Seq(S) /\ Len(f) = n
<1>1. f \in Seq(S)
  BY SeqDef
<1>2. DOMAIN f = 1..n /\ DOMAIN f = 1..Len(f) /\ Len(f) \in Nat
  BY <1>1, LenProperties
<1> QED
  BY <1>1, <1>2, SMT

\* Tagging the bytes of a string keeps their number and their order.
LEMMA TaggedProperties ==
    ASSUME NEW keys \in Seq(Byte), NEW tag \in Tag
    PROVE  /\ Tagged(keys, tag) \in Seq(QueuedKey)
           /\ Len(Tagged(keys, tag)) = Len(keys)
           /\ \A i \in 1..Len(keys) :
                /\ Tagged(keys, tag)[i].key = keys[i]
                /\ Tagged(keys, tag)[i].tag = tag
<1>1. \A i \in 1..Len(keys) : keys[i] \in Byte
  BY ElementOfSeq
<1>2. Tagged(keys, tag) \in [1..Len(keys) -> QueuedKey]
  BY <1>1 DEF Tagged, QueuedKey
<1>3. Len(keys) \in Nat
  BY LenProperties
<1>4. Tagged(keys, tag) \in Seq(QueuedKey) /\ Len(Tagged(keys, tag)) = Len(keys)
  BY <1>2, <1>3, FunctionIsSeq
<1>5. \A i \in 1..Len(keys) : /\ Tagged(keys, tag)[i].key = keys[i]
                              /\ Tagged(keys, tag)[i].tag = tag
  BY DEF Tagged
<1> QED
  BY <1>4, <1>5

\* Dropping n bytes shifts the others to the front.
LEMMA DropProperties ==
    ASSUME NEW S, NEW s \in Seq(S), NEW n \in 0..Len(s)
    PROVE  /\ Drop(s, n) \in Seq(S)
           /\ Len(Drop(s, n)) = Len(s) - n
           /\ \A i \in 1..(Len(s) - n) : Drop(s, n)[i] = s[n + i]
<1>1. Len(s) \in Nat
  BY LenProperties
<1>2. \A i \in (n + 1)..Len(s) : s[i] \in S
  BY <1>1, ElementOfSeq
<1>3. /\ Drop(s, n) \in Seq(S)
      /\ Len(Drop(s, n)) = IF n + 1 <= Len(s) THEN Len(s) - (n + 1) + 1 ELSE 0
      /\ \A i \in 1..(Len(s) - (n + 1) + 1) : Drop(s, n)[i] = s[(n + 1) + i - 1]
  <2>1. n + 1 \in Int /\ Len(s) \in Int
    BY <1>1
  <2> QED
    BY <1>2, <2>1, SubSeqProperties DEF Drop
<1> QED
  BY <1>1, <1>3

\* Replacing the running call by another frame leaves the outer calls alone.
LEMMA SetTopProperties ==
    ASSUME stack \in Seq(Frame), stack # <<>>, NEW f \in Frame, SetTop(f)
    PROVE  /\ stack' \in Seq(Frame)
           /\ Len(stack') = Len(stack)
           /\ stack'[1] = f
           /\ \A i \in 2..Len(stack) : stack'[i] = stack[i]
<1>1. /\ Tail(stack) \in Seq(Frame)
      /\ Len(Tail(stack)) = Len(stack) - 1
      /\ \A i \in 1..Len(Tail(stack)) : Tail(stack)[i] = stack[i + 1]
      /\ Len(stack) \in Nat
  BY HeadTailProperties, LenProperties
<1>2. <<f>> \in Seq(Frame) /\ Len(<<f>>) = 1 /\ <<f>>[1] = f
  OBVIOUS
<1>3. stack' = <<f>> \o Tail(stack)
  BY DEF SetTop
<1> QED
  BY <1>1, <1>2, <1>3, ConcatProperties

\* The running call is a frame.
LEMMA TopIsFrame ==
    ASSUME stack \in Seq(Frame), stack # <<>>
    PROVE  Top \in Frame /\ Top = stack[1] /\ Len(stack) >= 1
<1>1. Head(stack) \in Frame
  BY HeadTailProperties
<1>2. Head(stack) = stack[1] /\ Len(stack) >= 1
  OBVIOUS
<1> QED
  BY <1>1, <1>2 DEF Top

\* The outer calls stay when the running call returns.
LEMMA PopProperties ==
    ASSUME stack \in Seq(Frame), stack # <<>>, Pop
    PROVE  /\ stack' \in Seq(Frame)
           /\ Len(stack') = Len(stack) - 1
           /\ \A i \in 1..(Len(stack) - 1) : stack'[i] = stack[i + 1]
  BY HeadTailProperties DEF Pop

-----------------------------------------------------------------------------
(* The inductive invariant.                                                *)

Inv ==
    /\ TypeOK
    /\ ResolvedInQueue
    /\ UntimedIsFlushed
    /\ NoremapIsResolved
    /\ UniqueLhs

\* A matching mapping consumes at least one and at most all queued keys.
LEMMA MatchProperties ==
    ASSUME TypeOK, NEW m \in Matches
    PROVE  /\ m \in maps
           /\ m.in \in Seq(Byte) /\ m.in # <<>>
           /\ m.mapped \in Seq(Byte) /\ m.mapped # <<>>
           /\ m.remap \in BOOLEAN
           /\ m.mode \in Mode
           /\ Len(m.in) \in 1..Len(queue)
           /\ Len(m.mapped) \in Nat
           /\ Len(queue) \in Nat
<1>1. m \in maps /\ Applies(m)
  BY DEF Matches
<1>2. m \in [in : Seq(Byte) \ {<<>>}, mapped : Seq(Byte) \ {<<>>},
             mode : Mode, remap : BOOLEAN]
  BY <1>1, KeyMapAssumption DEF TypeOK
<1>3. Len(queue) \in Nat
  BY LenProperties DEF TypeOK
<1>4. Len(Keys(queue)) = Len(queue)
  <2>1. \A i \in 1..Len(queue) : queue[i] \in [key : Byte, tag : Tag]
    BY ElementOfSeq DEF TypeOK
  <2>2. Keys(queue) \in [1..Len(queue) -> Byte]
    BY <2>1 DEF Keys
  <2> QED
    BY <1>3, <2>2, FunctionIsSeq
<1>5. Len(m.in) <= Len(queue)
  BY <1>1, <1>4 DEF Applies, IsPrefix
<1>6. Len(m.in) \in Nat \ {0} /\ Len(m.mapped) \in Nat
  BY <1>2, EmptySeq, LenProperties
<1> QED
  BY <1>1, <1>2, <1>3, <1>5, <1>6

\* A call of map_handle_keys appends unresolved keys and arms the timer, or
\* removes it and flushes the queue.
LEMMA CallStep ==
    ASSUME Inv,
           NEW keys \in Seq(Byte), NEW tag \in Tag \ {"noremap"},
           NEW useMap \in BOOLEAN, NEW press \in BOOLEAN,
           Call(keys, tag, useMap, press)
    PROVE  /\ queue' \in Seq(QueuedKey)
           /\ timer' \in BOOLEAN
           /\ stack' \in Seq(Frame)
           /\ ResolvedInQueue'
           /\ UntimedIsFlushed'
           /\ NoremapIsResolved'
<1> DEFINE f == [at |-> "queue", timeout |-> keys = <<>>, useMap |-> useMap,
                 press |-> press, cur |-> tag, refused |-> FALSE]
<1>1. /\ queue \in Seq(QueuedKey) /\ Len(queue) \in Nat
      /\ stack \in Seq(Frame) /\ Len(stack) \in Nat
      /\ resolved \in Int
  BY LenProperties DEF Inv, TypeOK, QueuedKey
<1>2. /\ Tagged(keys, tag) \in Seq(QueuedKey)
      /\ Len(Tagged(keys, tag)) = Len(keys)
      /\ Len(keys) \in Nat
      /\ \A i \in 1..Len(keys) : Tagged(keys, tag)[i].tag = tag
  BY TaggedProperties, LenProperties
<1>3. /\ queue' \in Seq(QueuedKey)
      /\ Len(queue') = Len(queue) + Len(keys)
      /\ \A i \in 1..Len(queue) : queue'[i] = queue[i]
      /\ \A i \in (Len(queue) + 1)..Len(queue') : queue'[i].tag = tag
  <2>1. queue' = queue \o Tagged(keys, tag)
    BY DEF Call
  <2>2. /\ queue' \in Seq(QueuedKey)
        /\ Len(queue') = Len(queue) + Len(keys)
        /\ \A i \in 1..(Len(queue) + Len(keys)) :
             queue'[i] = IF i <= Len(queue) THEN queue[i]
                         ELSE Tagged(keys, tag)[i - Len(queue)]
    BY <1>1, <1>2, <2>1, ConcatProperties
  <2> QED
    BY <1>1, <1>2, <2>2
<1>4. f \in Frame
  BY DEF Frame
<1>5. stack' \in Seq(Frame) /\ Len(stack') = Len(stack) + 1 /\ stack'[1] = f
  <2>1. stack' = <<f>> \o stack
    BY DEF Call
  <2>2. <<f>> \in Seq(Frame) /\ Len(<<f>>) = 1 /\ <<f>>[1] = f
    BY <1>4
  <2> HIDE DEF f
  <2> QED
    BY <1>1, <2>1, <2>2, ConcatProperties
<1>6. ResolvedInQueue'
  BY <1>1, <1>2, <1>3 DEF Inv, ResolvedInQueue, Call
<1>7. UntimedIsFlushed'
  <2>1. ~timer' => stack'[1].timeout
    <3>1. timer' = (keys # <<>>)
      BY DEF Call
    <3>2. keys = <<>> => f.timeout
      OBVIOUS
    <3> HIDE DEF f
    <3> QED
      BY <1>5, <3>1, <3>2
  <2>2. 1 \in 1..Len(stack')
    BY <1>1, <1>5
  <2> QED
    BY <2>1, <2>2 DEF UntimedIsFlushed
<1>8. NoremapIsResolved'
  <2> SUFFICES ASSUME NEW i \in 1..Len(queue'), queue'[i].tag = "noremap"
               PROVE  i <= resolved'
    BY DEF NoremapIsResolved
  <2>1. i \in 1..Len(queue)
    BY <1>1, <1>2, <1>3
  <2>2. queue[i].tag = "noremap"
    BY <1>3, <2>1
  <2> QED
    BY <2>1, <2>2 DEF Inv, NoremapIsResolved, Call
<1>9. timer' \in BOOLEAN
  BY DEF Call
<1> QED
  BY <1>3, <1>5, <1>6, <1>7, <1>8, <1>9

\* A step of the running call or of its handler keeps the call's kind, so a
\* flushing call is still there to drain an untimed queue.
LEMMA TopStep ==
    ASSUME TypeOK, UntimedIsFlushed, stack # <<>>,
           NEW f \in Frame, f.timeout = Top.timeout, SetTop(f),
           timer' = timer, queue' # <<>> => queue # <<>>
    PROVE  stack' \in Seq(Frame) /\ UntimedIsFlushed'
<1>1. /\ stack' \in Seq(Frame) /\ Len(stack') = Len(stack) /\ stack'[1] = f
      /\ \A i \in 2..Len(stack) : stack'[i] = stack[i]
  BY SetTopProperties DEF TypeOK
<1>2. Top = stack[1] /\ Len(stack) \in Nat /\ Len(stack) >= 1
  BY TopIsFrame, LenProperties DEF TypeOK
<1>3. UntimedIsFlushed'
  <2> SUFFICES ASSUME queue' # <<>>, ~timer'
               PROVE  \E i \in 1..Len(stack') : stack'[i].timeout
    BY DEF UntimedIsFlushed
  <2>1. PICK i \in 1..Len(stack) : stack[i].timeout
    BY DEF UntimedIsFlushed
  <2>2. CASE i = 1
    <3>1. stack'[1].timeout
      BY <1>1, <1>2, <2>1, <2>2, Zenon
    <3>2. 1 \in 1..Len(stack')
      BY <1>1, <1>2
    <3> QED
      BY <3>1, <3>2
  <2>3. CASE i # 1
    <3>1. i \in 2..Len(stack) /\ i \in 1..Len(stack')
      BY <1>1, <1>2, <2>3
    <3> QED
      BY <1>1, <2>1, <3>1
  <2> QED
    BY <2>2, <2>3
<1> QED
  BY <1>1, <1>3

\* Sending a resolved key takes at most the keys that are queued.
LEMMA DeliverStep ==
    ASSUME Inv, Deliver
    PROVE  Inv'
<1> DEFINE n == IF queue[1].key = CSI /\ Len(queue) >= 3 THEN 3 ELSE 1
           f == [Top EXCEPT !.at = "handler", !.cur = queue[1].tag]
<1>1. /\ queue \in Seq(QueuedKey) /\ Len(queue) \in Nat
      /\ stack \in Seq(Frame) /\ stack # <<>>
      /\ resolved \in Int /\ resolved > 0 /\ resolved <= Len(queue)
  BY LenProperties
  DEF Inv, TypeOK, ResolvedInQueue, Deliver, InQueue, TopAt, QueuedKey
<1>2. n \in {1, 3} /\ n \in 0..Len(queue)
  BY <1>1
<1>3. resolved' = resolved - n /\ queue' = Drop(queue, n) /\ SetTop(f)
  BY DEF Deliver
<1>4. /\ queue' \in Seq(QueuedKey)
      /\ Len(queue') = Len(queue) - n
      /\ \A i \in 1..(Len(queue) - n) : queue'[i] = queue[n + i]
  <2> HIDE DEF n
  <2> QED
    BY <1>1, <1>2, <1>3, DropProperties
<1>5. f \in Frame /\ f.timeout = Top.timeout
  <2>1. Top \in Frame
    BY <1>1, TopIsFrame
  <2>2. queue[1].tag \in Tag
    <3>1. 1 \in 1..Len(queue)
      BY <1>1
    <3>2. queue[1] \in QueuedKey
      BY <1>1, <3>1, ElementOfSeq
    <3> QED
      BY <3>2 DEF QueuedKey
  <2> QED
    BY <2>1, <2>2 DEF Frame
<1>6. queue # <<>> /\ timer' = timer
  BY <1>1 DEF Deliver
<1> HIDE DEF n, f
<1>7. stack' \in Seq(Frame) /\ UntimedIsFlushed'
  BY <1>1, <1>3, <1>5, <1>6, TopStep DEF Inv
<1>8. ResolvedInQueue'
  BY <1>1, <1>2, <1>3, <1>4 DEF ResolvedInQueue
<1>9. NoremapIsResolved'
  <2> SUFFICES ASSUME NEW i \in 1..Len(queue'), queue'[i].tag = "noremap"
               PROVE  i <= resolved'
    BY DEF NoremapIsResolved
  <2>1. n + i \in 1..Len(queue) /\ queue[n + i].tag = "noremap"
    BY <1>1, <1>2, <1>4
  <2>2. n + i <= resolved
    BY <2>1 DEF Inv, NoremapIsResolved
  <2> QED
    BY <1>1, <1>2, <1>3, <2>2
<1>10. TypeOK'
  <2>1. maps' = maps /\ mode' = mode /\ nomap' = FALSE /\ processed' = processed
        /\ events' = events
    BY DEF Deliver
  <2>2. resolved' \in Int /\ resolved' >= -2
    BY <1>1, <1>2, <1>3
  <2> QED
    BY <1>4, <1>6, <1>7, <2>1, <2>2 DEF Inv, TypeOK, QueuedKey
<1>11. UniqueLhs'
  BY DEF Inv, UniqueLhs, SameLhs, Deliver
<1> QED
  BY <1>7, <1>8, <1>9, <1>10, <1>11 DEF Inv

\* A mapping is only applied when no key is resolved, so all keys of noremap
\* mappings are gone, and those it brings are resolved at once.
LEMMA SubstituteStep ==
    ASSUME Inv, NEW m \in maps, Substitute(m)
    PROVE  Inv'
<1> DEFINE t == IF m.remap THEN "mapped" ELSE "noremap"
           u == Tagged(m.mapped, t)
           v == Drop(queue, Len(m.in))
           r == IF ~m.remap THEN Len(m.mapped)
                ELSE IF IsPrefix(m.in, m.mapped) THEN Len(m.in) ELSE resolved
<1>1. /\ queue \in Seq(QueuedKey) /\ Len(queue) \in Nat
      /\ resolved \in Int /\ resolved >= -2 /\ resolved <= 0
      /\ queue # <<>>
  BY LenProperties DEF Inv, TypeOK, Substitute, QueuedKey
<1>2. /\ m.in \in Seq(Byte) /\ m.mapped \in Seq(Byte)
      /\ Len(m.in) \in 1..Len(queue) /\ Len(m.mapped) \in Nat
  BY MatchProperties DEF Inv, Substitute
<1>3. t \in Tag
  BY DEF Tag
<1>4. /\ queue' = u \o v
      /\ resolved' = r
  BY DEF Substitute
<1>5. /\ u \in Seq(QueuedKey)
      /\ Len(u) = Len(m.mapped)
  <2> HIDE DEF t
  <2> QED
    BY <1>2, <1>3, TaggedProperties
<1>6. /\ v \in Seq(QueuedKey)
      /\ Len(v) = Len(queue) - Len(m.in)
      /\ \A i \in 1..(Len(queue) - Len(m.in)) :
           v[i] = queue[Len(m.in) + i]
  <2>1. Len(m.in) \in 0..Len(queue)
    BY <1>1, <1>2
  <2> QED
    BY <1>1, <2>1, DropProperties
<1> HIDE DEF t, u, v
<1>7. /\ queue' \in Seq(QueuedKey)
      /\ Len(queue') = Len(m.mapped) + (Len(queue) - Len(m.in))
      /\ \A i \in 1..(Len(m.mapped) + (Len(queue) - Len(m.in))) :
           queue'[i] = IF i <= Len(m.mapped) THEN u[i]
                       ELSE v[i - Len(m.mapped)]
  <2>1. /\ u \o v \in Seq(QueuedKey)
        /\ Len(u \o v) = Len(u) + Len(v)
        /\ \A i \in 1..(Len(u) + Len(v)) :
             (u \o v)[i] = IF i <= Len(u) THEN u[i] ELSE v[i - Len(u)]
    <3>1. u \in Seq(QueuedKey) /\ v \in Seq(QueuedKey)
      BY <1>5, <1>6
    <3> HIDE DEF r
    <3> QED
      BY <3>1, ConcatProperties
  <2>2. Len(u) = Len(m.mapped) /\ Len(v) = Len(queue) - Len(m.in)
    BY <1>5, <1>6
  <2> QED
    BY <1>4, <2>1, <2>2
<1>8. r \in Int /\ r >= -2 /\ r <= Len(queue')
  <2>1. CASE ~m.remap
    <3>1. r = Len(m.mapped)
      BY <2>1
    <3> HIDE DEF r
    <3> QED
      BY <1>1, <1>2, <1>7, <3>1
  <2>2. CASE m.remap /\ IsPrefix(m.in, m.mapped)
    <3>1. Len(m.in) <= Len(m.mapped)
      BY <2>2 DEF IsPrefix
    <3> QED
      BY <1>1, <1>2, <1>7, <2>2, <3>1
  <2>3. CASE m.remap /\ ~IsPrefix(m.in, m.mapped)
    BY <1>1, <1>2, <1>7, <2>3
  <2> QED
    BY <2>1, <2>2, <2>3
<1>9. ResolvedInQueue'
  BY <1>4, <1>8 DEF ResolvedInQueue
<1>10. NoremapIsResolved'
  <2> SUFFICES ASSUME NEW i \in 1..Len(queue'), queue'[i].tag = "noremap"
               PROVE  i <= resolved'
    BY DEF NoremapIsResolved
  <2>1. CASE i <= Len(m.mapped)
    <3>1. u[i].tag = t
      <4>1. i \in 1..Len(m.mapped)
        BY <1>2, <2>1
      <4> QED
        BY <1>2, <1>3, <4>1, TaggedProperties DEF u
    <3>2. queue'[i] = u[i]
      BY <1>2, <1>7, <2>1
    <3>3. ~m.remap
      BY <3>1, <3>2 DEF t
    <3> QED
      BY <1>4, <2>1, <3>3
  <2>2. CASE i > Len(m.mapped)
    <3> DEFINE j == Len(m.in) + (i - Len(m.mapped))
    <3>1. /\ i - Len(m.mapped) \in 1..(Len(queue) - Len(m.in))
          /\ j \in 1..Len(queue)
      BY <1>1, <1>2, <1>7, <2>2
    <3>2. queue'[i] = v[i - Len(m.mapped)]
      BY <1>2, <1>7, <2>2
    <3>3. queue'[i] = queue[j]
      BY <1>6, <3>1, <3>2
    <3>4. j <= resolved
      BY <3>1, <3>3 DEF Inv, NoremapIsResolved
    <3> QED
      BY <1>1, <3>1, <3>4
  <2> QED
    BY <1>2, <2>1, <2>2
<1>11. TypeOK'
  BY <1>4, <1>7, <1>8 DEF Inv, TypeOK, Substitute, QueuedKey
<1>12. UntimedIsFlushed'
  BY <1>1 DEF Inv, UntimedIsFlushed, Substitute
<1>13. UniqueLhs'
  BY DEF Inv, UniqueLhs, SameLhs, Substitute
<1> QED
  BY <1>9, <1>10, <1>11, <1>12, <1>13 DEF Inv

\* A call only returns with keys in the queue to wait for a longer mapping, and
\* a flushing call never waits.
LEMMA ReturnStep ==
    ASSUME Inv, Return \/ ReturnAmbiguous
    PROVE  Inv'
<1>1. /\ queue \in Seq(QueuedKey) /\ Len(queue) \in Nat
      /\ stack \in Seq(Frame) /\ stack # <<>> /\ Len(stack) \in Nat
      /\ resolved \in Int /\ resolved >= -2 /\ resolved <= 0
  BY LenProperties
  DEF Inv, TypeOK, Return, ReturnAmbiguous, InQueue, TopAt, QueuedKey
<1>2. /\ stack' \in Seq(Frame) /\ Len(stack') = Len(stack) - 1
      /\ \A i \in 1..(Len(stack) - 1) : stack'[i] = stack[i + 1]
  BY <1>1, PopProperties DEF Return, ReturnAmbiguous
<1>3. UniqueLhs'
  BY DEF Inv, UniqueLhs, SameLhs, Return, ReturnAmbiguous
<1>4. CASE Return
  <2>1. queue = <<>> /\ queue' = <<>> /\ resolved' = 0 /\ Len(queue') = 0
    BY <1>4 DEF Return
  <2>2. ResolvedInQueue' /\ UntimedIsFlushed' /\ NoremapIsResolved'
    BY <2>1 DEF ResolvedInQueue, UntimedIsFlushed, NoremapIsResolved
  <2>3. TypeOK'
    BY <1>2, <1>4, <2>1 DEF Inv, TypeOK, Return
  <2> QED
    BY <1>3, <2>2, <2>3 DEF Inv
<1>5. CASE ReturnAmbiguous
  <2>1. /\ queue' \in Seq(QueuedKey) /\ Len(queue') = Len(queue)
        /\ \A i \in 1..Len(queue) :
             queue'[i].tag = "noremap" => queue[i].tag = "noremap"
    <3>1. \A i \in 1..Len(queue) : queue[i] \in QueuedKey
      BY <1>1, ElementOfSeq
    <3>2. CASE Top.press
      <4> DEFINE q == [i \in 1..Len(queue) |->
                         IF queue[i].tag = "event"
                         THEN [queue[i] EXCEPT !.tag = "held"] ELSE queue[i]]
      <4>1. queue' = q
        BY <1>5, <3>2 DEF ReturnAmbiguous
      <4>2. q \in [1..Len(queue) -> QueuedKey]
        BY <3>1 DEF QueuedKey, Tag
      <4>3. \A i \in 1..Len(queue) :
              q[i].tag = "noremap" => queue[i].tag = "noremap"
        BY <3>1 DEF QueuedKey
      <4> HIDE DEF q
      <4>4. q \in Seq(QueuedKey) /\ Len(q) = Len(queue)
        BY <1>1, <4>2, FunctionIsSeq
      <4> QED
        BY <4>1, <4>3, <4>4
    <3>3. CASE ~Top.press
      BY <1>1, <1>5, <3>3 DEF ReturnAmbiguous
    <3> QED
      BY <3>2, <3>3
  <2>2. resolved' = resolved /\ timer' = timer
    BY <1>5 DEF ReturnAmbiguous
  <2>3. ResolvedInQueue'
    BY <2>1, <2>2 DEF Inv, ResolvedInQueue
  <2>4. NoremapIsResolved'
    <3> SUFFICES ASSUME NEW i \in 1..Len(queue'), queue'[i].tag = "noremap"
                 PROVE  i <= resolved'
      BY DEF NoremapIsResolved
    <3> QED
      BY <2>1, <2>2 DEF Inv, NoremapIsResolved
  <2>5. UntimedIsFlushed'
    <3> SUFFICES ASSUME ~timer'
                 PROVE  \E i \in 1..Len(stack') : stack'[i].timeout
      BY DEF UntimedIsFlushed
    <3>1. queue # <<>> /\ ~timer
      BY <1>5, <2>2 DEF ReturnAmbiguous
    <3>2. PICK i \in 1..Len(stack) : stack[i].timeout
      BY <3>1 DEF Inv, UntimedIsFlushed
    <3>3. i # 1
      <4>1. ~Top.timeout
        BY <1>5 DEF ReturnAmbiguous, Ambiguous
      <4> QED
        BY <1>1, <3>2, <4>1, TopIsFrame
    <3>4. i - 1 \in 1..(Len(stack) - 1) /\ i = (i - 1) + 1
      BY <1>1, <3>2, <3>3
    <3>5. stack'[i - 1] = stack[i] /\ i - 1 \in 1..Len(stack')
      BY <1>2, <3>4
    <3> QED
      BY <3>2, <3>5
  <2>6. TypeOK'
    BY <1>2, <1>5, <2>1, <2>2 DEF Inv, TypeOK, ReturnAmbiguous, QueuedKey
  <2> QED
    BY <1>3, <2>3, <2>4, <2>5, <2>6 DEF Inv
<1> QED
  BY <1>4, <1>5

\* What a handler does leaves the queue and the kind of the calls alone.
LEMMA HandlerStep ==
    ASSUME Inv, Handler
    PROVE  Inv'
<1>1. /\ UNCHANGED <<maps, queue, resolved, timer, mode>>
      /\ nomap' \in BOOLEAN /\ processed' \in BOOLEAN /\ events' \in Nat
  <2>1. nomap \in BOOLEAN /\ processed \in BOOLEAN /\ events \in Nat
    BY DEF Inv, TypeOK
  <2>2. CASE \E refuse \in BOOLEAN : HandlerDone(refuse)
    BY <2>1, <2>2 DEF HandlerDone
  <2>3. CASE SetNomap
    BY <2>1, <2>3 DEF SetNomap
  <2>4. CASE RunLoop
    BY <2>1, <2>4 DEF RunLoop
  <2>5. CASE EndLoop
    BY <2>1, <2>5 DEF EndLoop
  <2> QED
    BY <2>2, <2>3, <2>4, <2>5 DEF Handler
<1>2. stack' \in Seq(Frame) /\ UntimedIsFlushed'
  <2>1. CASE SetNomap
    BY <2>1 DEF SetNomap, Inv, TypeOK, UntimedIsFlushed
  <2>2. CASE ~SetNomap
    <3>1. stack # <<>> /\ Top \in Frame
      BY <2>2, TopIsFrame
      DEF Inv, TypeOK, Handler, HandlerDone, RunLoop, EndLoop, InHandler, TopAt
    <3>2. PICK f \in Frame : f.timeout = Top.timeout /\ SetTop(f)
      <4>1. ASSUME NEW refuse \in BOOLEAN, HandlerDone(refuse)
            PROVE  \E f \in Frame : f.timeout = Top.timeout /\ SetTop(f)
        <5> DEFINE f == [Top EXCEPT !.at = "queue",
                           !.refused = @ \/ (refuse /\ Top.cur # "held")]
        <5>1. f \in Frame /\ f.timeout = Top.timeout
          BY <3>1 DEF Frame
        <5>2. SetTop(f)
          BY <4>1 DEF HandlerDone
        <5> QED
          BY <5>1, <5>2
      <4>2. ASSUME NEW at \in {"handler", "loop"}, SetTop([Top EXCEPT !.at = at])
            PROVE  \E f \in Frame : f.timeout = Top.timeout /\ SetTop(f)
        <5>1. [Top EXCEPT !.at = at] \in Frame
          BY <3>1 DEF Frame
        <5>2. [Top EXCEPT !.at = at].timeout = Top.timeout
          BY <3>1 DEF Frame
        <5> QED
          BY <4>2, <5>1, <5>2
      <4>3. CASE RunLoop
        BY <4>2, <4>3 DEF RunLoop
      <4>4. CASE EndLoop
        BY <4>2, <4>4 DEF EndLoop
      <4> QED
        BY <2>2, <4>1, <4>3, <4>4 DEF Handler
    <3> QED
      BY <1>1, <3>1, <3>2, TopStep DEF Inv
  <2> QED
    BY <2>1, <2>2
<1> QED
  BY <1>1, <1>2
  DEF Inv, TypeOK, ResolvedInQueue, NoremapIsResolved, UniqueLhs, SameLhs

\* The other sources of the main loop: keys, strings, mode switches and changes
\* of the mapping table.
LEMMA ExternalStep ==
    ASSUME Inv, External
    PROVE  Inv'
<1>1. CASE \E keys \in Typed : PressKey(keys)
  <2>1. PICK keys \in Typed : PressKey(keys)
    BY <1>1
  <2>2. keys \in Seq(Byte) /\ Call(keys, "event", TRUE, TRUE)
    BY <2>1, KeyMapAssumption DEF PressKey
  <2>3. "event" \in Tag \ {"noremap"}
    BY DEF Tag
  <2>4. /\ queue' \in Seq(QueuedKey) /\ timer' \in BOOLEAN
        /\ stack' \in Seq(Frame)
        /\ ResolvedInQueue' /\ UntimedIsFlushed' /\ NoremapIsResolved'
    BY <2>2, <2>3, CallStep
  <2>5. TypeOK' /\ UniqueLhs'
    BY <2>1, <2>4
    DEF Inv, TypeOK, PressKey, Call, QueuedKey, UniqueLhs, SameLhs
  <2> QED
    BY <2>4, <2>5 DEF Inv
<1>2. CASE \E keys \in Strings, bang \in BOOLEAN : RunNormal(keys, bang)
  <2>1. PICK keys \in Strings, bang \in BOOLEAN : RunNormal(keys, bang)
    BY <1>2
  <2> DEFINE tag == IF bang THEN "bang" ELSE "string"
  <2>2. keys \in Seq(Byte) /\ Call(keys, tag, ~bang, FALSE)
    BY <2>1, KeyMapAssumption DEF RunNormal
  <2>3. tag \in Tag \ {"noremap"} /\ (~bang) \in BOOLEAN
    BY DEF Tag
  <2> HIDE DEF tag
  <2>4. /\ queue' \in Seq(QueuedKey) /\ timer' \in BOOLEAN
        /\ stack' \in Seq(Frame)
        /\ ResolvedInQueue' /\ UntimedIsFlushed' /\ NoremapIsResolved'
    BY <2>2, <2>3, CallStep
  <2>5. mode' \in Mode /\ nomap' \in BOOLEAN
    BY <2>1, KeyMapAssumption DEF RunNormal, Enter, Inv, TypeOK
  <2>6. TypeOK' /\ UniqueLhs'
    BY <2>1, <2>4, <2>5
    DEF Inv, TypeOK, RunNormal, Call, QueuedKey, UniqueLhs, SameLhs
  <2> QED
    BY <2>4, <2>6 DEF Inv
<1>3. CASE \E keys \in Strings : RunHintCommand(keys)
  <2>1. PICK keys \in Strings : RunHintCommand(keys)
    BY <1>3
  <2>2. keys \in Seq(Byte) /\ Call(keys, "string", TRUE, FALSE)
    BY <2>1, KeyMapAssumption DEF RunHintCommand
  <2>3. "string" \in Tag \ {"noremap"}
    BY DEF Tag
  <2>4. /\ queue' \in Seq(QueuedKey) /\ timer' \in BOOLEAN
        /\ stack' \in Seq(Frame)
        /\ ResolvedInQueue' /\ UntimedIsFlushed' /\ NoremapIsResolved'
    BY <2>2, <2>3, CallStep
  <2>5. TypeOK' /\ UniqueLhs'
    BY <2>1, <2>4
    DEF Inv, TypeOK, RunHintCommand, Call, QueuedKey, UniqueLhs, SameLhs
  <2> QED
    BY <2>4, <2>5 DEF Inv
<1>4. CASE \E m \in Mode : EnterMode(m)
  <2>1. mode' \in Mode /\ nomap' \in BOOLEAN
    BY <1>4 DEF Inv, TypeOK, EnterMode, Enter
  <2> QED
    BY <1>4, <2>1
    DEF Inv, TypeOK, ResolvedInQueue, UntimedIsFlushed, NoremapIsResolved,
        UniqueLhs, SameLhs, EnterMode
<1>5. CASE OtherTabFlag
  BY <1>5
  DEF Inv, TypeOK, ResolvedInQueue, UntimedIsFlushed, NoremapIsResolved,
      UniqueLhs, SameLhs, OtherTabFlag
<1>6. CASE \E m \in MapSet : MapInsert(m) \/ MapDelete(m)
  <2>1. PICK m \in MapSet : MapInsert(m) \/ MapDelete(m)
    BY <1>6
  <2>2. /\ UNCHANGED <<queue, resolved, timer, mode, nomap, processed, stack>>
        /\ events' = events + 1
        /\ maps' \subseteq {n \in maps : ~SameLhs(m, n)} \cup {m}
    BY <2>1 DEF MapInsert, MapDelete
  <2>3. UniqueLhs'
    BY <2>2 DEF Inv, UniqueLhs, SameLhs
  <2> QED
    BY <2>2, <2>3
    DEF Inv, TypeOK, ResolvedInQueue, UntimedIsFlushed, NoremapIsResolved
<1> QED
  BY <1>1, <1>2, <1>3, <1>4, <1>5, <1>6 DEF External

\* Every step preserves the invariant.
LEMMA InvNext == Inv /\ [Next]_vars => Inv'
<1> SUFFICES ASSUME Inv, [Next]_vars
             PROVE  Inv'
  OBVIOUS
<1>1. CASE Deliver
  BY <1>1, DeliverStep
<1>2. CASE \E m \in maps : Substitute(m)
  BY <1>2, SubstituteStep
<1>3. CASE ResolveFirst
  <2>1. Len(queue) \in Nat \ {0}
    BY <1>3, EmptySeq DEF Inv, TypeOK, ResolveFirst
  <2>2. resolved' = 1 /\ resolved <= 0 /\ queue' = queue
    BY <1>3 DEF ResolveFirst
  <2>3. ResolvedInQueue'
    BY <2>1, <2>2 DEF ResolvedInQueue
  <2>4. NoremapIsResolved'
    <3>1. \A i \in 1..Len(queue) : queue[i].tag = "noremap" => i <= 1
      BY <2>1, <2>2 DEF Inv, TypeOK, NoremapIsResolved
    <3> QED
      BY <2>2, <3>1 DEF NoremapIsResolved
  <2> QED
    BY <1>3, <2>2, <2>3, <2>4
    DEF Inv, TypeOK, UntimedIsFlushed, UniqueLhs, SameLhs, ResolveFirst
<1>4. CASE Return \/ ReturnAmbiguous
  BY <1>4, ReturnStep
<1>5. CASE Handler
  BY <1>5, HandlerStep
<1>6. CASE External
  BY <1>6, ExternalStep
<1>7. CASE Timeout
  <2>1. <<>> \in Seq(Byte) /\ Call(<<>>, "held", TRUE, FALSE)
    <3>1. <<>> \in Seq(Byte)
      BY EmptySeq
    <3> QED
      BY <1>7, <3>1 DEF Timeout
  <2>2. "held" \in Tag \ {"noremap"}
    BY DEF Tag
  <2>3. /\ queue' \in Seq(QueuedKey) /\ timer' \in BOOLEAN
        /\ stack' \in Seq(Frame)
        /\ ResolvedInQueue' /\ UntimedIsFlushed' /\ NoremapIsResolved'
    BY <2>1, <2>2, CallStep
  <2>4. TypeOK' /\ UniqueLhs'
    BY <1>7, <2>3
    DEF Inv, TypeOK, Timeout, Call, QueuedKey, UniqueLhs, SameLhs
  <2> QED
    BY <2>3, <2>4 DEF Inv
<1>8. CASE UNCHANGED vars
  BY <1>8
  DEF vars, Inv, TypeOK, ResolvedInQueue, UntimedIsFlushed, NoremapIsResolved,
      UniqueLhs, SameLhs
<1> QED
  BY <1>1, <1>2, <1>3, <1>4, <1>5, <1>6, <1>7, <1>8 DEF Next, Iterate

\* A new client has an empty queue and one mapping per lhs.
LEMMA InvInit == Init => Inv
<1> SUFFICES ASSUME Init
             PROVE  Inv
  OBVIOUS
<1>1. queue = <<>> /\ Len(queue) = 0 /\ stack = <<>>
  BY DEF Init
<1>2. TypeOK
  <2>1. queue \in Seq([key : Byte, tag : Tag]) /\ stack \in Seq(Frame)
    BY <1>1, EmptySeq
  <2>2. resolved \in Int /\ resolved >= -2 /\ events \in Nat
    BY DEF Init
  <2>3. /\ maps \subseteq MapSet /\ mode \in Mode
        /\ timer \in BOOLEAN /\ nomap \in BOOLEAN /\ processed \in BOOLEAN
    BY KeyMapAssumption DEF Init
  <2> QED
    BY <2>1, <2>2, <2>3 DEF TypeOK
<1> QED
  BY <1>1, <1>2
  DEF Init, Inv, ResolvedInQueue, UntimedIsFlushed, NoremapIsResolved, UniqueLhs

-----------------------------------------------------------------------------
(* Theorems.                                                               *)

\* The invariant holds in every reachable state, for every set of mappings,
\* every handler and every nesting of calls.
THEOREM Invariance == Spec => []Inv
  BY InvInit, InvNext, PTL DEF Spec

\* The queue, the counter of resolved keys and the frames keep their types.
THEOREM TypeCorrect == Spec => []TypeOK
<1>1. Inv => TypeOK
  BY DEF Inv
<1> QED
  BY <1>1, Invariance, PTL

\* map_handle_keys never reads or erases a key beyond the end of the queue.
THEOREM QueueBound == Spec => []ResolvedInQueue
<1>1. Inv => ResolvedInQueue
  BY DEF Inv
<1> QED
  BY <1>1, Invariance, PTL

\* A queue that no call works on has a timer to flush it.
THEOREM PendingKeysAreTimed == Spec => []PendingIsTimed
<1>1. Inv => PendingIsTimed
  <2> SUFFICES ASSUME Inv, stack = <<>>, queue # <<>>, ~timer
               PROVE  FALSE
    BY DEF Inv, TypeOK, PendingIsTimed
  <2>1. PICK i \in 1..Len(stack) : stack[i].timeout
    BY DEF Inv, UntimedIsFlushed
  <2> QED
    BY <2>1
<1> QED
  BY <1>1, Invariance, PTL

\* No step replaces a key that a noremap mapping produced: while a mapping is
\* looked for, no key is resolved, so by NoremapIsResolved there is none.
THEOREM NoremapIsNotRemapped == Spec => NoremapNeverMapped
<1>1. Inv /\ [Next]_vars =>
        [\A m \in maps : Substitute(m) =>
           \A i \in 1..Len(m.in) : queue[i].tag # "noremap"]_vars
  <2> SUFFICES ASSUME Inv, NEW m \in maps, Substitute(m),
                      NEW i \in 1..Len(m.in), queue[i].tag = "noremap"
               PROVE  FALSE
    OBVIOUS
  <2>1. Len(m.in) \in 1..Len(queue) /\ Len(queue) \in Nat
    BY MatchProperties DEF Inv, Substitute
  <2>2. i \in 1..Len(queue)
    BY <2>1
  <2>3. i <= resolved /\ resolved \in Int
    BY <2>2 DEF Inv, NoremapIsResolved, TypeOK
  <2>4. resolved <= 0
    BY DEF Substitute
  <2> QED
    BY <2>2, <2>3, <2>4
<1> QED
  BY <1>1, Invariance, PTL DEF Spec, NoremapNeverMapped

\* Two longest matches are the same prefix of the queue, so they have the same
\* lhs and mode and are one entry of the table.
THEOREM LongestMatchIsUnique == Spec => []LongestIsUnique
<1>1. Inv => LongestIsUnique
  <2> SUFFICES ASSUME Inv, NEW m \in Matches, NEW n \in Matches,
                      IsLongest(m), IsLongest(n)
               PROVE  m = n
    BY DEF LongestIsUnique
  <2>1. /\ m \in maps /\ m.in \in Seq(Byte) /\ Len(m.in) \in Nat
        /\ n \in maps /\ n.in \in Seq(Byte) /\ Len(n.in) \in Nat
    BY MatchProperties, LenProperties DEF Inv
  <2>2. Len(m.in) = Len(n.in)
    BY <2>1 DEF IsLongest
  <2>3. Applies(m) /\ Applies(n)
    BY DEF Matches
  <2>4. m.in = n.in
    <3>1. SubSeq(m.in, 1, Len(m.in)) = SubSeq(n.in, 1, Len(n.in))
      BY <2>2, <2>3 DEF Applies, IsPrefix
    <3> QED
      BY <2>1, <3>1, SubSeqFull
  <2> QED
    BY <2>1, <2>3, <2>4 DEF Inv, UniqueLhs, SameLhs, Applies
<1> QED
  BY <1>1, Invariance, PTL

-----------------------------------------------------------------------------
(* Special keys.                                                           *)

\* Every introducer of the string has the two bytes of its special key behind
\* it.
Complete(s) == \A i \in 1..Len(s) : s[i] = CSI => i + 2 <= Len(s)
CompleteQueue(q) == \A i \in 1..Len(q) : q[i].key = CSI => i + 2 <= Len(q)

\* The strings that are queued hold special keys as convert_keys and
\* keyval_to_string write them, three bytes each (KeyMap does not require it:
\* the bytes of a UTF-8 character may look like an introducer).
StringsComplete ==
    /\ \A keys \in Typed \cup Strings : Complete(keys)
    /\ \A m \in MapSet : Complete(m.mapped)

\* The bytes of a complete string stay complete in the queue.
LEMMA TaggedComplete ==
    ASSUME NEW keys \in Seq(Byte), NEW tag \in Tag, Complete(keys)
    PROVE  CompleteQueue(Tagged(keys, tag))
<1>1. /\ Len(Tagged(keys, tag)) = Len(keys)
      /\ \A i \in 1..Len(keys) : Tagged(keys, tag)[i].key = keys[i]
  BY TaggedProperties
<1> QED
  BY <1>1 DEF Complete, CompleteQueue

\* Complete parts make a complete queue.
LEMMA ConcatComplete ==
    ASSUME NEW q \in Seq(QueuedKey), NEW r \in Seq(QueuedKey),
           CompleteQueue(q), CompleteQueue(r)
    PROVE  CompleteQueue(q \o r)
<1>1. /\ Len(q \o r) = Len(q) + Len(r)
      /\ \A i \in 1..(Len(q) + Len(r)) :
           (q \o r)[i] = IF i <= Len(q) THEN q[i] ELSE r[i - Len(q)]
      /\ Len(q) \in Nat /\ Len(r) \in Nat
  BY ConcatProperties, LenProperties
<1> SUFFICES ASSUME NEW i \in 1..(Len(q) + Len(r)), (q \o r)[i].key = CSI
             PROVE  i + 2 <= Len(q) + Len(r)
  BY <1>1 DEF CompleteQueue
<1>2. CASE i <= Len(q)
  <2>1. i \in 1..Len(q) /\ q[i].key = CSI
    BY <1>1, <1>2
  <2> QED
    BY <1>1, <2>1 DEF CompleteQueue
<1>3. CASE i > Len(q)
  <2>1. i - Len(q) \in 1..Len(r) /\ r[i - Len(q)].key = CSI
    BY <1>1, <1>3
  <2>2. (i - Len(q)) + 2 <= Len(r)
    BY <2>1 DEF CompleteQueue
  <2> QED
    BY <1>1, <2>2
<1> QED
  BY <1>1, <1>2, <1>3

\* What is left of a complete queue is complete, wherever it is cut.
LEMMA DropComplete ==
    ASSUME NEW q \in Seq(QueuedKey), NEW n \in 0..Len(q), CompleteQueue(q)
    PROVE  CompleteQueue(Drop(q, n))
<1>1. /\ Len(Drop(q, n)) = Len(q) - n
      /\ \A i \in 1..(Len(q) - n) : Drop(q, n)[i] = q[n + i]
      /\ Len(q) \in Nat
  BY DropProperties, LenProperties
<1> SUFFICES ASSUME NEW i \in 1..(Len(q) - n), Drop(q, n)[i].key = CSI
             PROVE  i + 2 <= Len(q) - n
  BY <1>1 DEF CompleteQueue
<1>2. n + i \in 1..Len(q) /\ q[n + i].key = CSI
  BY <1>1
<1>3. (n + i) + 2 <= Len(q)
  BY <1>2 DEF CompleteQueue
<1> QED
  BY <1>1, <1>3

\* A call appends a whole string.
LEMMA CallComplete ==
    ASSUME TypeOK, CompleteQueue(queue),
           NEW keys \in Seq(Byte), Complete(keys), NEW tag \in Tag,
           NEW useMap, NEW press, Call(keys, tag, useMap, press)
    PROVE  CompleteQueue(queue')
<1>1. queue' = queue \o Tagged(keys, tag)
  BY DEF Call
<1>2. queue \in Seq(QueuedKey) /\ Tagged(keys, tag) \in Seq(QueuedKey)
  BY TaggedProperties DEF TypeOK, QueuedKey
<1> QED
  BY <1>1, <1>2, TaggedComplete, ConcatComplete

\* Every step keeps the queue complete: sending keys cuts it somewhere, and a
\* substitution puts a whole rhs in front of a rest of it.
LEMMA CompleteNext ==
    ASSUME StringsComplete, Inv, CompleteQueue(queue), [Next]_vars
    PROVE  CompleteQueue(queue')
<1>1. queue \in Seq(QueuedKey) /\ Len(queue) \in Nat
  BY LenProperties DEF Inv, TypeOK, QueuedKey
<1>2. CASE queue' = queue
  BY <1>2
<1>3. CASE Deliver
  <2>1. PICK n \in 0..Len(queue) : queue' = Drop(queue, n)
    <3> DEFINE n == IF queue[1].key = CSI /\ Len(queue) >= 3 THEN 3 ELSE 1
    <3>1. queue' = Drop(queue, n)
      BY <1>3 DEF Deliver
    <3>2. n \in 0..Len(queue)
      BY <1>1, <1>3 DEF Inv, TypeOK, ResolvedInQueue, Deliver
    <3> HIDE DEF n
    <3> QED
      BY <3>1, <3>2
  <2> QED
    BY <1>1, <2>1, DropComplete
<1>4. ASSUME NEW m \in maps, Substitute(m)
      PROVE  CompleteQueue(queue')
  <2>1. /\ m.mapped \in Seq(Byte) /\ Len(m.in) \in 0..Len(queue)
        /\ m \in MapSet
    BY <1>4, <1>1, MatchProperties DEF Inv, TypeOK, Substitute
  <2>2. PICK t \in Tag : queue' = Tagged(m.mapped, t) \o Drop(queue, Len(m.in))
    BY <1>4 DEF Substitute, Tag
  <2>3. CompleteQueue(Tagged(m.mapped, t))
    BY <2>1, TaggedComplete DEF StringsComplete
  <2>4. /\ CompleteQueue(Drop(queue, Len(m.in)))
        /\ Drop(queue, Len(m.in)) \in Seq(QueuedKey)
    BY <1>1, <2>1, DropComplete, DropProperties
  <2>5. Tagged(m.mapped, t) \in Seq(QueuedKey)
    BY <2>1, TaggedProperties
  <2> QED
    BY <2>2, <2>3, <2>4, <2>5, ConcatComplete
<1>5. CASE ReturnAmbiguous
  <2>1. \A i \in 1..Len(queue) : queue[i] \in QueuedKey
    BY <1>1, ElementOfSeq
  <2> DEFINE q == [i \in 1..Len(queue) |->
                     IF queue[i].tag = "event"
                     THEN [queue[i] EXCEPT !.tag = "held"] ELSE queue[i]]
  <2>2. queue' = q \/ queue' = queue
    BY <1>5 DEF ReturnAmbiguous
  <2>3. q \in [1..Len(queue) -> QueuedKey]
    BY <2>1 DEF QueuedKey, Tag
  <2>4. \A i \in 1..Len(queue) : q[i].key = queue[i].key
    BY <2>1 DEF QueuedKey
  <2> HIDE DEF q
  <2>5. Len(q) = Len(queue)
    BY <1>1, <2>3, FunctionIsSeq
  <2>6. CompleteQueue(q)
    BY <2>4, <2>5 DEF CompleteQueue
  <2> QED
    BY <2>2, <2>6
<1>6. ASSUME NEW keys \in Typed, PressKey(keys)
      PROVE  CompleteQueue(queue')
  <2>1. keys \in Seq(Byte) /\ Complete(keys) /\ Call(keys, "event", TRUE, TRUE)
    BY <1>6, KeyMapAssumption DEF StringsComplete, PressKey
  <2>2. "event" \in Tag
    BY DEF Tag
  <2> QED
    BY <2>1, <2>2, CallComplete DEF Inv
<1>7. ASSUME NEW keys \in Strings, NEW bang \in BOOLEAN, RunNormal(keys, bang)
      PROVE  CompleteQueue(queue')
  <2> DEFINE t == IF bang THEN "bang" ELSE "string"
  <2>1. keys \in Seq(Byte) /\ Complete(keys) /\ Call(keys, t, ~bang, FALSE)
    BY <1>7, KeyMapAssumption DEF StringsComplete, RunNormal
  <2>2. t \in Tag
    BY DEF Tag
  <2> HIDE DEF t
  <2> QED
    BY <2>1, <2>2, CallComplete DEF Inv
<1>8. ASSUME NEW keys \in Strings, RunHintCommand(keys)
      PROVE  CompleteQueue(queue')
  <2>1. keys \in Seq(Byte) /\ Complete(keys) /\ Call(keys, "string", TRUE, FALSE)
    BY <1>8, KeyMapAssumption DEF StringsComplete, RunHintCommand
  <2>2. "string" \in Tag
    BY DEF Tag
  <2> QED
    BY <2>1, <2>2, CallComplete DEF Inv
<1>9. CASE Timeout
  <2>1. <<>> \in Seq(Byte) /\ Complete(<<>>)
    BY EmptySeq DEF Complete
  <2>2. Call(<<>>, "held", TRUE, FALSE) /\ "held" \in Tag
    BY <1>9 DEF Timeout, Tag
  <2> QED
    BY <2>1, <2>2, CallComplete DEF Inv
<1>10. ASSUME Return \/ ResolveFirst \/ Handler \/ UNCHANGED vars
       PROVE  queue' = queue
  BY <1>10 DEF Return, ResolveFirst, Handler, HandlerDone, SetNomap, RunLoop,
               EndLoop, vars
<1>11. ASSUME NEW m, EnterMode(m) \/ OtherTabFlag \/ MapInsert(m) \/ MapDelete(m)
       PROVE  queue' = queue
  BY <1>11 DEF EnterMode, OtherTabFlag, MapInsert, MapDelete
<1>12. CASE Iterate
  BY <1>2, <1>3, <1>4, <1>5, <1>10, <1>12 DEF Iterate
<1>13. CASE External
  BY <1>2, <1>6, <1>7, <1>8, <1>11, <1>13 DEF External
<1> QED
  BY <1>2, <1>9, <1>10, <1>12, <1>13 DEF Next

\* A special key reaches the handler with both of its bytes, whatever mappings
\* rewrite the queue, however calls nest and whatever the counter of resolved
\* keys says, if no string holds a part of one.
THEOREM SpecialKeysAreWhole ==
    ASSUME StringsComplete
    PROVE  Spec => SpecialKeysWhole
<1>1. Init => CompleteQueue(queue)
  BY DEF Init, CompleteQueue
<1>2. Inv /\ CompleteQueue(queue) /\ [Next]_vars => CompleteQueue(queue)'
  BY CompleteNext
<1>3. Inv /\ CompleteQueue(queue) /\ [Next]_vars =>
        [Deliver /\ queue[1].key = CSI =>
           Len(queue) >= 3 /\ queue' = Drop(queue, 3)]_vars
  <2> SUFFICES ASSUME Inv, CompleteQueue(queue), Deliver, queue[1].key = CSI
               PROVE  Len(queue) >= 3 /\ queue' = Drop(queue, 3)
    OBVIOUS
  <2>1. 1 \in 1..Len(queue) /\ Len(queue) \in Nat
    BY LenProperties DEF Inv, TypeOK, ResolvedInQueue, Deliver
  <2>2. Len(queue) >= 3
    BY <2>1 DEF CompleteQueue
  <2> QED
    BY <2>2 DEF Deliver
<1> QED
  BY <1>1, <1>2, <1>3, Invariance, PTL DEF Spec, SpecialKeysWhole
=============================================================================
