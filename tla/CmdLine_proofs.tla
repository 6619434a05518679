-------------------------- MODULE CmdLine_proofs ---------------------------
(* What holds of CmdLine for all commands, histories, keys and bounds.       *)
EXTENDS CmdLine, SequenceTheorems, WellFoundedInduction, TLAPS

-----------------------------------------------------------------------------
(* The invariant.                                                            *)

AllRequests == [text : Text, step : BOOLEAN]
AllSearches == [active : BOOLEAN, last : Text, awaited : Nat, matches : Text, raced : BOOLEAN]
AllLists == [items : Seq(Text), sel : Nat, active : Nat]
AllComps == [prefix : Text, token : Text, count : Text, current : Text, started : Text]
AllWalks == [items : Seq(Text), at : Nat, prefix : Prompts]

InputOK ==
    /\ mode \in {"normal", "command"}
    /\ text \in Text
    /\ timer \in BOOLEAN /\ lost \in 0 .. MaxLost
    /\ incsearch \in BOOLEAN
HistoryOK ==
    /\ lines \in [Prompts -> Seq(Text)]
    /\ walk \in AllWalks
    /\ walk # NoWalk => walk.at \in DOMAIN walk.items
SearchOK ==
    /\ search \in AllSearches
    /\ pending \in Seq(AllRequests) /\ Len(pending) <= MaxPending
    /\ search.awaited <= Len(pending)
    /\ register \in Text
ListOK ==
    /\ list \in AllLists
    /\ list.sel <= Len(list.items) /\ list.active <= Len(list.items) + 1
    /\ comp \in AllComps

\* What the completion shows, in the terms of what it was started with; it does
\* not speak of the text, which goes on to change.
CompOf(l, c) ==
    /\ c.prefix # <<>>
    /\ c.current = Shown(c, IF l.sel = 0 THEN c.token ELSE l.items[l.sel])
    /\ c.started = c.prefix \o c.token
ListIsOfPrompt == list # Closed => Focused /\ CompOf(list, comp)

\* In the prompt: its text begins with it, nothing clears it, and nothing is
\* searched for if the setting is off.
PromptOK ==
    Focused => /\ ~timer
               /\ text # <<>> => text[1] \in Prompts
               /\ ~incsearch => ~search.active

\* The answers that are awaited are the first ones to come, and the last one of
\* them, or the one that was counted last, is that of the last search.
Tracked(s, p) ==
    ~s.raced =>
        /\ \A i \in DOMAIN p : p[i].step <=> i > s.awaited
        /\ s.awaited > 0 => p[s.awaited].text = s.last
        /\ s.awaited = 0 /\ s.last # None => s.matches = s.last
SearchIsTracked == Tracked(search, pending)

Inv == /\ InputOK /\ HistoryOK /\ SearchOK /\ ListOK
       /\ ListIsOfPrompt /\ PromptOK /\ SearchIsTracked

-----------------------------------------------------------------------------
(* Sets of numbers, and functions that are defined step by step.             *)

\* A set of numbers that is not empty has a least one.
LEMMA LeastNumber ==
    ASSUME NEW T, T \subseteq Nat, T # {}
    PROVE  \E x \in T : \A y \in T : x <= y
  <1> DEFINE R == OpToRel(<, Nat)
  <1>1. IsWellFoundedOn(R, Nat)
    BY NatLessThanWellFounded
  <1> HIDE DEF R
  <1>2. PICK x \in T : \A y \in T : ~ (<<y, x>> \in R)
    BY <1>1, WFMin
  <1>3. \A y \in T : y < x => <<y, x>> \in R
    BY DEF R, OpToRel
  <1>4. \A y \in T : ~ (y < x)
    BY <1>2, <1>3
  <1>5. \A y \in T : x <= y
    BY <1>4
  <1> QED
    BY <1>5

\* A set that has 0 and with each number the next one has all numbers.
LEMMA AllNumbers ==
    ASSUME NEW S, 0 \in S, \A n \in Nat : n \in S => n + 1 \in S
    PROVE  Nat \subseteq S
  <1> DEFINE T == Nat \ S
  <1> SUFFICES ASSUME T # {} PROVE FALSE
    OBVIOUS
  <1>1. T \subseteq Nat
    OBVIOUS
  <1> HIDE DEF T
  <1>2. PICK x \in T : \A y \in T : x <= y
    BY <1>1, LeastNumber
  <1>3. x \in Nat /\ x # 0
    BY <1>1 DEF T
  <1>4. x - 1 \in Nat /\ (x - 1) + 1 = x /\ ~ (x <= x - 1)
    BY <1>3
  <1>5. x - 1 \in T
    BY <1>3, <1>4 DEF T
  <1> QED
    BY <1>2, <1>4, <1>5

\* A function whose values are made one from the other exists.
LEMMA Iterate ==
    ASSUME NEW S, NEW a \in S, NEW n \in Nat, NEW G \in [1 .. n -> [S -> S]]
    PROVE  \E f \in [0 .. n -> S] : f[0] = a /\ \A i \in 1 .. n : f[i] = G[i][f[i - 1]]
  <1> DEFINE Good == {k \in Nat : k <= n => \E f \in [0 .. k -> S] :
                         f[0] = a /\ \A i \in 1 .. k : f[i] = G[i][f[i - 1]]}
  <1>1. 0 \in Good
    <2> DEFINE f == [i \in 0 .. 0 |-> a]
    <2>1. f \in [0 .. 0 -> S] /\ f[0] = a /\ 1 .. 0 = {}
      OBVIOUS
    <2> QED
      BY <2>1
  <1>2. ASSUME NEW k \in Nat, k \in Good PROVE k + 1 \in Good
    <2> SUFFICES ASSUME k + 1 <= n
                 PROVE  \E f \in [0 .. k + 1 -> S] :
                            f[0] = a /\ \A i \in 1 .. k + 1 : f[i] = G[i][f[i - 1]]
      OBVIOUS
    <2>1. PICK f \in [0 .. k -> S] : f[0] = a /\ \A i \in 1 .. k : f[i] = G[i][f[i - 1]]
      BY <1>2
    <2> DEFINE g == [i \in 0 .. k + 1 |-> IF i = k + 1 THEN G[k + 1][f[k]] ELSE f[i]]
    <2>2. f[k] \in S /\ G[k + 1] \in [S -> S]
      OBVIOUS
    <2>3. g \in [0 .. k + 1 -> S]
      BY <2>2
    <2>4. g[0] = a
      BY <2>1
    <2>5. ASSUME NEW i \in 1 .. k + 1 PROVE g[i] = G[i][g[i - 1]]
      <3>1. CASE i = k + 1
        <4>1. i \in 0 .. k + 1 /\ k \in 0 .. k + 1 /\ i - 1 = k /\ k # k + 1
          BY <3>1
        <4>2. g[k + 1] = G[k + 1][f[k]]
          BY <3>1, <4>1, Zenon
        <4>3. g[k] = f[k]
          BY <4>1, Zenon
        <4> QED
          BY <3>1, <4>1, <4>2, <4>3, Zenon
      <3>2. CASE i # k + 1
        <4>1. i \in 1 .. k /\ i - 1 \in 0 .. k + 1 /\ i - 1 # k + 1
          BY <3>2
        <4> QED
          BY <2>1, <4>1
      <3> QED
        BY <3>1, <3>2
    <2> HIDE DEF g
    <2> QED
      BY <2>3, <2>4, <2>5
  <1> HIDE DEF Good
  <1>3. n \in Good
    BY <1>1, <1>2, AllNumbers
  <1> QED
    BY <1>3 DEF Good


\* What is made step by step stays in a set that the steps do not leave.
LEMMA StaysIn ==
    ASSUME NEW T, NEW n \in Nat, NEW F, F[0] \in T,
           \A i \in 1 .. n : F[i - 1] \in T => F[i] \in T
    PROVE  \A i \in 0 .. n : F[i] \in T
  <1> DEFINE Good == {k \in Nat : k <= n => F[k] \in T}
  <1>1. 0 \in Good
    OBVIOUS
  <1>2. ASSUME NEW k \in Nat, k \in Good PROVE k + 1 \in Good
    <2> SUFFICES ASSUME k + 1 <= n PROVE F[k + 1] \in T
      OBVIOUS
    <2>1. F[k] \in T /\ k + 1 \in 1 .. n /\ (k + 1) - 1 = k
      BY <1>2
    <2> QED
      BY <2>1
  <1> HIDE DEF Good
  <1>3. Nat \subseteq Good
    BY <1>1, <1>2, AllNumbers
  <1> QED
    BY <1>3 DEF Good

-----------------------------------------------------------------------------
(* The operators of completion.                                              *)

\* What is kept are items, and those of the set.
LEMMA KeptType ==
    ASSUME NEW S, NEW items \in Seq(S), NEW set
    PROVE  Kept(items, set) \in Seq(S \cap set) /\ Kept(items, set) \in Seq(S)
  <1> DEFINE none == <<>>
             n == Len(items)
             T == Seq(S \cap set)
             Step(i, t) == IF items[i] \in set THEN Append(t, items[i]) ELSE t
             P(F) == F = [i \in 0 .. n |-> IF i = 0 THEN none ELSE Step(i, F[i - 1])]
             G == [i \in 1 .. n |-> [t \in T |-> Step(i, t)]]
  <1>1. n \in Nat /\ none \in T
    OBVIOUS
  <1>2. G \in [1 .. n -> [T -> T]]
    OBVIOUS
  <1>3. \A i \in 1 .. n, t \in T : G[i][t] = Step(i, t) /\ Step(i, t) \in T
    OBVIOUS
  <1> HIDE DEF G, T, n, Step, none
  <1> HIDE DEF P
  <1>4. PICK f \in [0 .. n -> T] : f[0] = none /\ \A i \in 1 .. n : f[i] = G[i][f[i - 1]]
    <2>1. \E f \in [0 .. n -> T] : f[0] = none /\ \A i \in 1 .. n : f[i] = G[i][f[i - 1]]
      BY <1>1, <1>2, Iterate
    <2> QED
      BY <2>1
  <1>5. \A i \in 1 .. n : f[i] = Step(i, f[i - 1])
    BY <1>1, <1>3, <1>4
  <1>6. P(f)
    <2>1. \A i \in 0 .. n : f[i] = IF i = 0 THEN none ELSE Step(i, f[i - 1])
      BY <1>1, <1>4, <1>5
    <2>2. f = [i \in 0 .. n |-> f[i]]
      BY <1>4
    <2> QED
      BY <2>1, <2>2, Zenon DEF P
  <1> DEFINE F == CHOOSE g : P(g)
  <1>7. P(F)
    BY <1>6, Zenon
  <1>8. Kept(items, set) = F[n]
    BY Zenon DEF Kept, n, Step, P, none
  <1>9. F \in [0 .. n -> T] /\ F[0] = none /\ \A i \in 1 .. n : F[i] = Step(i, F[i - 1])
    <2>1. F = [i \in 0 .. n |-> IF i = 0 THEN none ELSE Step(i, F[i - 1])]
      BY <1>7 DEF P
    <2> HIDE DEF F
    <2>2. \A i \in 0 .. n : F[i] = IF i = 0 THEN none ELSE Step(i, F[i - 1])
      BY <2>1, Zenon
    <2>3. F[0] = none /\ \A i \in 1 .. n : F[i] = Step(i, F[i - 1])
      BY <1>1, <2>2
    <2>4. \A i \in 1 .. n : F[i - 1] \in T => F[i] \in T
      BY <1>3, <2>3
    <2>5. \A i \in 0 .. n : F[i] \in T
      BY <1>1, <2>3, <2>4, StaysIn
    <2> QED
      BY <2>1, <2>3, <2>5
  <1> HIDE DEF F
  <1>10. F[n] \in T
    BY <1>1, <1>9
  <1>11. Kept(items, set) \in Seq(S \cap set)
    BY <1>8, <1>10 DEF T
  <1> QED
    BY <1>11

\* The lines of a history that are walked through are texts.
LEMMA NewestType ==
    ASSUME NEW file \in Seq(Text)
    PROVE  Newest(file) \in Seq(Text)
  <1> DEFINE none == <<>>
             n == Len(file)
             T == Seq(Text)
             Step(i, t) == IF file[i] = <<>> THEN t
                           ELSE <<file[i]>> \o Kept(t, Range(file) \ {file[i]})
             P(F) == F = [i \in 0 .. n |-> IF i = 0 THEN none ELSE Step(i, F[i - 1])]
             G == [i \in 1 .. n |-> [t \in T |-> Step(i, t)]]
  <1>1. n \in Nat /\ none \in T
    OBVIOUS
  <1>2. \A i \in 1 .. n, t \in T : Step(i, t) \in T
    <2> SUFFICES ASSUME NEW i \in 1 .. n, NEW t \in T PROVE Step(i, t) \in T
      OBVIOUS
    <2> DEFINE others == Range(file) \ {file[i]}
    <2>1. t \in Seq(Text)
      OBVIOUS
    <2> HIDE DEF T, others, n
    <2>4. Kept(t, others) \in Seq(Text)
      BY <2>1, KeptType
    <2>2. file[i] \in Text
      BY DEF n
    <2>3. <<file[i]>> \o Kept(t, others) \in Seq(Text)
      BY <2>2, <2>4
    <2> QED
      BY <2>1, <2>3 DEF T, others
  <1> HIDE DEF T, n, Step, none, P
  <1>3. \A i \in 1 .. n, t \in T : G[i][t] = Step(i, t)
    OBVIOUS
  <1>11. G \in [1 .. n -> [T -> T]]
    BY <1>2
  <1> HIDE DEF G
  <1>4. PICK f \in [0 .. n -> T] : f[0] = none /\ \A i \in 1 .. n : f[i] = G[i][f[i - 1]]
    <2>1. \E f \in [0 .. n -> T] : f[0] = none /\ \A i \in 1 .. n : f[i] = G[i][f[i - 1]]
      BY <1>1, <1>11, Iterate
    <2> QED
      BY <2>1
  <1>5. \A i \in 1 .. n : f[i] = Step(i, f[i - 1])
    BY <1>1, <1>3, <1>4
  <1>6. P(f)
    <2>1. \A i \in 0 .. n : f[i] = IF i = 0 THEN none ELSE Step(i, f[i - 1])
      BY <1>1, <1>4, <1>5
    <2>2. f = [i \in 0 .. n |-> f[i]]
      BY <1>4
    <2> QED
      BY <2>1, <2>2, Zenon DEF P
  <1> DEFINE F == CHOOSE g : P(g)
  <1>7. P(F)
    BY <1>6, Zenon
  <1>8. Newest(file) = F[n]
    BY Zenon DEF Newest, n, Step, P, none
  <1>9. \A i \in 0 .. n : F[i] \in T
    <2>1. F = [i \in 0 .. n |-> IF i = 0 THEN none ELSE Step(i, F[i - 1])]
      BY <1>7 DEF P
    <2> HIDE DEF F
    <2>2. \A i \in 0 .. n : F[i] = IF i = 0 THEN none ELSE Step(i, F[i - 1])
      BY <2>1, Zenon
    <2>3. F[0] = none /\ \A i \in 1 .. n : F[i] = Step(i, F[i - 1])
      BY <1>1, <2>2
    <2>4. \A i \in 1 .. n : F[i - 1] \in T => F[i] \in T
      BY <1>2, <2>3
    <2> QED
      BY <1>1, <2>3, <2>4, StaysIn
  <1> HIDE DEF F
  <1>10. F[n] \in T
    BY <1>1, <1>9
  <1> QED
    BY <1>8, <1>10 DEF T

\* The items that begin with a text are texts.
LEMMA StartWithType ==
    ASSUME NEW items \in Seq(Text), NEW t
    PROVE  StartWith(items, t) \in Seq(Text)
  BY KeptType DEF StartWith

\* The first place with one of the characters is not behind the end of the text
\* by more than one.
LEMMA FirstPlace ==
    ASSUME NEW t \in Text, NEW i \in Nat, i <= Len(t) + 1, NEW chars
    PROVE  /\ First(t, i, chars) \in i .. Len(t) + 1
           /\ First(t, i, chars) <= Len(t) => t[First(t, i, chars)] \in chars
  <1> DEFINE n == Len(t)
             At == {j \in i .. n + 1 : j <= n => t[j] \in chars}
  <1>1. n \in Nat /\ n + 1 \in At /\ At \subseteq Nat
    BY DEF Text
  <1>2. PICK j \in At : \A k \in At : j <= k
    <2> HIDE DEF At
    <2>1. At # {}
      BY <1>1
    <2> QED
      BY <1>1, <2>1, LeastNumber
  <1>3. /\ j \in i .. n + 1
        /\ j <= n => t[j] \in chars
        /\ \A k \in i .. j - 1 : t[k] \notin chars
    <2>1. j \in i .. n + 1 /\ (j <= n => t[j] \in chars)
      BY <1>2
    <2>2. ASSUME NEW k \in i .. j - 1, t[k] \in chars PROVE FALSE
      <3>1. k \in i .. n + 1 /\ k < j /\ k \in Int
        BY <1>1, <2>1
      <3>2. k \in At
        BY <2>2, <3>1
      <3>3. j <= k
        BY <1>2, <3>2
      <3> QED
        BY <2>1, <3>1, <3>3
    <2> QED
      BY <2>1, <2>2
  <1> HIDE DEF At
  <1> DEFINE Is(k) == /\ k <= n => t[k] \in chars
                      /\ \A m \in i .. k - 1 : t[m] \notin chars
             f == CHOOSE k \in i .. n + 1 : Is(k)
  <1>4. f \in i .. n + 1 /\ Is(f)
    BY <1>3, Zenon
  <1>5. First(t, i, chars) = f
    BY Zenon DEF First
  <1> HIDE DEF f
  <1> QED
    BY <1>4, <1>5

-----------------------------------------------------------------------------
(* Texts.                                                                    *)

\* Parts of texts and texts put together are texts.
LEMMA TextTypes ==
    ASSUME NEW t \in Text
    PROVE  /\ \A m \in Nat, n \in 0 .. Len(t) : m >= 1 => SubSeq(t, m, n) \in Text
           /\ \A u \in Text : t \o u \in Text
           /\ \A c \in Char : <<c>> \o t \in Text /\ Append(t, c) \in Text /\ <<c>> \in Text
           /\ t # <<>> => Rest(t) \in Text /\ Front(t) \in Text /\ t[1] \in Char
           /\ <<>> \in Text /\ None \in Text /\ Message \in Text
  <1>1. \A m \in Nat, n \in 0 .. Len(t) : m >= 1 => SubSeq(t, m, n) \in Text
    BY DEF Text
  <1>2. \A u \in Text : t \o u \in Text
    BY DEF Text
  <1>3. ASSUME NEW c \in Char
        PROVE  <<c>> \o t \in Text /\ Append(t, c) \in Text /\ <<c>> \in Text
    <2>1. <<c>> \in Text
      BY DEF Text
    <2>2. <<c>> \o t \in Text
      BY <2>1, ConcatProperties DEF Text
    <2>3. Append(t, c) \in Text
      BY AppendProperties DEF Text
    <2> QED
      BY <2>1, <2>2, <2>3
  <1>4. t # <<>> => Rest(t) \in Text /\ t[1] \in Char
    BY DEF Text, Rest
  <1>5. t # <<>> => Front(t) \in Text
    BY <1>1 DEF Text, Front
  <1>6. <<>> \in Text
    BY DEF Text
  <1>8. None \in Text /\ Message \in Text
    BY CmdLineAssumption
  <1> QED
    BY <1>1, <1>2, <1>3, <1>4, <1>5, <1>6, <1>8

\* Two parts of a text make up the text.
LEMMA TextIsItsParts ==
    ASSUME NEW t \in Text, NEW n \in 0 .. Len(t)
    PROVE  SubSeq(t, 1, n) \o From(t, n + 1) = t
  <1>1. Len(t) \in Nat /\ SubSeq(t, 1, Len(t)) = t
    BY SubSeqFull, LenProperties DEF Text
  <1>2. 1 \in 1 .. Len(t) + 1 /\ n \in 1 - 1 .. Len(t) /\ Len(t) \in n .. Len(t)
    BY <1>1
  <1>3. SubSeq(t, 1, n) \o SubSeq(t, n + 1, Len(t)) = SubSeq(t, 1, Len(t))
    BY <1>2, ConcatAdjacentSubSeq DEF Text
  <1> QED
    BY <1>1, <1>3 DEF From

\* Texts put behind one another begin as the first one does.
LEMMA JoinedTexts ==
    ASSUME NEW t \in Text, t # <<>>, NEW u \in Text, NEW v \in Text
    PROVE  /\ t \o u \o v \in Text
           /\ t \o u \o v # <<>>
           /\ (t \o u \o v)[1] = t[1]
           /\ u = <<>> => t \o u \o v = t \o v
  <1>1. /\ Len(t) \in Nat /\ Len(u) \in Nat /\ Len(t) >= 1
        /\ t \o u \in Text
        /\ Len(t \o u) = Len(t) + Len(u)
        /\ (t \o u)[1] = t[1]
    BY ConcatProperties, EmptySeq DEF Text
  <1> DEFINE w == t \o u
  <1>2. u = <<>> => w = t
    BY ConcatEmptySeq DEF Text
  <1>3. w \in Text /\ Len(w) \in Nat /\ Len(w) >= 1 /\ w[1] = t[1]
    BY <1>1
  <1> HIDE DEF w
  <1>4. /\ w \o v \in Text
        /\ Len(w \o v) >= 1
        /\ (w \o v)[1] = w[1]
    BY <1>3, ConcatProperties, LenProperties DEF Text
  <1>5. w \o v # <<>>
    BY <1>4, EmptySeq
  <1> QED
    BY <1>2, <1>3, <1>4, <1>5 DEF w

\* A text without its first character.
LEMMA TextIsFirstAndRest ==
    ASSUME NEW t \in Text, t # <<>>
    PROVE  t = <<t[1]>> \o Rest(t)
  <1>1. Len(t) \in Nat /\ 1 \in 1 .. Len(t) /\ Len(t) \in 1 .. Len(t)
    BY EmptySeq DEF Text
  <1>2. SubSeq(t, 1, Len(t)) = <<t[1]>> \o SubSeq(t, 1 + 1, Len(t))
    BY <1>1, SubSeqRecursiveFirst DEF Text
  <1>3. SubSeq(t, 1, Len(t)) = t /\ Tail(t) = SubSeq(t, 2, Len(t))
    BY SubSeqFull, TailIsSubSeq DEF Text
  <1> QED
    BY <1>2, <1>3 DEF Rest

\* The beginning of a text begins as the text.
LEMMA TextBegins ==
    ASSUME NEW t \in Text, NEW n \in 1 .. Len(t)
    PROVE  SubSeq(t, 1, n) \in Text /\ SubSeq(t, 1, n) # <<>> /\ SubSeq(t, 1, n)[1] = t[1]
  BY SubSeqProperties, ElementOfSeq, EmptySeq DEF Text

AllCompletions == [prefix : Text, token : Text, count : Text, items : Seq(Text)]

\* What complete makes of a prompt: the prompt and what is before the completed
\* word, which is not empty, and the word.
LEMMA CompletionOfPrompt ==
    ASSUME HistoryOK, ListOK, NEW t \in Text, t # <<>>, t[1] \in Prompts
    PROVE  /\ Completion(t) \in AllCompletions
           /\ Completion(t).prefix # <<>> /\ Completion(t).prefix[1] = t[1]
           /\ t = Completion(t).prefix \o Completion(t).token
  <1> DEFINE count == First(t, 1, Except({":", " "}))
             word == First(t, count, Except(Digit))
             end == First(t, word, {" "})
             n == Len(t)
  <1>0. n \in Nat /\ n >= 1
    BY EmptySeq DEF Text
  <1>1. CASE t[1] = "/"
    <2>1. Completion(t) = SearchCompletion(t)
      BY <1>1 DEF Completion
    <2>2. <<"/">> \in Text /\ Rest(t) \in Text /\ comp.count \in Text
      BY <1>1, TextTypes, CmdLineAssumption DEF ListOK, AllComps, Prompts
    <2>3. StartWith(Newest(lines["/"]), Rest(t)) \in Seq(Text)
      BY StartWithType, NewestType DEF HistoryOK, Prompts
    <2>4. t = <<"/">> \o Rest(t)
      BY <1>1, TextIsFirstAndRest
    <2> QED
      BY <1>1, <2>1, <2>2, <2>3, <2>4 DEF SearchCompletion, AllCompletions
  <1>2. CASE t[1] # "/"
    <2>1. t[1] = ":"
      BY <1>2 DEF Prompts
    <2>2. count \in 2 .. n + 1
      <3> DEFINE others == Except({":", " "})
      <3>1. ":" \notin others
        BY DEF Except
      <3> HIDE DEF others
      <3>2. First(t, 1, others) \in 1 .. n + 1
            /\ (First(t, 1, others) <= n => t[First(t, 1, others)] \in others)
        BY <1>0, FirstPlace
      <3>3. First(t, 1, others) = count
        BY DEF others
      <3> HIDE DEF count
      <3> QED
        BY <1>0, <2>1, <3>1, <3>2, <3>3
    <2> HIDE DEF count
    <2>3. word \in count .. n + 1
      BY <1>0, <2>2, FirstPlace
    <2> HIDE DEF word
    <2>4. end \in word .. n + 1
      <3>1. word \in Nat /\ word <= n + 1
        BY <1>0, <2>2, <2>3
      <3> QED
        BY <3>1, FirstPlace
    <2> HIDE DEF end
    <2>5. CASE Completion(t) = ArgCompletion(t, end) /\ end <= n
      <3>1. end \in 1 .. n /\ end \in 0 .. n
        BY <1>0, <2>2, <2>3, <2>4, <2>5
      <3>2. SubSeq(t, 1, end) \in Text /\ SubSeq(t, 1, end) # <<>> /\ SubSeq(t, 1, end)[1] = t[1]
        BY <3>1, TextBegins
      <3>3. From(t, end + 1) \in Text
        BY <1>0, <3>1, TextTypes DEF From
      <3>4. SubSeq(t, 1, end) \o From(t, end + 1) = t
        BY <3>1, TextIsItsParts
      <3>5. \A u : StartWith(ArgList, u) \in Seq(Text)
        BY StartWithType, CmdLineAssumption
      <3>6. comp.count \in Text
        BY DEF ListOK, AllComps
      <3> QED
        <4> DEFINE p == SubSeq(t, 1, end)
                   u == From(t, end + 1)
                   items == StartWith(ArgList, From(t, First(t, end, Except({" "}))))
        <4>1. Completion(t) = [prefix |-> p, token |-> u, count |-> comp.count, items |-> items]
          BY <2>5 DEF ArgCompletion
        <4>2. p \in Text /\ u \in Text /\ items \in Seq(Text) /\ p # <<>> /\ p[1] = t[1] /\ p \o u = t
          BY <3>2, <3>3, <3>4, <3>5
        <4> HIDE DEF p, u, items
        <4> QED
          BY <3>6, <4>1, <4>2 DEF AllCompletions
    <2>6. CASE Completion(t) = NameCompletion(t, count, word)
      <3>1. word - 1 \in 1 .. n /\ word - 1 \in 0 .. n /\ (word - 1) + 1 = word
        BY <1>0, <2>2, <2>3
      <3>2. SubSeq(t, 1, word - 1) \in Text /\ SubSeq(t, 1, word - 1) # <<>>
            /\ SubSeq(t, 1, word - 1)[1] = t[1]
        BY <3>1, TextBegins
      <3>3. From(t, word) \in Text /\ SubSeq(t, count, word - 1) \in Text
        BY <1>0, <2>2, <2>3, <3>1, TextTypes DEF From
      <3>4. SubSeq(t, 1, word - 1) \o From(t, word) = t
        BY <3>1, TextIsItsParts
      <3>5. StartWith(NameList, From(t, word)) \in Seq(Text)
        BY StartWithType, CmdLineAssumption
      <3> QED
        <4> DEFINE p == SubSeq(t, 1, word - 1)
                   u == From(t, word)
                   k == SubSeq(t, count, word - 1)
                   items == StartWith(NameList, u)
        <4>1. Completion(t) = [prefix |-> p, token |-> u, count |-> k, items |-> items]
          BY <2>6 DEF NameCompletion
        <4>2. /\ p \in Text /\ u \in Text /\ k \in Text /\ items \in Seq(Text)
              /\ p # <<>> /\ p[1] = t[1] /\ p \o u = t
          BY <3>2, <3>3, <3>4, <3>5
        <4> HIDE DEF p, u, k, items
        <4> QED
          BY <4>1, <4>2 DEF AllCompletions
    <2> QED
      BY <1>2, <2>5, <2>6 DEF Completion, count, word, end, n
  <1> QED
    BY <1>1, <1>2

-----------------------------------------------------------------------------
(* The search.                                                               *)

\* The searches that a step may go on from are those of the state.
LEMMA SearchesOfState ==
    ASSUME SearchOK, SearchIsTracked, NEW s \in {search, Finish(search)}
    PROVE  /\ s \in AllSearches /\ s.awaited <= Len(pending) /\ Tracked(s, pending)
           /\ s.active => search.active
  BY DEF SearchOK, SearchIsTracked, Finish, AllSearches, Tracked

\* A search that finds nothing to look for at most asks for the next match.
LEMMA StepAsked ==
    ASSUME SearchOK, SearchIsTracked, NEW s \in {search, Finish(search)},
           NEW more \in Seq(AllRequests), Len(more) <= 1,
           \A i \in DOMAIN more : more[i].step
    PROVE  /\ pending \o more \in Seq(AllRequests)
           /\ Len(pending \o more) = Len(pending) + Len(more)
           /\ s.awaited <= Len(pending \o more)
           /\ Tracked(s, pending \o more)
  <1> DEFINE p == pending \o more
             n == Len(pending)
  <1>1. /\ p \in Seq(AllRequests) /\ Len(p) = n + Len(more) /\ n \in Nat /\ Len(more) \in Nat
        /\ DOMAIN p = 1 .. Len(p) /\ DOMAIN pending = 1 .. n /\ DOMAIN more = 1 .. Len(more)
        /\ \A i \in 1 .. n : p[i] = pending[i]
        /\ \A i \in 1 .. Len(p) : i > n => p[i] = more[i - n]
    BY ConcatProperties, LenProperties DEF SearchOK
  <1>2. s \in AllSearches /\ s.awaited \in Nat /\ s.awaited <= n /\ Tracked(s, pending)
    BY SearchesOfState DEF AllSearches
  <1> HIDE DEF p, n
  <1>3. \A i \in 1 .. Len(p) : i > n => p[i].step
    BY <1>1
  <1>4. Tracked(s, p)
    BY <1>1, <1>2, <1>3 DEF Tracked
  <1> QED
    BY <1>1, <1>2, <1>4 DEF p, n

\* What a search that asks for something is afterwards.
LEMMA SearchFields ==
    ASSUME NEW s \in AllSearches, NEW asks, Len(asks) \in Nat, NEW q \in Text,
           NEW raced \in BOOLEAN, NEW t,
           t = [active |-> TRUE, last |-> q, awaited |-> Awaits(s, asks), matches |-> s.matches,
                raced |-> raced]
    PROVE  t \in AllSearches /\ t.awaited = s.awaited + Len(asks) /\ t.last = q /\ t.raced = raced
  <1>1. Awaits(s, asks) \in Nat /\ Awaits(s, asks) = s.awaited + Len(asks)
    BY DEF Awaits, AllSearches
  <1>2. s.matches \in Text
    BY DEF AllSearches
  <1>3. t.awaited = Awaits(s, asks) /\ t.last = q
    OBVIOUS
  <1>4. t.raced = raced
    BY Zenon
  <1>5. t \in AllSearches
    BY <1>1, <1>2, Zenon DEF AllSearches
  <1> QED
    BY <1>1, <1>3, <1>4, <1>5

\* When no step is awaited, all answers are awaited, and those of a new search
\* come behind them.
LEMMA SearchAsked ==
    ASSUME SearchOK, SearchIsTracked, NEW s \in {search, Finish(search)},
           NEW asks \in Seq(AllRequests), NEW q \in Text, Len(asks) >= 1,
           \A i \in DOMAIN asks : ~asks[i].step, asks[Len(asks)].text = q,
           NEW t,
           t = [active |-> TRUE, last |-> q, awaited |-> Awaits(s, asks), matches |-> s.matches,
                raced |-> (\E i \in DOMAIN pending : pending[i].step) \/ (s.raced /\ pending # <<>>)]
    PROVE  /\ pending \o asks \in Seq(AllRequests)
           /\ Len(pending \o asks) = Len(pending) + Len(asks)
           /\ t \in AllSearches /\ t.awaited <= Len(pending \o asks)
           /\ Tracked(t, pending \o asks)
  <1> DEFINE p == pending \o asks
             n == Len(pending)
             m == Len(asks)
  <1>1. /\ p \in Seq(AllRequests) /\ Len(p) = n + m /\ n \in Nat /\ m \in Nat
        /\ DOMAIN p = 1 .. Len(p) /\ DOMAIN pending = 1 .. n /\ DOMAIN asks = 1 .. m
        /\ \A i \in 1 .. n : p[i] = pending[i]
        /\ \A i \in 1 .. Len(p) : i > n => p[i] = asks[i - n]
        /\ pending = <<>> => n = 0
    BY ConcatProperties, LenProperties, EmptySeq DEF SearchOK
  <1>2. s \in AllSearches /\ s.awaited \in Nat /\ s.awaited <= n /\ Tracked(s, pending)
    BY SearchesOfState DEF AllSearches
  <1> HIDE DEF p, n
  <1>3. /\ t \in AllSearches /\ t.awaited = s.awaited + m /\ t.last = q
        /\ ~t.raced => /\ \A i \in DOMAIN pending : ~pending[i].step
                       /\ pending # <<>> => ~s.raced
    <2> DEFINE raced == (\E i \in DOMAIN pending : pending[i].step) \/ (s.raced /\ pending # <<>>)
    <2>1. raced \in BOOLEAN
      OBVIOUS
    <2>2. t = [active |-> TRUE, last |-> q, awaited |-> Awaits(s, asks), matches |-> s.matches,
                raced |-> raced]
      OBVIOUS
    <2>3. ~raced => (\A i \in DOMAIN pending : ~pending[i].step) /\ (pending # <<>> => ~s.raced)
      BY Zenon
    <2> HIDE DEF raced
    <2>4. s \in AllSearches /\ Len(asks) \in Nat
      BY <1>1, <1>2
    <2>5. t \in AllSearches /\ t.awaited = s.awaited + Len(asks) /\ t.last = q /\ t.raced = raced
      BY <2>1, <2>2, <2>4, SearchFields
    <2> QED
      BY <2>3, <2>5, Zenon
  <1> HIDE DEF m
  <1>4. t.awaited <= Len(p)
    BY <1>1, <1>2, <1>3
  <1>5. ASSUME ~t.raced PROVE s.awaited = n /\ \A i \in 1 .. n : ~pending[i].step
    <2>1. \A i \in 1 .. n : ~pending[i].step
      BY <1>1, <1>3, <1>5
    <2>2. CASE pending = <<>>
      BY <1>1, <1>2, <2>1, <2>2
    <2>3. CASE pending # <<>>
      <3>1. \A i \in 1 .. n : i <= s.awaited
        BY <1>1, <1>2, <1>3, <1>5, <2>1, <2>3 DEF Tracked
      <3> QED
        BY <1>1, <1>2, <2>1, <3>1
    <2> QED
      BY <2>2, <2>3
  <1>6. ASSUME ~t.raced PROVE \A i \in 1 .. Len(p) : ~p[i].step
    BY <1>1, <1>5, <1>6 DEF m
  <1>7. p[n + m].text = q
    BY <1>1 DEF m
  <1>8. Tracked(t, p)
    BY <1>1, <1>3, <1>5, <1>6, <1>7 DEF Tracked, m
  <1> QED
    BY <1>1, <1>3, <1>4, <1>8 DEF p, n, m

\* command_search keeps what is known of the search and the histories, and adds
\* to what the page is asked for, unless there is nothing to search for.
LEMMA SearchStep ==
    ASSUME SearchOK, SearchIsTracked, HistoryOK, NEW s \in {search, Finish(search)},
           NEW query \in Text, NEW commit \in BOOLEAN, Search(s, query, commit)
    PROVE  /\ SearchOK' /\ SearchIsTracked'
           /\ lines' \in [Prompts -> Seq(Text)]
           /\ pending' = pending => search' = s /\ ~s.active
  <1> DEFINE given == Given(s, query)
             q == IF commit /\ given = None THEN register ELSE given
             asks == CASE q = None -> <<>>
                       [] q # None /\ commit -> <<Request(<<>>, FALSE), Request(q, FALSE)>>
                       [] OTHER -> <<Request(q, FALSE)>>
             steps == IF q = None /\ s.active THEN <<Request(s.last, TRUE)>> ELSE <<>>
  <1>1. s \in AllSearches /\ given \in Text /\ q \in Text /\ register \in Text /\ pending \in Seq(AllRequests)
    BY SearchesOfState DEF Given, SearchOK, AllSearches
  <1>2. /\ pending' = pending \o asks \o steps
        /\ Len(pending') <= MaxPending
    BY DEF Search
  <1>3. register' \in Text /\ lines' \in [Prompts -> Seq(Text)]
    BY <1>1, AppendProperties DEF Search, HistoryOK
  <1>4. CASE q = None
    <2>1. search' = s
      BY <1>4 DEF Search
    <2>2. pending' = pending \o steps
      <3>1. asks = <<>>
        BY <1>4
      <3>2. pending \o <<>> = pending
        BY <1>1, ConcatEmptySeq
      <3> HIDE DEF asks, steps
      <3> QED
        BY <1>2, <3>1, <3>2
    <2>3. steps \in Seq(AllRequests) /\ Len(steps) <= 1 /\ (\A i \in DOMAIN steps : steps[i].step)
          /\ (s.active => Len(steps) = 1)
      <3>1. Request(s.last, TRUE) \in AllRequests /\ Request(s.last, TRUE).step
        BY <1>1 DEF Request, AllRequests, AllSearches
      <3>2. CASE s.active
        <4> DEFINE r == Request(s.last, TRUE)
        <4>1. steps = <<r>>
          BY <1>4, <3>2
        <4> HIDE DEF steps
        <4>2. r \in AllRequests /\ r.step
          BY <3>1
        <4> HIDE DEF r
        <4> QED
          BY <4>1, <4>2
      <3>3. CASE ~s.active
        <4>1. steps = <<>>
          BY <3>3
        <4> QED
          BY <3>3, <4>1
      <3> QED
        BY <3>2, <3>3
    <2> HIDE DEF steps
    <2>4. /\ pending' \in Seq(AllRequests) /\ Len(pending') = Len(pending) + Len(steps)
          /\ s.awaited <= Len(pending') /\ Tracked(s, pending')
      BY <2>2, <2>3, StepAsked
    <2>5. ASSUME pending' = pending, s.active PROVE FALSE
      <3>1. Len(pending) \in Nat
        BY <1>1, LenProperties
      <3>2. Len(pending') = Len(pending) + 1
        BY <2>3, <2>4, <2>5
      <3> QED
        BY <2>5, <3>1, <3>2
    <2> QED
      BY <1>1, <1>2, <1>3, <2>1, <2>4, <2>5 DEF SearchOK, SearchIsTracked
  <1>5. CASE q # None
    <2>1. search' = [active |-> TRUE, last |-> q, awaited |-> Awaits(s, asks), matches |-> s.matches,
                     raced |-> (\E i \in DOMAIN pending : pending[i].step) \/ (s.raced /\ pending # <<>>)]
      BY <1>5 DEF Search
    <2>2. asks = <<Request(<<>>, FALSE), Request(q, FALSE)>> \/ asks = <<Request(q, FALSE)>>
      BY <1>5
    <2>3. Request(<<>>, FALSE) \in AllRequests /\ Request(q, FALSE) \in AllRequests
      BY <1>1, TextTypes DEF Request, AllRequests
    <2>4. ~Request(<<>>, FALSE).step /\ ~Request(q, FALSE).step /\ Request(q, FALSE).text = q
      BY DEF Request
    <2>5. /\ asks \in Seq(AllRequests) /\ Len(asks) >= 1 /\ Len(asks) \in Nat
          /\ asks[Len(asks)].text = q /\ \A i \in DOMAIN asks : ~asks[i].step
      <3>1. CASE asks = <<Request(<<>>, FALSE), Request(q, FALSE)>>
        <4> DEFINE none == Request(<<>>, FALSE)
                   r == Request(q, FALSE)
        <4>1. asks = <<none, r>>
          BY <3>1
        <4>2. none \in AllRequests /\ r \in AllRequests /\ ~none.step /\ ~r.step /\ r.text = q
          BY <2>3, <2>4
        <4> HIDE DEF none, r, asks
        <4> QED
          BY <4>1, <4>2
      <3>2. CASE asks = <<Request(q, FALSE)>>
        <4> DEFINE r == Request(q, FALSE)
        <4>1. asks = <<r>>
          BY <3>2
        <4>2. r \in AllRequests /\ ~r.step /\ r.text = q
          BY <2>3, <2>4
        <4> HIDE DEF r, asks
        <4> QED
          BY <4>1, <4>2
      <3> QED
        BY <2>2, <3>1, <3>2
    <2>6. pending' = pending \o asks
      BY <1>1, <1>2, <1>5, <2>5, ConcatEmptySeq, ConcatProperties
    <2> HIDE DEF asks, q
    <2>7. /\ pending' \in Seq(AllRequests) /\ Len(pending') = Len(pending) + Len(asks)
          /\ search' \in AllSearches /\ search'.awaited <= Len(pending')
          /\ Tracked(search', pending')
      BY <1>1, <2>1, <2>5, <2>6, SearchAsked
    <2>8. pending' # pending
      BY <1>1, <2>5, <2>7, LenProperties
    <2> QED
      BY <1>2, <1>3, <2>7, <2>8 DEF SearchOK, SearchIsTracked
  <1> QED
    BY <1>4, <1>5

\* A change of the text is a search or nothing; without incsearch nothing.
LEMMA InputChangedStep ==
    ASSUME SearchOK, SearchIsTracked, HistoryOK, NEW s \in {search, Finish(search)},
           NEW t \in Text, NEW shown \in BOOLEAN, InputChanged(t, s, shown)
    PROVE  /\ SearchOK' /\ SearchIsTracked'
           /\ lines' \in [Prompts -> Seq(Text)]
           /\ ~incsearch => search' = s
  <1>1. CASE ~shown /\ incsearch /\ t # <<>> /\ t[1] = "/"
    <2>1. Search(s, Rest(t), FALSE)
      BY <1>1 DEF InputChanged
    <2>2. Rest(t) \in Text
      BY <1>1, TextTypes
    <2> QED
      BY <1>1, <2>1, <2>2, SearchStep
  <1>2. CASE ~(~shown /\ incsearch /\ t # <<>> /\ t[1] = "/")
    <2>1. search' = s /\ UNCHANGED <<pending, register, lines>>
      BY <1>2 DEF InputChanged, NoSearch
    <2>2. s \in AllSearches /\ s.awaited <= Len(pending) /\ Tracked(s, pending)
      BY SearchesOfState
    <2> QED
      BY <2>1, <2>2 DEF SearchOK, SearchIsTracked, HistoryOK
  <1> QED
    BY <1>1, <1>2

\* An answer is for the first thing that was asked for.
LEMMA AnswerSearch ==
    ASSUME SearchOK, SearchIsTracked, pending # <<>>,
           search' = Counted(Head(pending).text), pending' = Tail(pending), register' = register
    PROVE  SearchOK' /\ SearchIsTracked' /\ search'.active = search.active
  <1> DEFINE n == Len(pending)
             r == Head(pending)
  <1>1. /\ pending' \in Seq(AllRequests) /\ n \in Nat /\ n >= 1 /\ Len(pending') = n - 1
        /\ \A i \in 1 .. n - 1 : pending'[i] = pending[i + 1]
        /\ r = pending[1] /\ r \in AllRequests
        /\ DOMAIN pending = 1 .. n /\ DOMAIN pending' = 1 .. n - 1
    BY HeadTailProperties, ElementOfSeq, EmptySeq, LenProperties DEF SearchOK
  <1> HIDE DEF n, r
  <1>2. search \in AllSearches /\ search.awaited \in Nat /\ search.awaited <= n /\ r.text \in Text
        /\ n <= MaxPending /\ MaxPending \in Nat
    BY <1>1, CmdLineAssumption DEF SearchOK, AllSearches, AllRequests, n
  <1>3. search' = Counted(r.text)
    BY DEF r
  <1>4. CASE search.awaited > 0
    <2>1. search' = [search EXCEPT !.awaited = search.awaited - 1, !.matches = r.text]
      BY <1>3, <1>4, Zenon DEF Counted
    <2>2. search.awaited - 1 \in Nat
      BY <1>2, <1>4
    <2>3. search' \in AllSearches
      BY <1>2, <2>1, <2>2 DEF AllSearches
    <2>4. /\ search'.awaited = search.awaited - 1 /\ search'.matches = r.text
          /\ search'.last = search.last
      BY <1>2, <2>1 DEF AllSearches
    <2>5. search'.raced = search.raced /\ search'.active = search.active
      BY <1>2, <2>1, Zenon DEF AllSearches
    <2>6. SearchOK'
      BY <1>1, <1>2, <2>3, <2>4 DEF SearchOK
    <2>7. ASSUME ~search'.raced
          PROVE  /\ \A i \in DOMAIN pending' : pending'[i].step <=> i > search'.awaited
                 /\ search'.awaited > 0 => pending'[search'.awaited].text = search'.last
                 /\ search'.awaited = 0 /\ search'.last # None => search'.matches = search'.last
      <3>1. /\ \A i \in 1 .. n : pending[i].step <=> i > search.awaited
            /\ pending[search.awaited].text = search.last
        BY <1>1, <1>4, <2>5, <2>7 DEF SearchIsTracked, Tracked
      <3>2. ASSUME NEW i \in 1 .. n - 1
            PROVE  pending'[i].step <=> i > search'.awaited
        <4>1. i + 1 \in 1 .. n /\ (i > search.awaited - 1 <=> i + 1 > search.awaited)
          BY <1>1, <1>2
        <4>2. pending'[i].step <=> i + 1 > search.awaited
          BY <1>1, <3>1, <4>1
        <4> QED
          BY <2>4, <4>1, <4>2
      <3>3. ASSUME search'.awaited > 0
            PROVE  pending'[search'.awaited].text = search'.last
        <4>1. search'.awaited \in 1 .. n - 1 /\ search'.awaited + 1 = search.awaited
          BY <1>1, <1>2, <2>4, <3>3
        <4>2. pending'[search'.awaited].text = search.last
          BY <1>1, <3>1, <4>1
        <4> QED
          BY <2>4, <4>2
      <3>4. ASSUME search'.awaited = 0
            PROVE  search'.matches = search'.last
        <4>1. search.awaited = 1
          BY <1>2, <2>4, <3>4
        <4> QED
          BY <1>1, <2>4, <3>1, <4>1
      <3>5. \A i \in DOMAIN pending' : pending'[i].step <=> i > search'.awaited
        BY <1>1, <3>2
      <3> QED
        BY <3>3, <3>4, <3>5
    <2> QED
      BY <2>5, <2>6, <2>7 DEF SearchIsTracked, Tracked
  <1>5. CASE search.awaited = 0
    <2>1. search' = search
      BY <1>3, <1>5 DEF Counted
    <2>2. SearchOK'
      BY <1>1, <1>2, <1>5, <2>1 DEF SearchOK
    <2>3. ASSUME ~search.raced
          PROVE  \A i \in 1 .. n - 1 : pending'[i].step <=> i > search.awaited
      <3>1. \A i \in 1 .. n : pending[i].step <=> i > 0
        BY <1>1, <1>5, <2>3 DEF SearchIsTracked, Tracked
      <3> QED
        BY <1>1, <1>5, <3>1
    <2> QED
      BY <1>1, <1>5, <2>1, <2>2, <2>3 DEF SearchIsTracked, Tracked
  <1> QED
    BY <1>2, <1>4, <1>5

-----------------------------------------------------------------------------
(* The steps.                                                                *)

\* What every step does: it keeps the invariant, a prompt that is not left stays
\* of its kind, and one that is left without a commit leaves no search.
Kind == HasPrompt /\ HasPrompt' => text'[1] = text[1]
Ends == Focused /\ ~Focused' /\ pending' = pending => ~search'.active

\* What a closed list and an idle completion are.
LEMMA ClosedTypes ==
    ASSUME NEW count \in Text
    PROVE  /\ Closed \in AllLists /\ Idle(count) \in AllComps
           /\ Closed.sel = 0 /\ Closed.active = 0 /\ Len(Closed.items) = 0
  <1>1. <<>> \in Text /\ <<>> \in Seq(Text)
    BY DEF Text
  <1> QED
    BY <1>1 DEF Closed, Idle, AllLists, AllComps

\* A message is in the box, and no more timers run than the bound allows.
LEMMA PrintStep ==
    ASSUME InputOK, NEW t, NEW hide \in BOOLEAN, InputPrint(t, hide)
    PROVE  text' = t /\ timer' = hide /\ lost' \in 0 .. MaxLost
  <1>1. text' = t /\ timer' = hide
    BY Zenon DEF InputPrint, PrintTimer
  <1>2. lost' \in Nat /\ lost' <= MaxLost
    BY CmdLineAssumption DEF InputPrint, PrintTimer, InputOK
  <1> QED
    BY <1>1, <1>2, CmdLineAssumption

\* OpenPrompt.
LEMMA OpenPromptStep ==
    ASSUME Inv, NEW p \in Prompts, OpenPrompt(p)
    PROVE  Inv' /\ Kind /\ Ends
  <1>1. /\ mode = "normal" /\ mode' = "command"
        /\ InputPrint(<<p>>, FALSE)
        /\ InputChanged(<<p>>, Finish(search), FALSE)
        /\ UNCHANGED <<list, comp, walk, incsearch>>
    BY DEF OpenPrompt, compVars
  <1>2. <<p>> \in Text /\ <<p>> # <<>> /\ <<p>>[1] = p
    BY CmdLineAssumption DEF Text
  <1> DEFINE t == <<p>>
  <1>3. t \in Text /\ t # <<>> /\ t[1] = p
    BY <1>2
  <1>4. InputPrint(t, FALSE) /\ InputChanged(t, Finish(search), FALSE)
    BY <1>1
  <1> HIDE DEF t
  <1>5. text' = t /\ timer' = FALSE /\ lost' \in 0 .. MaxLost
    BY <1>4, PrintStep DEF Inv
  <1>6. /\ SearchOK' /\ SearchIsTracked' /\ lines' \in [Prompts -> Seq(Text)]
        /\ ~incsearch => search' = Finish(search)
    BY <1>3, <1>4, InputChangedStep DEF Inv
  <1>7. ~Finish(search).active
    BY DEF Finish, Inv, SearchOK, AllSearches
  <1>8. InputOK' /\ HistoryOK' /\ ListOK'
    BY <1>1, <1>3, <1>5, <1>6 DEF Inv, InputOK, HistoryOK, ListOK
  <1>9. ListIsOfPrompt'
    BY <1>1 DEF Inv, ListIsOfPrompt, Focused, CompOf, Shown
  <1>10. PromptOK'
    BY <1>1, <1>3, <1>5, <1>6, <1>7 DEF PromptOK
  <1> QED
    BY <1>1, <1>6, <1>8, <1>9, <1>10 DEF Inv, Kind, Ends, HasPrompt, Focused

\* Leave: the prompt is closed with its list and, with incsearch, its search.
LEMMA LeaveStep ==
    ASSUME Inv, Focused, NEW to \in Text, Leave(to), UNCHANGED <<walk, incsearch, opened>>
    PROVE  Inv' /\ Kind /\ Ends
  <1> DEFINE s == IF incsearch THEN Finish(search) ELSE search
  <1>1. /\ mode' = "normal" /\ list' = Closed /\ comp' = Idle(comp.count)
        /\ text' = to /\ UNCHANGED <<timer, lost, pending, register, lines, walk, incsearch>>
        /\ search' = s
    BY DEF Leave, NoList, SetText, NoSearch
  <1>2. s \in {search, Finish(search)}
    OBVIOUS
  <1>3. ~s.active
    BY DEF Inv, PromptOK, Finish, SearchOK, AllSearches
  <1> HIDE DEF s
  <1>4. s \in AllSearches /\ s.awaited <= Len(pending) /\ Tracked(s, pending)
    BY <1>2, SearchesOfState DEF Inv
  <1>5. SearchOK' /\ SearchIsTracked'
    BY <1>1, <1>4 DEF Inv, SearchOK, SearchIsTracked
  <1>6. InputOK' /\ HistoryOK'
    BY <1>1 DEF Inv, InputOK, HistoryOK
  <1>7. ListOK'
    <2>1. comp.count \in Text
      BY DEF Inv, ListOK, AllComps
    <2> QED
      BY <1>1, <2>1, ClosedTypes DEF ListOK
  <1>8. ~Focused'
    BY <1>1 DEF Focused
  <1> QED
    BY <1>1, <1>3, <1>5, <1>6, <1>7, <1>8 DEF Inv, ListIsOfPrompt, PromptOK, Kind, Ends, HasPrompt

\* Change: of the text of a prompt, to one with the same prompt or to nothing.
LEMMA ChangeStep ==
    ASSUME Inv, HasPrompt, NEW t \in Text, t # <<>> => t[1] = text[1], Change(t)
    PROVE  Inv' /\ Kind /\ Ends
  <1> DEFINE shown == list # Closed
  <1>1. /\ text' = t /\ UNCHANGED <<timer, lost, mode, list, comp, walk, incsearch>>
        /\ InputChanged(t, search, shown)
    BY DEF Change, SetText, compVars
  <1>2. shown \in BOOLEAN
    OBVIOUS
  <1> HIDE DEF shown
  <1>3. /\ SearchOK' /\ SearchIsTracked' /\ lines' \in [Prompts -> Seq(Text)]
        /\ ~incsearch => search' = search
    BY <1>1, <1>2, InputChangedStep DEF Inv
  <1>4. InputOK' /\ HistoryOK' /\ ListOK'
    BY <1>1, <1>3 DEF Inv, InputOK, HistoryOK, ListOK
  <1>5. ListIsOfPrompt'
    BY <1>1 DEF Inv, ListIsOfPrompt, Focused, CompOf, Shown
  <1>6. PromptOK'
    BY <1>1, <1>3 DEF Inv, PromptOK, HasPrompt, Focused
  <1> QED
    BY <1>1, <1>3, <1>4, <1>5, <1>6 DEF Inv, Kind, Ends, HasPrompt, Focused

\* Type, Backspace, ClearLine and Escape.
LEMMA TypeStep ==
    ASSUME Inv, NEW k, Type(k)
    PROVE  Inv' /\ Kind /\ Ends
  <1>1. HasPrompt /\ text \in Text /\ text # <<>> /\ text[1] \in Prompts /\ Change(Append(text, k))
    BY DEF Type, Inv, InputOK, PromptOK, HasPrompt
  <1>2. k \in Char
    BY <1>1, CmdLineAssumption DEF Type
  <1>3. Append(text, k) \in Text /\ Append(text, k)[1] = text[1]
    BY <1>1, <1>2, AppendProperties, EmptySeq DEF Text
  <1> QED
    BY <1>1, <1>3, ChangeStep

\* Backspace: the last character goes, or the prompt is left with it.
LEMMA BackspaceStep ==
    ASSUME Inv, Backspace
    PROVE  Inv' /\ Kind /\ Ends
  <1>1. HasPrompt /\ text \in Text /\ text # <<>> /\ Len(text) \in Nat
    BY DEF Backspace, Inv, InputOK, HasPrompt, Text
  <1>2. CASE Len(text) > 1
    <2>1. Front(text) \in Text /\ Front(text)[1] = text[1]
      <3>1. Len(text) - 1 \in 1 .. Len(text)
        BY <1>1, <1>2
      <3> QED
        BY <1>1, <3>1, TextBegins DEF Front
    <2> QED
      BY <1>1, <1>2, <2>1, ChangeStep DEF Backspace
  <1>3. CASE ~(Len(text) > 1)
    <2> DEFINE none == <<>>
    <2>1. Leave(none) /\ UNCHANGED <<walk, incsearch, opened>>
      BY <1>3 DEF Backspace
    <2>2. none \in Text
      BY <1>1, TextTypes
    <2> HIDE DEF none
    <2> QED
      BY <1>1, <2>1, <2>2, LeaveStep DEF HasPrompt
  <1> QED
    BY <1>2, <1>3

\* ClearLine: only the first character stays.
LEMMA ClearLineStep ==
    ASSUME Inv, ClearLine
    PROVE  Inv' /\ Kind /\ Ends
  <1>1. HasPrompt /\ text \in Text /\ text # <<>> /\ text[1] \in Char
    BY TextTypes DEF ClearLine, Inv, InputOK, HasPrompt
  <1> DEFINE t == <<text[1]>>
  <1>2. t \in Text /\ t[1] = text[1] /\ Change(t)
    BY <1>1 DEF ClearLine, Text
  <1> HIDE DEF t
  <1> QED
    BY <1>1, <1>2, ChangeStep

\* Escape: the prompt is left.
LEMMA EscapeStep ==
    ASSUME Inv, NEW clears \in BOOLEAN, Escape(clears)
    PROVE  Inv' /\ Kind /\ Ends
  <1> DEFINE to == IF clears THEN <<>> ELSE Message
  <1>1. Focused /\ Leave(to) /\ UNCHANGED <<walk, incsearch, opened>>
    BY DEF Escape
  <1>2. to \in Text
    BY TextTypes DEF Inv, InputOK
  <1> HIDE DEF to
  <1> QED
    BY <1>1, <1>2, LeaveStep

\* completion_next stays within the list, and selects exactly where it stands.
LEMMA CompletionNextType ==
    ASSUME NEW l \in AllLists, l.active <= Len(l.items) + 1, NEW back \in BOOLEAN, NEW x,
           x = CompletionNext(l, back)
    PROVE  /\ x \in AllLists /\ x.items = l.items
           /\ x.active <= Len(l.items) + 1
           /\ x.sel = IF x.active \in 1 .. Len(l.items) THEN x.active ELSE 0
           /\ l.active = 0 /\ Len(l.items) >= 1 => x.sel \in 1 .. Len(l.items)
  <1> DEFINE n == Len(l.items)
             to == IF back THEN l.active - 1 ELSE l.active + 1
             active == CASE to < 0 -> n [] to > n + 1 -> 1 [] OTHER -> to
             sel == IF active \in 1 .. n THEN active ELSE 0
  <1>1. n \in Nat /\ l.active \in Nat /\ l.items \in Seq(Text)
    BY DEF AllLists
  <1>2. x = [l EXCEPT !.active = active, !.sel = sel]
    BY DEF CompletionNext
  <1>3. to \in Int /\ to <= n + 2 /\ to >= -1
    BY <1>1
  <1>7. l.active = 0 => to = 1 \/ to = -1
    BY <1>1
  <1> HIDE DEF to
  <1>4. active \in 0 .. n + 1
    BY <1>1, <1>3
  <1>8. l.active = 0 /\ n >= 1 => active \in 1 .. n
    BY <1>1, <1>7
  <1> HIDE DEF active
  <1>5. sel \in Nat
    BY <1>4
  <1>6. x = [items |-> l.items, sel |-> sel, active |-> active]
    BY <1>2 DEF AllLists
  <1> QED
    BY <1>1, <1>4, <1>5, <1>6, <1>8 DEF AllLists

\* What a completion puts into the box begins as its prefix.
LEMMA ShownText ==
    ASSUME NEW c \in AllComps, c.prefix # <<>>, NEW m \in Text
    PROVE  Shown(c, m) \in Text /\ Shown(c, m)[1] = c.prefix[1]
  <1> DEFINE p == c.prefix
             k == c.count
  <1>1. p \in Text /\ p # <<>> /\ k \in Text
    BY DEF AllComps
  <1>2. Shown(c, m) = p \o k \o m
    BY DEF Shown
  <1> HIDE DEF p, k
  <1>3. p \o k \o m \in Text /\ (p \o k \o m)[1] = p[1]
    BY <1>1, JoinedTexts
  <1> QED
    BY <1>2, <1>3 DEF p

\* completion_select keeps the completion what it was started with.
LEMMA SelectStep ==
    ASSUME NEW c \in AllComps, c.prefix # <<>>, c.started = c.prefix \o c.token,
           NEW l \in AllLists, NEW m \in Text,
           m = IF l.sel = 0 THEN c.token ELSE l.items[l.sel],
           Select(c, m)
    PROVE  /\ comp' \in AllComps /\ CompOf(l, comp')
           /\ text' = comp'.current /\ text' \in Text /\ text'[1] = c.prefix[1]
           /\ UNCHANGED <<timer, lost>>
  <1> DEFINE t == Shown(c, m)
  <1>1. t \in Text /\ t[1] = c.prefix[1]
    BY ShownText
  <1>2. comp' = [c EXCEPT !.current = t] /\ text' = t /\ UNCHANGED <<timer, lost>>
    BY DEF Select, SetText
  <1>3. Shown(c, m) = t
    OBVIOUS
  <1> HIDE DEF t
  <1>4. comp' = [prefix |-> c.prefix, token |-> c.token, count |-> c.count, current |-> t,
                 started |-> c.started]
    BY <1>2 DEF AllComps
  <1>5. comp' \in AllComps
    BY <1>1, <1>4 DEF AllComps
  <1>6. Shown(comp', m) = t
    BY <1>3, <1>4 DEF Shown
  <1>7. CompOf(l, comp')
    BY <1>4, <1>6 DEF CompOf
  <1> QED
    BY <1>1, <1>2, <1>4, <1>5, <1>7

\* TabOn: the list goes on.
LEMMA TabOnStep ==
    ASSUME Inv, NEW back \in BOOLEAN, TabOn(back)
    PROVE  Inv' /\ Kind /\ Ends
  <1> DEFINE m == IF list'.active \in DOMAIN list.items THEN list.items[list'.active] ELSE comp.token
  <1>1. /\ HasPrompt /\ list # Closed /\ text = comp.current
        /\ list' = CompletionNext(list, back)
        /\ Select(comp, m)
        /\ UNCHANGED <<mode, walk, incsearch, search, pending, register, lines>>
    BY DEF TabOn, NoSearch
  <1>2. /\ list \in AllLists /\ list.active <= Len(list.items) + 1 /\ comp \in AllComps
        /\ CompOf(list, comp)
    BY <1>1 DEF Inv, ListOK, ListIsOfPrompt
  <1>3. /\ list' \in AllLists /\ list'.items = list.items
        /\ list'.active <= Len(list.items) + 1
        /\ list'.sel = IF list'.active \in 1 .. Len(list.items) THEN list'.active ELSE 0
    BY <1>1, <1>2, CompletionNextType
  <1>4. list.items \in Seq(Text) /\ DOMAIN list.items = 1 .. Len(list.items) /\ Len(list.items) \in Nat
    BY <1>2 DEF AllLists
  <1>5. m \in Text /\ m = IF list'.sel = 0 THEN comp.token ELSE list'.items[list'.sel]
    BY <1>2, <1>3, <1>4 DEF AllComps
  <1> HIDE DEF m
  <1>6. comp.prefix # <<>> /\ comp.started = comp.prefix \o comp.token
    BY <1>2 DEF CompOf
  <1>7. /\ comp' \in AllComps /\ CompOf(list', comp')
        /\ text' = comp'.current /\ text' \in Text /\ text'[1] = comp.prefix[1]
        /\ UNCHANGED <<timer, lost>>
    BY <1>1, <1>2, <1>3, <1>5, <1>6, SelectStep
  <1>8. text[1] = comp.prefix[1]
    <2> DEFINE old == IF list.sel = 0 THEN comp.token ELSE list.items[list.sel]
    <2>1. old \in Text
      <3>1. list.sel \in Nat /\ list.sel <= Len(list.items) /\ comp.token \in Text
        BY <1>2 DEF Inv, ListOK, AllLists, AllComps
      <3> QED
        BY <1>4, <3>1
    <2>2. text = Shown(comp, old)
      BY <1>1, <1>2 DEF CompOf
    <2> HIDE DEF old
    <2> QED
      BY <1>2, <1>6, <2>1, <2>2, JoinedTexts DEF AllComps, Shown
  <1>9. InputOK' /\ HistoryOK' /\ SearchOK' /\ SearchIsTracked'
    BY <1>1, <1>7 DEF Inv, InputOK, HistoryOK, SearchOK, SearchIsTracked
  <1>10. ListOK'
    BY <1>3, <1>4, <1>7 DEF ListOK
  <1>11. ListIsOfPrompt'
    BY <1>1, <1>7 DEF ListIsOfPrompt, Focused, HasPrompt
  <1>12. PromptOK'
    BY <1>1, <1>7, <1>8 DEF Inv, PromptOK, Focused, HasPrompt
  <1> QED
    BY <1>1, <1>7, <1>8, <1>9, <1>10, <1>11, <1>12 DEF Inv, Kind, Ends, HasPrompt, Focused

\* TabStart: nothing, one item or a list is found.
LEMMA TabStartStep ==
    ASSUME Inv, NEW back \in BOOLEAN, TabStart(back)
    PROVE  Inv' /\ Kind /\ Ends
  <1> DEFINE new == Completion(text)
             c == [prefix |-> new.prefix, token |-> new.token, count |-> new.count,
                   current |-> comp.current, started |-> text]
             l == [items |-> new.items, sel |-> 0, active |-> 0]
             shown == CompletionNext(l, back)
  <1>1. /\ HasPrompt
        /\ UNCHANGED <<mode, walk, incsearch>>
        /\ CASE new.items = <<>> ->
                  list' = Closed /\ comp' = Idle(new.count) /\ SetText(text) /\ NoSearch(search)
             [] Len(new.items) = 1 ->
                  list' = Closed /\ comp' = Idle(new.count) /\ SetText(Shown(c, new.items[1]))
                  /\ InputChanged(text', search, FALSE)
             [] OTHER ->
                  list' = shown /\ Select(c, new.items[shown.sel]) /\ NoSearch(search)
    BY Zenon DEF TabStart
  <1>2. text \in Text /\ text # <<>> /\ text[1] \in Prompts
    BY <1>1 DEF Inv, InputOK, PromptOK, HasPrompt
  <1>3. /\ new \in AllCompletions
        /\ new.prefix # <<>> /\ new.prefix[1] = text[1]
        /\ text = new.prefix \o new.token
    BY <1>2, CompletionOfPrompt DEF Inv
  <1> HIDE DEF new
  <1>4. new.items \in Seq(Text) /\ Len(new.items) \in Nat /\ new.count \in Text
    BY <1>3 DEF AllCompletions
  <1>9. new.items = <<>> <=> Len(new.items) = 0
    <2> DEFINE items == new.items
    <2>1. items \in Seq(Text)
      BY <1>4
    <2> HIDE DEF items
    <2>2. items = <<>> <=> Len(items) = 0
      BY <2>1
    <2> QED
      BY <2>2 DEF items
  <1>10. /\ Len(new.items) = 0 \/ Len(new.items) = 1 \/ Len(new.items) > 1
         /\ Len(new.items) > 1 => Len(new.items) # 0 /\ Len(new.items) # 1
    <2> DEFINE n == Len(new.items)
    <2>1. n \in Nat
      BY <1>4
    <2> HIDE DEF n
    <2>2. (n = 0 \/ n = 1 \/ n > 1) /\ (n > 1 => n # 0 /\ n # 1)
      BY <2>1
    <2> QED
      BY <2>2 DEF n
  <1>5. /\ c \in AllComps /\ c.prefix # <<>> /\ c.prefix[1] = text[1]
        /\ c.started = c.prefix \o c.token
    BY <1>2, <1>3 DEF AllCompletions, AllComps, Inv, ListOK
  <1> HIDE DEF c
  <1>6. CASE new.items = <<>>
    <2>1. /\ list' = Closed /\ comp' = Idle(new.count) /\ text' = text /\ UNCHANGED <<timer, lost>>
          /\ UNCHANGED <<search, pending, register, lines>>
      BY <1>1, <1>4, <1>6 DEF SetText, NoSearch
    <2>2. ListOK'
      BY <1>4, <2>1, ClosedTypes DEF ListOK
    <2>3. InputOK' /\ HistoryOK' /\ SearchOK' /\ SearchIsTracked' /\ PromptOK'
      BY <1>1, <2>1 DEF Inv, InputOK, HistoryOK, SearchOK, SearchIsTracked, PromptOK, Focused
    <2> QED
      BY <1>1, <2>1, <2>2, <2>3 DEF Inv, ListIsOfPrompt, Kind, Ends, HasPrompt, Focused
  <1>7. CASE Len(new.items) = 1
    <2> DEFINE t == Shown(c, new.items[1])
    <2>1. new.items # <<>> /\ new.items[1] \in Text
      BY <1>4, <1>7, <1>9
    <2>2. t \in Text /\ t[1] = text[1]
      BY <1>5, <2>1, JoinedTexts DEF Shown, AllComps
    <2> HIDE DEF t
    <2>3. /\ list' = Closed /\ comp' = Idle(new.count) /\ text' = t /\ UNCHANGED <<timer, lost>>
          /\ InputChanged(t, search, FALSE)
      <3>1. list' = Closed /\ comp' = Idle(new.count) /\ SetText(t) /\ InputChanged(text', search, FALSE)
        BY <1>1, <1>7, <2>1 DEF t
      <3> QED
        BY <3>1 DEF SetText
    <2>4. /\ SearchOK' /\ SearchIsTracked' /\ lines' \in [Prompts -> Seq(Text)]
          /\ ~incsearch => search' = search
      BY <2>2, <2>3, InputChangedStep DEF Inv
    <2>5. ListOK'
      BY <1>4, <2>3, ClosedTypes DEF ListOK
    <2>6. InputOK' /\ HistoryOK'
      BY <1>1, <2>2, <2>3, <2>4 DEF Inv, InputOK, HistoryOK
    <2>7. PromptOK'
      BY <1>1, <1>2, <2>2, <2>3, <2>4 DEF Inv, PromptOK, Focused, HasPrompt
    <2> QED
      BY <1>1, <2>2, <2>3, <2>4, <2>5, <2>6, <2>7 DEF Inv, ListIsOfPrompt, Kind, Ends, HasPrompt, Focused
  <1>8. CASE Len(new.items) > 1
    <2>1. l \in AllLists /\ l.active = 0 /\ l.items = new.items
      BY <1>4 DEF AllLists
    <2> HIDE DEF l
    <2> DEFINE m == new.items[shown.sel]
    <2>2. /\ list' = shown /\ Select(c, m)
          /\ UNCHANGED <<search, pending, register, lines>>
      <3>1. ~(new.items = <<>>) /\ ~(Len(new.items) = 1)
        BY <1>8, <1>9, <1>10
      <3>2. list' = shown /\ Select(c, m) /\ NoSearch(search)
        BY <1>1, <3>1, Zenon
      <3> QED
        BY <3>2 DEF NoSearch
    <2>3. /\ shown \in AllLists /\ shown.items = new.items
          /\ shown.active <= Len(new.items) + 1
          /\ shown.sel \in 1 .. Len(new.items)
      BY <1>4, <1>8, <2>1, CompletionNextType
    <2> HIDE DEF shown
    <2>4. m \in Text /\ m = IF shown.sel = 0 THEN c.token ELSE shown.items[shown.sel]
      BY <1>4, <2>3
    <2> HIDE DEF m
    <2>5. /\ comp' \in AllComps /\ CompOf(shown, comp')
          /\ text' = comp'.current /\ text' \in Text /\ text'[1] = c.prefix[1]
          /\ UNCHANGED <<timer, lost>>
      BY <1>5, <2>2, <2>3, <2>4, SelectStep
    <2>6. InputOK' /\ HistoryOK' /\ SearchOK' /\ SearchIsTracked'
      BY <1>1, <2>2, <2>5 DEF Inv, InputOK, HistoryOK, SearchOK, SearchIsTracked
    <2>7. ListOK'
      BY <1>4, <2>2, <2>3, <2>5 DEF ListOK
    <2>8. ListIsOfPrompt'
      BY <1>1, <2>2, <2>5 DEF ListIsOfPrompt, Focused, HasPrompt
    <2>9. PromptOK'
      BY <1>1, <1>2, <1>5, <2>2, <2>5 DEF Inv, PromptOK, Focused, HasPrompt
    <2> QED
      BY <1>1, <1>5, <2>5, <2>6, <2>7, <2>8, <2>9 DEF Inv, Kind, Ends, HasPrompt, Focused
  <1> QED
    BY <1>6, <1>7, <1>8, <1>9, <1>10, Zenon

\* The walk for a text stands at one of its items, and is of the text's prompt.
LEMMA WalkForType ==
    ASSUME HistoryOK, NEW t \in Text, t # <<>>, t[1] \in Prompts, NEW w, w = WalkFor(t)
    PROVE  w \in AllWalks /\ w.at \in DOMAIN w.items /\ w.prefix = t[1]
  <1>1. CASE walk # NoWalk /\ t = <<walk.prefix>> \o walk.items[walk.at]
    <2>1. w = walk
      BY <1>1 DEF WalkFor
    <2>2. walk \in AllWalks /\ walk.at \in DOMAIN walk.items
      BY <1>1 DEF HistoryOK
    <2> DEFINE p == walk.prefix
               u == walk.items[walk.at]
    <2>3. p \in Char /\ u \in Text
      BY <2>2, CmdLineAssumption DEF AllWalks
    <2> DEFINE first == <<p>>
    <2>4. first \in Text /\ first # <<>> /\ first[1] = p
      BY <2>3 DEF Text
    <2>5. t = first \o u
      BY <1>1
    <2> HIDE DEF p, u, first
    <2>6. t[1] = p
      BY <2>3, <2>4, <2>5, ConcatProperties, EmptySeq DEF Text
    <2> QED
      BY <2>1, <2>2, <2>6 DEF p
  <1>2. CASE ~(walk # NoWalk /\ t = <<walk.prefix>> \o walk.items[walk.at])
    <2> DEFINE rest == Rest(t)
               more == StartWith(Newest(lines[t[1]]), Rest(t))
               items == <<rest>> \o more
    <2>1. rest \in Text
      BY TextTypes
    <2>2. more \in Seq(Text)
      <3>1. lines[t[1]] \in Seq(Text)
        BY DEF HistoryOK
      <3> QED
        BY <3>1, StartWithType, NewestType
    <2>3. w = [items |-> items, at |-> 1, prefix |-> t[1]]
      BY <1>2, Zenon DEF WalkFor
    <2> HIDE DEF rest, more
    <2>4. items \in Seq(Text) /\ 1 \in DOMAIN items
      BY <2>1, <2>2
    <2> HIDE DEF items
    <2> QED
      BY <2>3, <2>4 DEF AllWalks
  <1> QED
    BY <1>1, <1>2

\* Walk: a step through the history, or none behind its ends.
LEMMA WalkStep ==
    ASSUME Inv, NEW up \in BOOLEAN, Walk(up)
    PROVE  Inv' /\ Kind /\ Ends
  <1> DEFINE w == WalkFor(text)
             to == IF up THEN w.at + 1 ELSE w.at - 1
             at == IF to \in DOMAIN w.items THEN to ELSE w.at
             t == <<w.prefix>> \o w.items[at]
             shown == list # Closed
  <1>1. /\ HasPrompt
        /\ walk' = [w EXCEPT !.at = at]
        /\ InputPrint(t, FALSE)
        /\ InputChanged(t, search, shown)
        /\ UNCHANGED <<mode, list, comp, incsearch>>
    BY Zenon DEF Walk, compVars
  <1>2. text \in Text /\ text # <<>> /\ text[1] \in Prompts
    BY <1>1 DEF Inv, InputOK, PromptOK, HasPrompt
  <1>3. w \in AllWalks /\ w.at \in DOMAIN w.items /\ w.prefix = text[1]
    BY <1>2, WalkForType DEF Inv
  <1> HIDE DEF w
  <1>4. at \in DOMAIN w.items
    BY <1>3
  <1> HIDE DEF at
  <1>5. w.items[at] \in Text /\ at \in Nat
    BY <1>3, <1>4 DEF AllWalks
  <1>6. t \in Text /\ t # <<>> /\ t[1] = text[1]
    <2> DEFINE p == w.prefix
               u == w.items[at]
               first == <<p>>
    <2>1. p \in Char /\ u \in Text
      BY <1>2, <1>3, <1>5, CmdLineAssumption
    <2>2. first \in Text /\ first # <<>> /\ first[1] = p
      BY <2>1 DEF Text
    <2>3. t = first \o u
      OBVIOUS
    <2>5. p = text[1]
      BY <1>3
    <2> HIDE DEF p, u, first
    <2>4. first \o u \in Text /\ first \o u # <<>> /\ (first \o u)[1] = p
      BY <2>1, <2>2, ConcatProperties, EmptySeq DEF Text
    <2> QED
      BY <2>3, <2>4, <2>5
  <1> HIDE DEF t
  <1>7. walk' \in AllWalks /\ walk'.at \in DOMAIN walk'.items
    BY <1>1, <1>3, <1>4, <1>5 DEF AllWalks
  <1>8. text' = t /\ timer' = FALSE /\ lost' \in 0 .. MaxLost
    BY <1>1, PrintStep DEF Inv
  <1>9. shown \in BOOLEAN
    OBVIOUS
  <1> HIDE DEF shown
  <1>10. /\ SearchOK' /\ SearchIsTracked' /\ lines' \in [Prompts -> Seq(Text)]
         /\ ~incsearch => search' = search
    BY <1>1, <1>6, <1>9, InputChangedStep DEF Inv
  <1>11. InputOK' /\ HistoryOK' /\ ListOK'
    BY <1>1, <1>6, <1>7, <1>8, <1>10 DEF Inv, InputOK, HistoryOK, ListOK
  <1>12. ListIsOfPrompt'
    BY <1>1 DEF Inv, ListIsOfPrompt, Focused, CompOf, Shown
  <1>13. PromptOK'
    BY <1>1, <1>2, <1>6, <1>8, <1>10 DEF Inv, PromptOK, HasPrompt, Focused
  <1> QED
    BY <1>1, <1>6, <1>8, <1>10, <1>11, <1>12, <1>13 DEF Inv, Kind, Ends, HasPrompt, Focused

\* EnterSearch: the prompt is left, and what stands in it is committed.
LEMMA EnterSearchStep ==
    ASSUME Inv, EnterSearch
    PROVE  Inv' /\ Kind /\ Ends
  <1> DEFINE s == IF incsearch THEN Finish(search) ELSE search
             query == IF Len(text) = 1 THEN None ELSE Rest(text)
  <1>1. /\ HasPrompt
        /\ mode' = "normal" /\ list' = Closed /\ comp' = Idle(comp.count)
        /\ text' = Message /\ UNCHANGED <<timer, lost, walk, incsearch>>
        /\ Search(s, query, TRUE)
    BY DEF EnterSearch, NoList, SetText
  <1>2. s \in {search, Finish(search)}
    OBVIOUS
  <1>3. query \in Text
    BY <1>1, TextTypes DEF Inv, InputOK, HasPrompt
  <1> HIDE DEF s, query
  <1>4. /\ SearchOK' /\ SearchIsTracked' /\ lines' \in [Prompts -> Seq(Text)]
        /\ pending' = pending => search' = s /\ ~s.active
    BY <1>1, <1>2, <1>3, SearchStep DEF Inv
  <1>5. InputOK' /\ HistoryOK'
    BY <1>1, <1>4, TextTypes DEF Inv, InputOK, HistoryOK
  <1>6. ListOK'
    <2>1. comp.count \in Text
      BY DEF Inv, ListOK, AllComps
    <2> QED
      BY <1>1, <2>1, ClosedTypes DEF ListOK
  <1>7. ~Focused'
    BY <1>1 DEF Focused
  <1> QED
    BY <1>1, <1>4, <1>5, <1>6, <1>7 DEF Inv, ListIsOfPrompt, PromptOK, Kind, Ends, HasPrompt

\* EnterCommand: the prompt is left, and the command may print.
LEMMA EnterCommandStep ==
    ASSUME Inv, NEW recorded \in BOOLEAN, EnterCommand(recorded)
    PROVE  Inv' /\ Kind /\ Ends
  <1> DEFINE s == IF incsearch THEN Finish(search) ELSE search
  <1>1. /\ HasPrompt /\ text[1] = ":"
        /\ mode' = "normal" /\ list' = Closed /\ comp' = Idle(comp.count)
        /\ search' = s
        /\ lines' = IF recorded THEN [lines EXCEPT ![":"] = Append(@, Rest(text))] ELSE lines
        /\ UNCHANGED <<walk, register, pending, incsearch>>
    BY DEF EnterCommand, NoList
  <1>2. s \in {search, Finish(search)} /\ ~s.active
    BY <1>1 DEF Inv, PromptOK, HasPrompt, Finish, SearchOK, AllSearches
  <1> HIDE DEF s
  <1>3. s \in AllSearches /\ s.awaited <= Len(pending) /\ Tracked(s, pending)
    BY <1>2, SearchesOfState DEF Inv
  <1>4. SearchOK' /\ SearchIsTracked'
    BY <1>1, <1>3 DEF Inv, SearchOK, SearchIsTracked
  <1>5. lines' \in [Prompts -> Seq(Text)]
    <2>1. text \in Text /\ Rest(text) \in Text
      BY <1>1, TextTypes DEF Inv, InputOK, HasPrompt
    <2>2. lines \in [Prompts -> Seq(Text)]
      BY DEF Inv, HistoryOK
    <2>3. \A p \in Prompts : Append(lines[p], Rest(text)) \in Seq(Text)
      BY <2>1, <2>2, AppendProperties
    <2> QED
      BY <1>1, <2>2, <2>3
  <1>6. text' \in Text /\ timer' \in BOOLEAN /\ lost' \in 0 .. MaxLost
    <2>1. CASE text' = <<>> /\ UNCHANGED <<timer, lost>>
      BY <2>1, TextTypes DEF Inv, InputOK
    <2>2. CASE \E hide \in BOOLEAN : InputPrint(Message, hide)
      BY <2>2, PrintStep, TextTypes DEF Inv, InputOK
    <2> QED
      BY <2>1, <2>2 DEF EnterCommand, SetText
  <1>7. ListOK'
    <2>1. comp.count \in Text
      BY DEF Inv, ListOK, AllComps
    <2> QED
      BY <1>1, <2>1, ClosedTypes DEF ListOK
  <1>8. InputOK' /\ HistoryOK'
    BY <1>1, <1>5, <1>6 DEF Inv, InputOK, HistoryOK
  <1>9. ~Focused'
    BY <1>1 DEF Focused
  <1> QED
    BY <1>1, <1>2, <1>4, <1>7, <1>8, <1>9 DEF Inv, ListIsOfPrompt, PromptOK, Kind, Ends, HasPrompt

\* Echo: outside a prompt a message is printed.
LEMMA EchoStep ==
    ASSUME Inv, NEW hide \in BOOLEAN, Echo(hide)
    PROVE  Inv' /\ Kind /\ Ends
  <1>1. /\ ~Focused /\ InputPrint(Message, hide)
        /\ UNCHANGED <<mode, list, comp, walk, lines, search, pending, register, incsearch>>
    BY DEF Echo, compVars, searchVars
  <1>2. text' = Message /\ timer' = hide /\ lost' \in 0 .. MaxLost
    BY <1>1, PrintStep DEF Inv
  <1>3. InputOK'
    BY <1>1, <1>2, TextTypes DEF Inv, InputOK
  <1>4. ~Focused'
    BY <1>1 DEF Focused
  <1>5. HistoryOK' /\ SearchOK' /\ ListOK' /\ SearchIsTracked'
    BY <1>1 DEF Inv, HistoryOK, SearchOK, ListOK, SearchIsTracked
  <1>6. ListIsOfPrompt' /\ PromptOK'
    BY <1>1, <1>4 DEF Inv, ListIsOfPrompt, PromptOK
  <1> QED
    BY <1>1, <1>3, <1>5, <1>6 DEF Inv, Kind, Ends, HasPrompt

\* Timer: in a prompt, where only a lost one can run, the text is cleared.
LEMMA TimerStep ==
    ASSUME Inv, NEW known \in BOOLEAN, Timer(known)
    PROVE  Inv' /\ Kind /\ Ends
  <1>1. /\ IF known THEN timer ELSE lost > 0
        /\ lost' = IF known THEN lost ELSE lost - 1
        /\ IF Focused THEN text' = <<>> /\ timer' = FALSE
           ELSE text' = text /\ timer' = (timer /\ ~known)
        /\ UNCHANGED <<mode, list, comp, walk, lines, search, pending, register, incsearch>>
    BY Zenon DEF Timer, compVars, searchVars
  <1>2. lost' \in 0 .. MaxLost
    BY <1>1, CmdLineAssumption DEF Inv, InputOK
  <1>3. text' \in Text /\ timer' \in BOOLEAN
    <2>1. CASE Focused
      BY <1>1, <2>1, TextTypes DEF Inv, InputOK
    <2>2. CASE ~Focused
      BY <1>1, <2>2 DEF Inv, InputOK
    <2> QED
      BY <2>1, <2>2
  <1>4. InputOK'
    BY <1>1, <1>2, <1>3 DEF Inv, InputOK
  <1>5. HistoryOK' /\ SearchOK' /\ ListOK' /\ SearchIsTracked'
    BY <1>1 DEF Inv, HistoryOK, SearchOK, ListOK, SearchIsTracked
  <1>6. ListIsOfPrompt'
    BY <1>1 DEF Inv, ListIsOfPrompt, Focused, CompOf, Shown
  <1>7. PromptOK'
    BY <1>1 DEF Inv, PromptOK, Focused
  <1> QED
    BY <1>1, <1>4, <1>5, <1>6, <1>7 DEF Inv, Kind, Ends, HasPrompt, Focused

\* NextMatch: n.
LEMMA NextMatchStep ==
    ASSUME Inv, NextMatch
    PROVE  Inv' /\ Kind /\ Ends
  <1>1. /\ ~Focused /\ ~Focused' /\ Search(search, None, FALSE)
        /\ UNCHANGED <<mode, text, timer, lost, list, comp, walk, incsearch>>
    BY DEF NextMatch, inputVars, compVars, Focused
  <1>2. SearchOK' /\ SearchIsTracked' /\ lines' \in [Prompts -> Seq(Text)]
    BY <1>1, SearchStep, TextTypes DEF Inv, InputOK
  <1>3. InputOK' /\ HistoryOK' /\ ListOK'
    BY <1>1, <1>2 DEF Inv, InputOK, HistoryOK, ListOK
  <1>4. ListIsOfPrompt' /\ PromptOK'
    BY <1>1 DEF Inv, ListIsOfPrompt, PromptOK
  <1> QED
    BY <1>1, <1>2, <1>3, <1>4 DEF Inv, Kind, Ends, HasPrompt

\* Answer: of the page.
LEMMA AnswerStep ==
    ASSUME Inv, Answer
    PROVE  Inv' /\ Kind /\ Ends
  <1>1. /\ SearchOK' /\ SearchIsTracked' /\ search'.active = search.active
    BY AnswerSearch DEF Answer, Inv
  <1>2. UNCHANGED <<mode, text, timer, lost, list, comp, walk, lines, incsearch>>
    BY DEF Answer, inputVars, compVars
  <1>3. InputOK' /\ HistoryOK' /\ ListOK'
    BY <1>2 DEF Inv, InputOK, HistoryOK, ListOK
  <1>4. ListIsOfPrompt'
    BY <1>2 DEF Inv, ListIsOfPrompt, Focused, CompOf, Shown
  <1>5. PromptOK'
    BY <1>1, <1>2 DEF Inv, PromptOK, Focused
  <1> QED
    BY <1>1, <1>2, <1>3, <1>4, <1>5 DEF Inv, Kind, Ends, HasPrompt, Focused

\* LoadCommitted: the search ends.
LEMMA LoadCommittedStep ==
    ASSUME Inv, LoadCommitted
    PROVE  Inv' /\ Kind /\ Ends
  <1>1. /\ IF search.active /\ ~Focused THEN InputPrint(<<>>, FALSE) ELSE UNCHANGED <<text, timer, lost>>
        /\ search' = Finish(search)
        /\ UNCHANGED <<mode, list, comp, walk, lines, register, pending, incsearch>>
    BY Zenon DEF LoadCommitted, compVars, inputVars
  <1>2. text' \in Text /\ timer' \in BOOLEAN /\ lost' \in 0 .. MaxLost
    <2>1. CASE search.active /\ ~Focused
      <3> DEFINE none == <<>>
      <3>1. none \in Text /\ InputPrint(none, FALSE)
        BY <1>1, <2>1, TextTypes DEF Inv, InputOK
      <3> HIDE DEF none
      <3> QED
        BY <3>1, PrintStep DEF Inv
    <2>2. CASE ~(search.active /\ ~Focused)
      BY <1>1, <2>2 DEF Inv, InputOK
    <2> QED
      BY <2>1, <2>2
  <1>3. /\ Finish(search) \in AllSearches /\ Finish(search).awaited <= Len(pending)
        /\ Tracked(Finish(search), pending)
    BY SearchesOfState DEF Inv
  <1>4. InputOK' /\ HistoryOK' /\ SearchOK' /\ ListOK' /\ SearchIsTracked'
    BY <1>1, <1>2, <1>3 DEF Inv, InputOK, HistoryOK, SearchOK, ListOK, SearchIsTracked
  <1>5. ListIsOfPrompt'
    BY <1>1 DEF Inv, ListIsOfPrompt, Focused, CompOf, Shown
  <1>6. PromptOK'
    <2>1. ~search'.active
      BY <1>1 DEF Inv, SearchOK, AllSearches, Finish
    <2>2. Focused' => text' = text /\ timer' = timer
      BY <1>1 DEF Focused
    <2> QED
      BY <1>1, <2>1, <2>2 DEF Inv, PromptOK, Focused
  <1>7. Kind /\ Ends
    BY <1>1 DEF Kind, Ends, HasPrompt, Focused
  <1> QED
    BY <1>4, <1>5, <1>6, <1>7 DEF Inv

-----------------------------------------------------------------------------
(* The theorems.                                                             *)

\* The program starts in the invariant.
LEMMA InitInv == Init => Inv
  <1> SUFFICES ASSUME Init PROVE Inv
    OBVIOUS
  <1>1. <<>> \in Text /\ None \in Text /\ ":" \in Prompts
    BY CmdLineAssumption DEF Text, Prompts
  <1> DEFINE none == <<>>
  <1>2. none \in Text /\ Closed \in AllLists /\ Idle(none) \in AllComps
        /\ Closed.sel = 0 /\ Closed.active = 0 /\ Len(Closed.items) = 0
    BY <1>1, ClosedTypes
  <1>3. comp = Idle(none) /\ list = Closed
    BY DEF Init
  <1> HIDE DEF none
  <1>4. ListOK
    BY <1>2, <1>3 DEF ListOK
  <1>5. SearchOK /\ SearchIsTracked
    <2>1. search \in AllSearches
      BY <1>1, Zenon DEF Init, AllSearches
    <2>2. pending = <<>> /\ search.awaited = 0 /\ search.last = None /\ register = None
      BY DEF Init
    <2>3. pending \in Seq(AllRequests) /\ Len(pending) = 0 /\ DOMAIN pending = {}
      BY <2>2
    <2> QED
      BY <1>1, <2>1, <2>2, <2>3, CmdLineAssumption DEF SearchOK, SearchIsTracked, Tracked
  <1>6. InputOK
    <2>1. mode = "normal" /\ text = <<>> /\ lost = 0 /\ incsearch \in BOOLEAN
      BY DEF Init
    <2>2. timer \in BOOLEAN
      BY Zenon DEF Init
    <2> QED
      BY <1>1, <2>1, <2>2, CmdLineAssumption DEF InputOK
  <1>7. HistoryOK
    <2>1. walk = NoWalk /\ lines = Lines
      BY DEF Init
    <2>2. <<>> \in Seq(Text)
      OBVIOUS
    <2>3. NoWalk \in AllWalks
      BY <1>1, <2>2 DEF NoWalk, AllWalks
    <2> QED
      BY <2>1, <2>3, CmdLineAssumption DEF HistoryOK
  <1>8. ~Focused /\ list = Closed
    BY DEF Init, Focused
  <1> QED
    BY <1>4, <1>5, <1>6, <1>7, <1>8 DEF Inv, ListIsOfPrompt, PromptOK

\* Every step keeps it.
LEMMA NextInv ==
    ASSUME Inv, [Next]_vars
    PROVE  Inv' /\ Kind /\ Ends
  <1>1. CASE UNCHANGED vars
    <2>1. UNCHANGED <<mode, text, timer, lost, list, comp, walk, lines, search, pending, register,
                      incsearch, opened>>
      BY <1>1 DEF vars, inputVars, compVars, searchVars
    <2>2. InputOK' /\ HistoryOK' /\ SearchOK' /\ ListOK' /\ PromptOK' /\ SearchIsTracked'
      BY <2>1 DEF Inv, InputOK, HistoryOK, SearchOK, ListOK, PromptOK, Focused, SearchIsTracked
    <2>3. ListIsOfPrompt'
      BY <2>1 DEF Inv, ListIsOfPrompt, Focused, CompOf, Shown
    <2> QED
      BY <2>1, <2>2, <2>3 DEF Inv, Kind, Ends, HasPrompt, Focused
  <1>2. ASSUME NEW p \in Prompts, OpenPrompt(p) PROVE Inv' /\ Kind /\ Ends
    BY <1>2, OpenPromptStep
  <1>3. ASSUME NEW k \in UNION {Keys[p] : p \in Prompts}, Type(k) PROVE Inv' /\ Kind /\ Ends
    BY <1>3, TypeStep
  <1>4. CASE Backspace \/ ClearLine
    BY <1>4, BackspaceStep, ClearLineStep
  <1>5. ASSUME NEW clears \in BOOLEAN, Escape(clears) PROVE Inv' /\ Kind /\ Ends
    BY <1>5, EscapeStep
  <1>6. ASSUME NEW back \in BOOLEAN, TabOn(back) \/ TabStart(back) \/ Walk(back)
        PROVE  Inv' /\ Kind /\ Ends
    BY <1>6, TabOnStep, TabStartStep, WalkStep
  <1>7. CASE EnterSearch
    BY <1>7, EnterSearchStep
  <1>8. ASSUME NEW recorded \in BOOLEAN, EnterCommand(recorded) PROVE Inv' /\ Kind /\ Ends
    BY <1>8, EnterCommandStep
  <1>9. ASSUME NEW hide \in BOOLEAN, Echo(hide) PROVE Inv' /\ Kind /\ Ends
    BY <1>9, EchoStep
  <1>10. ASSUME NEW known \in BOOLEAN, Timer(known) PROVE Inv' /\ Kind /\ Ends
    BY <1>10, TimerStep
  <1>11. CASE NextMatch \/ Answer \/ LoadCommitted
    BY <1>11, NextMatchStep, AnswerStep, LoadCommittedStep
  <1> QED
    BY <1>1, <1>2, <1>3, <1>4, <1>5, <1>6, <1>7, <1>8, <1>9, <1>10, <1>11 DEF Next

\* Every state the program reaches satisfies the invariant.
THEOREM Invariance == Spec => []Inv
  <1>1. Inv /\ [Next]_vars => Inv'
    BY NextInv
  <1> QED
    BY InitInv, <1>1, PTL DEF Spec

\* The state keeps its shape: what is selected is an item of the list, the walk
\* through the history stands at a line of it, and no answer is awaited that the
\* page will not give.
THEOREM TypeCorrect == Spec => []TypeOK
  <1>1. Inv => TypeOK
    <2> SUFFICES ASSUME Inv PROVE TypeOK
      OBVIOUS
    <2>1. list.sel \in 0 .. Len(list.items) /\ list.active \in 0 .. Len(list.items) + 1
      BY DEF Inv, ListOK, AllLists
    <2>2. search.awaited \in 0 .. Len(pending) /\ Len(pending) <= MaxPending
      BY LenProperties DEF Inv, SearchOK, AllSearches
    <2> QED
      BY <2>1, <2>2 DEF Inv, InputOK, HistoryOK, TypeOK
  <1> QED
    BY Invariance, <1>1, PTL

\* While completions are shown, what stands in the box is the selected one, or
\* what was typed where none is, unless the user has changed it since.
THEOREM ShownIsSelected == Spec => []SelectionIsShown
  <1>1. Inv => SelectionIsShown
    <2> SUFFICES ASSUME Inv, list # Closed
                 PROVE  /\ Focused
                        /\ text = comp.current =>
                              IF list.sel = 0 THEN comp.count = <<>> => text = comp.started
                              ELSE text = Shown(comp, list.items[list.sel])
      BY DEF SelectionIsShown
    <2>1. Focused /\ CompOf(list, comp) /\ comp \in AllComps
      BY DEF Inv, ListIsOfPrompt, ListOK
    <2>2. ASSUME list.sel = 0, comp.count = <<>>, text = comp.current
          PROVE  text = comp.started
      <3> DEFINE p == comp.prefix
                 k == comp.count
                 u == comp.token
      <3>1. p \in Text /\ k \in Text /\ u \in Text /\ p # <<>>
        BY <2>1 DEF AllComps, CompOf
      <3>2. text = p \o k \o u /\ comp.started = p \o u /\ k = <<>>
        BY <2>1, <2>2 DEF CompOf, Shown
      <3> HIDE DEF p, k, u
      <3>3. p \o k \o u = p \o u
        BY <3>1, <3>2, JoinedTexts
      <3> QED
        BY <3>2, <3>3
    <2>3. ASSUME list.sel # 0, text = comp.current
          PROVE  text = Shown(comp, list.items[list.sel])
      BY <2>1, <2>3 DEF CompOf
    <2> QED
      BY <2>1, <2>2, <2>3
  <1> QED
    BY Invariance, <1>1, PTL

\* While the user types in a prompt, no known timer can clear it.
THEOREM NothingClearsPrompt == Spec => []PromptStays
  <1>1. Inv => PromptStays
    BY DEF Inv, PromptOK, PromptStays
  <1> QED
    BY Invariance, <1>1, PTL

\* When the page has answered everything, the count of matches is that of the
\* last search, whatever order searches, answers and page loads came in, unless
\* a search overtook a step to the next match.
THEOREM CountIsOfLastSearch == Spec => []MatchesAreCurrent
  <1>1. Inv => MatchesAreCurrent
    <2> SUFFICES ASSUME Inv, pending = <<>>, search.last # None, ~search.raced
                 PROVE  search.matches = search.last /\ search.awaited = 0
      BY DEF MatchesAreCurrent
    <2>1. Len(pending) = 0 /\ search.awaited \in Nat /\ search.awaited <= Len(pending)
      BY DEF Inv, SearchOK, AllSearches
    <2>2. search.awaited = 0
      BY <2>1
    <2> QED
      BY <2>2 DEF Inv, SearchIsTracked, Tracked
  <1> QED
    BY Invariance, <1>1, PTL

\* Neither the history that the last prompt was left in nor a completion turns a
\* prompt into one of another kind, and a prompt that is left without a commit
\* takes its incremental search with it.
THEOREM PromptsStayApart == Spec => PromptsAreApart
  <1>1. Inv /\ [Next]_vars
            => /\ [HasPrompt /\ HasPrompt' => text'[1] = text[1]]_vars
               /\ [Focused /\ ~Focused' /\ pending' = pending => ~search'.active]_vars
    BY NextInv DEF Kind, Ends
  <1> QED
    BY Invariance, <1>1, PTL DEF Spec, PromptsAreApart, PromptIsKept, SearchEndsWithPrompt
=============================================================================
