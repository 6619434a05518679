--------------------------- MODULE Storage_proofs ---------------------------
(***************************************************************************)
(* What holds of Storage for every number of instances and every value of  *)
(* the bounds.                                                             *)
(*                                                                         *)
(* ClosedBounded and HistoryOnlyGrows are not inductive: an instance that  *)
(* was overtaken by others replaces a file by what it read long before.    *)
(* The invariant says which operation may be about to replace or to write  *)
(* which file, and that what is kept for the closed pages has the bound.   *)
(* The types need more (Rest): a file that is open for writing exists, and *)
(* nothing that is dead is in an operation.  The bookmarks and the queue   *)
(* of an instance that is alone need that what it read is still there.     *)
(***************************************************************************)
EXTENDS Storage, SequenceTheorems, WellFoundedInduction, TLAPS

FilesOf(k) ==
    CASE k = "append" -> {"history", "bookmark", "queue"}
      [] k \in {"unshift", "write", "pop"} -> {"queue"}
      [] k \in {"reopen", "close"} -> {"closed"}
      [] OTHER -> {"bookmark"}

OpOK(o) ==
    \/ o = NoOp
    \/ /\ o \in [kind : Kind, file : FilesOf(o.kind), uri : Uri,
                 lines : Seq(Uri), linked : BOOLEAN]
       /\ o.file = "closed" => Len(o.lines) <= MaxClosed

OpsOK ==
    /\ op = [p \in Instance |-> op[p]]
    /\ \A p \in Instance : OpOK(op[p])

FilesOK ==
    /\ file = [f \in File |-> file[f]]
    /\ \A f \in {"history", "bookmark", "queue", "closed"} : file[f] \in Seq(Uri)
    /\ Len(file["closed"]) <= MaxClosed

Inv == OpsOK /\ FilesOK

HistoryStep == IsPrefix(file["history"], file'["history"])

-----------------------------------------------------------------------------
(* Sets of numbers, and functions that are defined step by step.             *)

\* A set of numbers that is not empty has a least one.
LEMMA LeastNumber ==
    ASSUME NEW T, T \subseteq Nat, T # {}
    PROVE  \E x \in T : \A y \in T : x <= y
  <1> DEFINE R == OpToRel(<, Nat)
  <1>1. IsWellFoundedOn(R, Nat)
    BY NatLessThanWellFounded
  <1> HIDE DEF R
  <1>2. PICK x \in T : \A y \in T : ~ (<<y, x>> \in R)
    BY <1>1, WFMin
  <1>3. \A y \in T : y < x => <<y, x>> \in R
    BY DEF R, OpToRel
  <1>4. \A y \in T : ~ (y < x)
    BY <1>2, <1>3
  <1>5. \A y \in T : x <= y
    BY <1>4
  <1> QED
    BY <1>5

\* A set that has 0 and with each number the next one has all numbers.
LEMMA AllNumbers ==
    ASSUME NEW S, 0 \in S, \A n \in Nat : n \in S => n + 1 \in S
    PROVE  Nat \subseteq S
  <1> DEFINE T == Nat \ S
  <1> SUFFICES ASSUME T # {} PROVE FALSE
    OBVIOUS
  <1>1. T \subseteq Nat
    OBVIOUS
  <1> HIDE DEF T
  <1>2. PICK x \in T : \A y \in T : x <= y
    BY <1>1, LeastNumber
  <1>3. x \in Nat /\ x # 0
    BY <1>1 DEF T
  <1>4. x - 1 \in Nat /\ (x - 1) + 1 = x /\ ~ (x <= x - 1)
    BY <1>3
  <1>5. x - 1 \in T
    BY <1>3, <1>4 DEF T
  <1> QED
    BY <1>2, <1>4, <1>5

\* A function whose values are made one from the other exists.
LEMMA Iterate ==
    ASSUME NEW S, NEW a \in S, NEW n \in Nat, NEW G \in [1 .. n -> [S -> S]]
    PROVE  \E f \in [0 .. n -> S] : f[0] = a /\ \A i \in 1 .. n : f[i] = G[i][f[i - 1]]
  <1> DEFINE Good == {k \in Nat : k <= n => \E f \in [0 .. k -> S] :
                         f[0] = a /\ \A i \in 1 .. k : f[i] = G[i][f[i - 1]]}
  <1>1. 0 \in Good
    <2> DEFINE f == [i \in 0 .. 0 |-> a]
    <2>1. f \in [0 .. 0 -> S] /\ f[0] = a /\ 1 .. 0 = {}
      OBVIOUS
    <2> QED
      BY <2>1
  <1>2. ASSUME NEW k \in Nat, k \in Good PROVE k + 1 \in Good
    <2> SUFFICES ASSUME k + 1 <= n
                 PROVE  \E f \in [0 .. k + 1 -> S] :
                            f[0] = a /\ \A i \in 1 .. k + 1 : f[i] = G[i][f[i - 1]]
      OBVIOUS
    <2>1. PICK f \in [0 .. k -> S] : f[0] = a /\ \A i \in 1 .. k : f[i] = G[i][f[i - 1]]
      BY <1>2
    <2> DEFINE g == [i \in 0 .. k + 1 |-> IF i = k + 1 THEN G[k + 1][f[k]] ELSE f[i]]
    <2>2. f[k] \in S /\ G[k + 1] \in [S -> S]
      OBVIOUS
    <2>3. g \in [0 .. k + 1 -> S]
      BY <2>2
    <2>4. g[0] = a
      BY <2>1
    <2>5. ASSUME NEW i \in 1 .. k + 1 PROVE g[i] = G[i][g[i - 1]]
      <3>1. CASE i = k + 1
        <4>1. i \in 0 .. k + 1 /\ k \in 0 .. k + 1 /\ i - 1 = k /\ k # k + 1
          BY <3>1
        <4>2. g[k + 1] = G[k + 1][f[k]]
          BY <3>1, <4>1, Zenon
        <4>3. g[k] = f[k]
          BY <4>1, Zenon
        <4> QED
          BY <3>1, <4>1, <4>2, <4>3, Zenon
      <3>2. CASE i # k + 1
        <4>1. i \in 1 .. k /\ i - 1 \in 0 .. k + 1 /\ i - 1 # k + 1
          BY <3>2
        <4> QED
          BY <2>1, <4>1
      <3> QED
        BY <3>1, <3>2
    <2> HIDE DEF g
    <2> QED
      BY <2>3, <2>4, <2>5
  <1> HIDE DEF Good
  <1>3. n \in Good
    BY <1>1, <1>2, AllNumbers
  <1> QED
    BY <1>3 DEF Good

-----------------------------------------------------------------------------
(* Sequences.                                                              *)

\* What was there before is a prefix of what is there with a line added.
LEMMA AppendedHasPrefix ==
    ASSUME NEW s \in Seq(Uri), NEW u \in Uri
    PROVE  IsPrefix(s, Append(s, u))
  BY DEF IsPrefix

\* A sequence is a prefix of itself.
LEMMA SamePrefix ==
    ASSUME NEW s \in Seq(Uri) PROVE IsPrefix(s, s)
  BY DEF IsPrefix

\* A text written over an old one consists of lines.
LEMMA OverlayTypes ==
    ASSUME NEW new \in Seq(Uri), NEW old \in Seq(Uri)
    PROVE  Overlay(new, old) \in Seq(Uri)
  <1> DEFINE m == Len(new) + 1
             n == Len(old)
  <1>1. m \in Int /\ n \in Int /\ m > 0
    OBVIOUS
  <1>2. \A i \in m .. n : old[i] \in Uri
    <2>1. \A i \in m .. n : i \in 1 .. Len(old)
      BY <1>1
    <2> QED
      BY <2>1
  <1>3. SubSeq(old, m, n) \in Seq(Uri)
    BY <1>1, <1>2, SubSeqProperties
  <1> QED
    BY <1>3, ConcatProperties DEF Overlay

\* The first n lines, and a line put before them.
LEMMA FirstLinesTypes ==
    ASSUME NEW lines \in Seq(Uri), NEW n \in Nat
    PROVE  FirstLines(lines, n) \in Seq(Uri) /\ Len(FirstLines(lines, n)) <= n
  <1> DEFINE m == IF Len(lines) < n THEN Len(lines) ELSE n
  <1>1. m \in Nat /\ m <= n /\ m <= Len(lines)
    OBVIOUS
  <1>2. \A i \in 1 .. m : lines[i] \in Uri
    <2>1. \A i \in 1 .. m : i \in 1 .. Len(lines)
      BY <1>1
    <2> QED
      BY <2>1
  <1> HIDE DEF m
  <1>3. 1 \in Int /\ m \in Int
    BY <1>1
  <1>4. /\ SubSeq(lines, 1, m) \in Seq(Uri)
        /\ Len(SubSeq(lines, 1, m)) = IF 1 <= m THEN m - 1 + 1 ELSE 0
    BY <1>2, <1>3, SubSeqProperties
  <1>5. Len(SubSeq(lines, 1, m)) = m
    BY <1>1, <1>4
  <1> QED
    BY <1>1, <1>4, <1>5 DEF FirstLines, m

\* A line put in front.
LEMMA PutBefore ==
    ASSUME NEW u \in Uri, NEW lines \in Seq(Uri)
    PROVE  <<u>> \o lines \in Seq(Uri) /\ Len(<<u>> \o lines) = Len(lines) + 1
  <1>1. <<u>> \in Seq(Uri) /\ Len(<<u>>) = 1
    OBVIOUS
  <1> QED
    BY <1>1, ConcatProperties

\* A line more.
LEMMA AppendedRange ==
    ASSUME NEW s \in Seq(Uri), NEW u \in Uri
    PROVE  Range(Append(s, u)) = Range(s) \cup {u}
  <1>1. DOMAIN Append(s, u) = 1 .. Len(s) + 1 /\ DOMAIN s = 1 .. Len(s)
    OBVIOUS
  <1>2. Append(s, u)[Len(s) + 1] = u /\ \A i \in 1 .. Len(s) : Append(s, u)[i] = s[i]
    OBVIOUS
  <1>3. 1 .. Len(s) + 1 = (1 .. Len(s)) \cup {Len(s) + 1}
    OBVIOUS
  <1> QED
    BY <1>1, <1>2, <1>3 DEF Range

\* All lines but those of the URI are left, and nothing else.
LEMMA WithoutIs ==
    ASSUME NEW lines \in Seq(Uri), NEW u
    PROVE  /\ Without(lines, u) \in Seq(Uri)
           /\ Range(Without(lines, u)) = Range(lines) \ {u}
  <1> DEFINE none == <<>>
             n == Len(lines)
             T == Seq(Uri)
             Step(i, t) == IF lines[i] = u THEN t ELSE Append(t, lines[i])
             P(F) == F = [i \in 0 .. n |-> IF i = 0 THEN none ELSE Step(i, F[i - 1])]
             G == [i \in 1 .. n |-> [t \in T |-> Step(i, t)]]
             First(k) == {lines[j] : j \in 1 .. k} \ {u}
  <1>1. n \in Nat /\ none \in T /\ Range(none) = First(0)
    BY DEF Range
  <1>2. G \in [1 .. n -> [T -> T]]
    OBVIOUS
  <1>3. \A i \in 1 .. n, t \in T : G[i][t] = Step(i, t) /\ Step(i, t) \in T
    OBVIOUS
  <1>4. ASSUME NEW k \in Nat, k + 1 \in 1 .. n, NEW t \in T, Range(t) = First(k)
        PROVE  Range(Step(k + 1, t)) = First(k + 1)
    <2>1. First(k + 1) = First(k) \cup ({lines[k + 1]} \ {u})
      <3>1. 1 .. k + 1 = (1 .. k) \cup {k + 1}
        OBVIOUS
      <3> QED
        BY <3>1
    <2>2. CASE lines[k + 1] = u
      BY <1>4, <2>1, <2>2
    <2>3. CASE lines[k + 1] # u
      <3>1. Range(Append(t, lines[k + 1])) = Range(t) \cup {lines[k + 1]}
        BY <1>4, AppendedRange
      <3> QED
        BY <1>4, <2>1, <2>3, <3>1
    <2> QED
      BY <2>2, <2>3
  <1>5. Range(lines) = {lines[j] : j \in 1 .. n}
    BY DEF Range
  <1> HIDE DEF G, T, n, Step, none, P, First
  <1>6. PICK f \in [0 .. n -> T] : f[0] = none /\ \A i \in 1 .. n : f[i] = G[i][f[i - 1]]
    <2>1. \E f \in [0 .. n -> T] : f[0] = none /\ \A i \in 1 .. n : f[i] = G[i][f[i - 1]]
      <3>1. n \in Nat /\ none \in T
        BY <1>1
      <3> QED
        BY <1>2, <3>1, Iterate
    <2> QED
      BY <2>1
  <1>7. P(f)
    <2>1. \A i \in 1 .. n : f[i] = Step(i, f[i - 1])
      BY <1>1, <1>3, <1>6
    <2>2. \A i \in 0 .. n : f[i] = IF i = 0 THEN none ELSE Step(i, f[i - 1])
      BY <1>1, <1>6, <2>1
    <2>3. f = [i \in 0 .. n |-> f[i]]
      BY <1>6
    <2> QED
      BY <2>2, <2>3, Zenon DEF P
  <1> DEFINE F == CHOOSE g : P(g)
  <1>8. P(F)
    BY <1>7, Zenon
  <1>9. Without(lines, u) = F[n]
    BY Zenon DEF Without, n, Step, P, none
  <1>10. F[0] = none /\ \A i \in 1 .. n : F[i] = Step(i, F[i - 1])
    <2>1. F = [i \in 0 .. n |-> IF i = 0 THEN none ELSE Step(i, F[i - 1])]
      BY <1>8 DEF P
    <2> HIDE DEF F
    <2>2. \A i \in 0 .. n : F[i] = IF i = 0 THEN none ELSE Step(i, F[i - 1])
      BY <2>1, Zenon
    <2> QED
      BY <1>1, <2>2
  <1> HIDE DEF F
  <1> DEFINE Good == {k \in Nat : k <= n => F[k] \in T /\ Range(F[k]) = First(k)}
  <1>11. 0 \in Good
    BY <1>1, <1>10
  <1>12. ASSUME NEW k \in Nat, k \in Good PROVE k + 1 \in Good
    <2> SUFFICES ASSUME k + 1 <= n
                 PROVE  F[k + 1] \in T /\ Range(F[k + 1]) = First(k + 1)
      OBVIOUS
    <2>1. k <= n /\ k + 1 \in 1 .. n /\ (k + 1) - 1 = k
      BY <1>1
    <2>2. F[k] \in T /\ Range(F[k]) = First(k)
      BY <1>12, <2>1
    <2>3. F[k + 1] = Step(k + 1, F[k])
      BY <1>10, <2>1
    <2> QED
      BY <1>3, <1>4, <2>1, <2>2, <2>3
  <1> HIDE DEF Good
  <1>13. n \in Good
    BY <1>1, <1>11, <1>12, AllNumbers
  <1>14. F[n] \in T /\ Range(F[n]) = First(n)
    BY <1>1, <1>13 DEF Good
  <1> QED
    BY <1>5, <1>9, <1>14 DEF T, First

-----------------------------------------------------------------------------
(* Steps of the operations.                                                *)

\* An operation that begins is one of those that may be.
LEMMA BeginOK ==
    ASSUME OpsOK, NEW p \in Instance, NEW k \in Kind, NEW f \in FilesOf(k),
           NEW u \in Uri, NEW lines \in Seq(Uri), Begin(p, k, f, u, lines),
           f = "closed" => Len(lines) <= MaxClosed
    PROVE  OpsOK'
  <1> DEFINE o == [kind |-> k, file |-> f, uri |-> u, lines |-> lines,
                   linked |-> k = "append" \/ f \in present]
  <1>1. OpOK(o)
    <2>1. (k = "append" \/ f \in present) \in BOOLEAN
      OBVIOUS
    <2> QED
      BY <2>1 DEF OpOK
  <1>2. op' = [op EXCEPT ![p] = o]
    BY DEF Begin
  <1> HIDE DEF o
  <1> QED
    BY <1>1, <1>2 DEF OpsOK

\* An operation ends.
LEMMA EndOK ==
    ASSUME OpsOK, NEW p \in Instance, op' = [op EXCEPT ![p] = NoOp]
    PROVE  OpsOK'
  BY DEF OpsOK, OpOK

\* The files stay as they are.
LEMMA SameOK ==
    ASSUME Inv, UNCHANGED file
    PROVE  FilesOK' /\ HistoryStep
  BY SamePrefix DEF Inv, FilesOK, HistoryStep

\* The queue is written.
LEMMA QueueOK ==
    ASSUME FilesOK, NEW s \in Seq(Uri), file' = [file EXCEPT !["queue"] = s]
    PROVE  FilesOK' /\ HistoryStep
  <1>1. file'["history"] = file["history"] /\ file'["closed"] = file["closed"]
        /\ file'["queue"] = s /\ file'["bookmark"] = file["bookmark"]
        /\ file' = [f \in File |-> file'[f]]
    BY DEF FilesOK, File
  <1> QED
    BY <1>1, SamePrefix DEF FilesOK, HistoryStep

\* Flush: a line is appended to the file, or to one that was replaced meanwhile.
LEMMA FlushOK ==
    ASSUME Inv, NEW p \in Instance, Flush(p)
    PROVE  Inv' /\ HistoryStep
  <1> DEFINE o == op[p]
  <1>1. /\ o.kind = "append"
        /\ file' = IF o.linked THEN [file EXCEPT ![o.file] = Append(file[o.file], o.uri)]
                               ELSE file
        /\ op' = [op EXCEPT ![p] = NoOp]
    BY DEF Flush
  <1>2. o.file \in {"history", "bookmark", "queue"} /\ o.uri \in Uri
    BY <1>1 DEF Inv, OpsOK, OpOK, NoOp, FilesOf
  <1>3. OpsOK'
    BY <1>1, EndOK DEF Inv
  <1> HIDE DEF o
  <1>4. CASE o.linked
    <2>1. /\ file' = [f \in File |-> file'[f]]
          /\ \A f \in File \ {o.file} : file'[f] = file[f]
          /\ file'[o.file] = Append(file[o.file], o.uri)
      BY <1>1, <1>2, <1>4 DEF Inv, FilesOK, File
    <2>2. ASSUME NEW f \in {"history", "bookmark", "queue", "closed"}
          PROVE  file'[f] \in Seq(Uri) /\ IsPrefix(file[f], file'[f])
      <3>1. file[f] \in Seq(Uri)
        BY DEF Inv, FilesOK
      <3>2. CASE f = o.file
        BY <1>2, <2>1, <3>1, <3>2, AppendProperties, AppendedHasPrefix
      <3>3. CASE f # o.file
        BY <2>1, <3>1, <3>3, SamePrefix DEF File
      <3> QED
        BY <3>2, <3>3
    <2>3. file'["closed"] = file["closed"]
      BY <1>2, <2>1 DEF File
    <2>4. FilesOK' /\ HistoryStep
      BY <2>1, <2>2, <2>3 DEF Inv, FilesOK, HistoryStep
    <2> QED
      BY <1>3, <2>4 DEF Inv
  <1>5. CASE ~o.linked
    BY <1>1, <1>3, <1>5, SameOK DEF Inv
  <1> QED
    BY <1>4, <1>5

\* Truncate: the file is empty.
LEMMA TruncateOK ==
    ASSUME Inv, NEW p \in Instance, Truncate(p)
    PROVE  Inv' /\ HistoryStep
  <1>1. op[p].kind = "unshift" /\ file' = [file EXCEPT !["queue"] = <<>>]
    BY DEF Truncate
  <1>2. FilesOK' /\ HistoryStep
    <2>1. <<>> \in Seq(Uri)
      OBVIOUS
    <2> QED
      BY <1>1, <2>1, QueueOK DEF Inv
  <1>3. CASE op[p].linked
    <2>1. op' = [op EXCEPT ![p].kind = "write"]
      BY <1>3 DEF Truncate
    <2>2. OpOK([op[p] EXCEPT !.kind = "write"])
      BY <1>1 DEF Inv, OpsOK, OpOK, NoOp, FilesOf, Kind
    <2>3. OpsOK'
      BY <2>1, <2>2 DEF Inv, OpsOK
    <2> QED
      BY <1>2, <2>3 DEF Inv
  <1>4. CASE ~op[p].linked
    BY <1>2, <1>4, EndOK DEF Truncate, Inv
  <1> QED
    BY <1>3, <1>4

\* WriteBack: the lines are written over what the file has by now.
LEMMA WriteBackOK ==
    ASSUME Inv, NEW p \in Instance, WriteBack(p)
    PROVE  Inv' /\ HistoryStep
  <1> DEFINE o == op[p]
  <1>1. /\ o.kind = "write"
        /\ file' = IF o.linked
                   THEN [file EXCEPT !["queue"] = Overlay(<<o.uri>> \o o.lines, file["queue"])]
                   ELSE file
        /\ op' = [op EXCEPT ![p] = NoOp]
    BY DEF WriteBack
  <1>2. o.uri \in Uri /\ o.lines \in Seq(Uri)
    BY <1>1 DEF Inv, OpsOK, OpOK, NoOp
  <1>3. OpsOK'
    BY <1>1, EndOK DEF Inv
  <1> HIDE DEF o
  <1>4. Overlay(<<o.uri>> \o o.lines, file["queue"]) \in Seq(Uri)
    BY <1>2, PutBefore, OverlayTypes DEF Inv, FilesOK
  <1> QED
    BY <1>1, <1>3, <1>4, QueueOK, SameOK DEF Inv

\* ReadPop: the list that was read, without its first line.
LEMMA ReadPopOK ==
    ASSUME Inv, NEW p \in Instance, NEW k \in {"pop", "reopen"}, ReadPop(p, k)
    PROVE  Inv' /\ HistoryStep
  <1> DEFINE f == IF k = "pop" THEN "queue" ELSE "closed"
  <1>1. file[f] # <<>> /\ Begin(p, k, f, Head(file[f]), Tail(file[f])) /\ UNCHANGED file
    BY DEF ReadPop
  <1>2. file[f] \in Seq(Uri) /\ (f = "closed" => Len(file[f]) <= MaxClosed)
    BY DEF Inv, FilesOK
  <1>3. k \in Kind /\ f \in FilesOf(k)
    BY DEF Kind, Replacing, FilesOf
  <1> HIDE DEF f
  <1>4. Head(file[f]) \in Uri /\ Tail(file[f]) \in Seq(Uri)
        /\ Len(Tail(file[f])) = Len(file[f]) - 1
    BY <1>1, <1>2, HeadTailProperties
  <1>5. f = "closed" => Len(Tail(file[f])) <= MaxClosed
    BY <1>2, <1>4, StorageAssumption
  <1> QED
    BY <1>1, <1>3, <1>4, <1>5, BeginOK, SameOK DEF Inv

\* ReadClosed: what will replace the file keeps the bound.
LEMMA ReadClosedOK ==
    ASSUME Inv, NEW p \in Instance, NEW u \in Uri, ReadClosed(p, u)
    PROVE  Inv' /\ HistoryStep
  <1> DEFINE kept == FirstLines(file["closed"], MaxClosed - 1)
  <1>1. Begin(p, "close", "closed", u, <<u>> \o kept) /\ UNCHANGED file
    BY DEF ReadClosed
  <1>2. MaxClosed \in Nat /\ MaxClosed - 1 \in Nat
    BY StorageAssumption
  <1>3. kept \in Seq(Uri) /\ Len(kept) <= MaxClosed - 1
    BY <1>2, FirstLinesTypes DEF Inv, FilesOK
  <1> HIDE DEF kept
  <1>4. <<u>> \o kept \in Seq(Uri) /\ Len(<<u>> \o kept) <= MaxClosed
    <2>1. Len(kept) \in Nat /\ Len(<<u>> \o kept) = Len(kept) + 1
      BY <1>3, PutBefore
    <2> QED
      BY <1>2, <1>3, <2>1, PutBefore
  <1>5. "close" \in Kind /\ "closed" \in FilesOf("close")
    BY DEF Kind, Replacing, FilesOf
  <1> QED
    BY <1>1, <1>4, <1>5, BeginOK, SameOK DEF Inv

\* Rename: the new file is in the place of the old.
LEMMA RenameOK ==
    ASSUME Inv, NEW p \in Instance, Rename(p)
    PROVE  Inv' /\ HistoryStep
  <1> DEFINE o == op[p]
  <1>1. /\ o.kind \in Replacing
        /\ file' = [file EXCEPT ![o.file] = o.lines]
    BY DEF Rename
  <1>2. \A q \in Instance :
           op'[q] \in {NoOp, op[q], [op[q] EXCEPT !.linked = FALSE]}
    BY DEF Rename
  <1>3. op' = [q \in Instance |-> op'[q]]
    BY DEF Rename
  <1>4. ASSUME NEW q \in Instance, op[q] # NoOp
        PROVE  OpOK([op[q] EXCEPT !.linked = FALSE])
    BY <1>4 DEF Inv, OpsOK, OpOK
  <1>5. OpsOK'
    <2>1. ASSUME NEW q \in Instance PROVE OpOK(op'[q])
      <3>1. CASE op[q] = NoOp
        <4>1. op'[q] = NoOp
          BY <3>1 DEF Rename, NoOp
        <4> QED
          BY <4>1 DEF OpOK
      <3>2. CASE op[q] # NoOp
        BY <1>2, <1>4, <3>2 DEF Inv, OpsOK, OpOK
      <3> QED
        BY <3>1, <3>2
    <2> QED
      BY <1>3, <2>1 DEF OpsOK
  <1>6. /\ o.file \in {"queue", "closed", "bookmark"}
        /\ o.lines \in Seq(Uri)
        /\ o.file = "closed" => Len(o.lines) <= MaxClosed
    BY <1>1 DEF Inv, OpsOK, OpOK, NoOp, FilesOf, Replacing
  <1> HIDE DEF o
  <1>7. /\ file' = [f \in File |-> file'[f]]
        /\ \A f \in File \ {o.file} : file'[f] = file[f]
        /\ file'[o.file] = o.lines
    BY <1>1, <1>6 DEF Inv, FilesOK, File
  <1>8. FilesOK'
    BY <1>6, <1>7 DEF Inv, FilesOK, File
  <1>9. HistoryStep
    BY <1>6, <1>7, SamePrefix DEF Inv, FilesOK, File, HistoryStep
  <1> QED
    BY <1>5, <1>8, <1>9 DEF Inv

-----------------------------------------------------------------------------
(* The invariant.                                                          *)

\* The invariant holds at first.
LEMMA InitInv == Init => Inv
  <1> SUFFICES ASSUME Init PROVE Inv
    OBVIOUS
  <1>1. <<>> \in Seq(Uri) /\ Len(<<>>) = 0 /\ 0 <= MaxClosed
    BY EmptySeq, StorageAssumption
  <1>2. FilesOK
    BY <1>1 DEF Init, FilesOK, File
  <1>3. OpsOK
    BY DEF Init, OpsOK, OpOK
  <1> QED
    BY <1>2, <1>3 DEF Inv

\* Every step keeps the invariant and the history.
LEMMA NextInv == Inv /\ [Next]_vars => Inv' /\ HistoryStep
  <1> SUFFICES ASSUME Inv, [Next]_vars PROVE Inv' /\ HistoryStep
    OBVIOUS
  <1> USE DEF Inv
  <1>1. ASSUME NEW p \in Instance, NEW f \in File, NEW u \in Uri, OpenAppend(p, f, u)
        PROVE  Inv' /\ HistoryStep
    <2>1. Begin(p, "append", f, u, <<>>) /\ UNCHANGED file
      BY <1>1 DEF OpenAppend
    <2>2. "append" \in Kind /\ f \in FilesOf("append") /\ <<>> \in Seq(Uri) /\ f # "closed"
      BY <1>1 DEF OpenAppend, Kind, FilesOf
    <2> QED
      BY <2>1, <2>2, BeginOK, SameOK
  <1>2. ASSUME NEW p \in Instance, NEW u \in Uri, ReadUnshift(p, u)
        PROVE  Inv' /\ HistoryStep
    <2>1. Begin(p, "unshift", "queue", u, file["queue"]) /\ UNCHANGED file
      BY <1>2 DEF ReadUnshift
    <2>2. "unshift" \in Kind /\ "queue" \in FilesOf("unshift")
      BY DEF Kind, FilesOf
    <2> QED
      BY <2>1, <2>2, BeginOK, SameOK DEF FilesOK
  <1>3. ASSUME NEW p \in Instance, NEW u \in Uri, ReadRemove(p, u)
        PROVE  Inv' /\ HistoryStep
    <2>1. PICK lines \in Seq(Uri) : Begin(p, "remove", "bookmark", u, lines)
      BY <1>3, WithoutIs DEF ReadRemove, FilesOK
    <2>2. "remove" \in Kind /\ "bookmark" \in FilesOf("remove") /\ UNCHANGED file
      BY <1>3 DEF Kind, Replacing, FilesOf, ReadRemove
    <2> QED
      BY <2>1, <2>2, BeginOK, SameOK
  <1>4. ASSUME NEW p \in Instance, ClearQueue(p) PROVE Inv' /\ HistoryStep
    <2>1. file' = [file EXCEPT !["queue"] = <<>>] /\ UNCHANGED op /\ <<>> \in Seq(Uri)
      BY <1>4 DEF ClearQueue
    <2> QED
      BY <2>1, QueueOK DEF OpsOK
  <1>5. ASSUME NEW p \in Instance, RenameFails(p) \/ Kill(p) PROVE Inv' /\ HistoryStep
    <2>1. op' = [op EXCEPT ![p] = NoOp] /\ UNCHANGED file
      BY <1>5 DEF RenameFails, Kill
    <2> QED
      BY <2>1, EndOK, SameOK
  <1>6. CASE UNCHANGED <<op, file>>
    BY <1>6, SameOK DEF OpsOK
  <1>7. ASSUME NEW p \in Instance, Start(p) \/ \E u \in Uri : Remember(p, u)
        PROVE  Inv' /\ HistoryStep
    BY <1>6, <1>7 DEF Start, Remember
  <1>8. CASE UNCHANGED vars
    BY <1>6, <1>8 DEF vars
  <1> QED
    BY <1>1, <1>2, <1>3, <1>4, <1>5, <1>7, <1>8, FlushOK, TruncateOK, WriteBackOK,
       ReadPopOK, ReadClosedOK, RenameOK DEF Next

\* Which operation may change which file, in every behaviour.
THEOREM Invariance == Spec => []Inv
  <1> QED
    BY InitInv, NextInv, PTL DEF Spec

-----------------------------------------------------------------------------
(* Types.                                                                  *)

\* A file that does not exist is empty, one that is open exists.
FilesExist ==
    /\ present \subseteq File
    /\ \A f \in File \ present : file[f] = <<>>
    /\ \A p \in Instance : op[p].kind \in {"append", "write"} => op[p].file \in present

\* Only what runs is in an operation.
ProcessesOK ==
    /\ memory \in [Instance -> Seq(Uri)]
    /\ page \in [Instance -> SUBSET Uri]
    /\ alive \subseteq Instance
    /\ \A p \in Instance \ alive : op[p] = NoOp
    /\ ops \in 0 .. MaxOps

Rest == FilesExist /\ ProcessesOK

\* An operation begins, on a file that is there if it is opened.
LEMMA BeginRest ==
    ASSUME Inv, Rest, NEW p \in Instance, NEW k \in Kind, NEW f \in File, NEW u, NEW lines,
           Free(p), Begin(p, k, f, u, lines), UNCHANGED file,
           present' \in {present, present \cup {f}},
           k \in {"append", "write"} => f \in present'
    PROVE  Rest'
  <1> DEFINE o == [kind |-> k, file |-> f, uri |-> u, lines |-> lines,
                   linked |-> k = "append" \/ f \in present]
  <1>1. o.kind = k /\ o.file = f
    OBVIOUS
  <1>2. op' = [op EXCEPT ![p] = o] /\ ops' = ops + 1 /\ UNCHANGED <<memory, page, alive>>
    BY DEF Begin
  <1> HIDE DEF o
  <1>3. op'[p] = o /\ \A q \in Instance : q # p => op'[q] = op[q]
    BY <1>2 DEF Inv, OpsOK
  <1>4. FilesExist'
    BY <1>1, <1>3 DEF Rest, FilesExist
  <1>5. p \in alive /\ ops < MaxOps /\ MaxOps \in Nat
    BY StorageAssumption DEF Free
  <1>6. ProcessesOK'
    BY <1>2, <1>3, <1>5 DEF Rest, ProcessesOK
  <1> QED
    BY <1>4, <1>6 DEF Rest

\* An operation ends, and its instance with it or not.
LEMMA EndRest ==
    ASSUME Inv, Rest, NEW p \in Instance, op' = [op EXCEPT ![p] = NoOp],
           alive' \in {alive, alive \ {p}}, UNCHANGED <<memory, ops>>,
           page' \in [Instance -> SUBSET Uri],
           present' \subseteq File, present \subseteq present',
           \A f \in File \ present' : file'[f] = <<>>
    PROVE  Rest'
  <1>1. op'[p] = NoOp /\ \A q \in Instance : q # p => op'[q] = op[q]
    BY DEF Inv, OpsOK
  <1>2. FilesExist'
    BY <1>1 DEF Rest, FilesExist, NoOp
  <1>3. ProcessesOK'
    BY <1>1 DEF Rest, ProcessesOK
  <1> QED
    BY <1>2, <1>3 DEF Rest

\* Flush and WriteBack: what is open exists.
LEMMA WriteRest ==
    ASSUME Inv, Rest, NEW p \in Instance, Flush(p) \/ WriteBack(p)
    PROVE  Rest'
  <1>1. /\ op[p].file \in present
        /\ op' = [op EXCEPT ![p] = NoOp]
        /\ UNCHANGED <<present, memory, page, alive, ops>>
    BY DEF Rest, FilesExist, Flush, WriteBack
  <1>2. op[p].kind = "write" => op[p].file = "queue"
    BY DEF Inv, OpsOK, OpOK, NoOp, FilesOf
  <1>3. \A f \in File : f # op[p].file => file'[f] = file[f]
    BY <1>1, <1>2 DEF Flush, WriteBack, Inv, FilesOK, File
  <1>4. \A f \in File \ present' : file'[f] = <<>>
    BY <1>1, <1>3 DEF Rest, FilesExist
  <1>5. present \subseteq File /\ page \in [Instance -> SUBSET Uri]
    BY DEF Rest, FilesExist, ProcessesOK
  <1> QED
    BY <1>1, <1>4, <1>5, EndRest

\* Truncate: the queue exists from now on.
LEMMA TruncateRest ==
    ASSUME Inv, Rest, NEW p \in Instance, Truncate(p)
    PROVE  Rest'
  <1>1. /\ op[p].kind = "unshift"
        /\ present' = present \cup {"queue"}
        /\ file' = [file EXCEPT !["queue"] = <<>>]
        /\ UNCHANGED <<memory, page, ops>>
    BY DEF Truncate
  <1>2. op[p].file = "queue" /\ op[p] # NoOp
    BY <1>1 DEF Inv, OpsOK, OpOK, NoOp, FilesOf
  <1>3. present' \subseteq File /\ \A f \in File \ present' : file'[f] = <<>>
    BY <1>1 DEF Rest, FilesExist, Inv, FilesOK, File
  <1>4. CASE op[p].linked
    <2>1. op' = [op EXCEPT ![p].kind = "write"] /\ UNCHANGED alive
      BY <1>4 DEF Truncate
    <2>2. /\ op'[p].file = "queue"
          /\ \A q \in Instance : q # p => op'[q] = op[q]
      BY <1>1, <1>2, <2>1 DEF Inv, OpsOK, OpOK
    <2>3. FilesExist'
      BY <1>1, <1>3, <2>2 DEF Rest, FilesExist
    <2>4. p \in alive
      BY <1>2 DEF Rest, ProcessesOK
    <2>5. ProcessesOK'
      BY <1>1, <2>1, <2>2, <2>4 DEF Rest, ProcessesOK
    <2> QED
      BY <2>3, <2>5 DEF Rest
  <1>5. CASE ~op[p].linked
    <2>1. op' = [op EXCEPT ![p] = NoOp] /\ alive' = alive \ {p}
      BY <1>5 DEF Truncate
    <2>2. page' \in [Instance -> SUBSET Uri] /\ present \subseteq present'
      BY <1>1 DEF Rest, ProcessesOK
    <2> QED
      BY <1>1, <1>3, <2>1, <2>2, EndRest
  <1> QED
    BY <1>4, <1>5

\* Rename: the file exists; those who have the old one open are only told so.
LEMMA RenameRest ==
    ASSUME Inv, Rest, NEW p \in Instance, Rename(p)
    PROVE  Rest'
  <1> DEFINE o == op[p]
  <1>1. /\ o.kind \in Replacing
        /\ present' = present \cup {o.file}
        /\ file' = [file EXCEPT ![o.file] = o.lines]
        /\ page' = IF o.kind = "pop" THEN [page EXCEPT ![p] = {o.uri}] ELSE page
        /\ UNCHANGED <<memory, alive, ops>>
    BY DEF Rename
  <1>2. o.uri \in Uri /\ o.file \in File
    BY <1>1 DEF Inv, OpsOK, OpOK, NoOp, Replacing, FilesOf, File
  <1>3. \A q \in Instance :
           \/ op'[q] = NoOp
           \/ op'[q].kind = op[q].kind /\ op'[q].file = op[q].file /\ op[q] # NoOp
    <2>1. ASSUME NEW q \in Instance, op[q] = NoOp PROVE op'[q] = NoOp
      BY <2>1 DEF Rename, NoOp
    <2>2. ASSUME NEW q \in Instance, op[q] # NoOp
          PROVE  \/ op'[q] = NoOp
                 \/ op'[q].kind = op[q].kind /\ op'[q].file = op[q].file
      <3>1. op'[q] \in {NoOp, op[q], [op[q] EXCEPT !.linked = FALSE]}
        BY DEF Rename
      <3>2. [op[q] EXCEPT !.linked = FALSE].kind = op[q].kind
            /\ [op[q] EXCEPT !.linked = FALSE].file = op[q].file
        BY <2>2 DEF Inv, OpsOK, OpOK
      <3> QED
        BY <3>1, <3>2
    <2> QED
      BY <2>1, <2>2
  <1> HIDE DEF o
  <1>4. FilesExist'
    <2>1. present' \subseteq File
      BY <1>1, <1>2 DEF Rest, FilesExist
    <2>2. \A f \in File \ present' : file'[f] = <<>>
      BY <1>1, <1>2 DEF Rest, FilesExist, Inv, FilesOK
    <2>3. \A q \in Instance : op'[q].kind \in {"append", "write"} => op'[q].file \in present'
      BY <1>1, <1>3 DEF Rest, FilesExist, NoOp
    <2> QED
      BY <2>1, <2>2, <2>3 DEF FilesExist
  <1>5. ProcessesOK'
    BY <1>1, <1>2, <1>3 DEF Rest, ProcessesOK
  <1> QED
    BY <1>4, <1>5 DEF Rest

\* The types hold at first.
LEMMA InitRest == Init => Rest
  <1>1. <<>> \in Seq(Uri)
    OBVIOUS
  <1> QED
    BY <1>1, StorageAssumption DEF Init, Rest, FilesExist, ProcessesOK, NoOp, File

\* Every step keeps the types.
LEMMA NextRest == Inv /\ Rest /\ [Next]_vars => Rest'
  <1> SUFFICES ASSUME Inv, Rest, [Next]_vars PROVE Rest'
    OBVIOUS
  <1>1. ASSUME NEW p \in Instance, NEW f \in File, NEW u \in Uri, OpenAppend(p, f, u)
        PROVE  Rest'
    <2>1. /\ Free(p) /\ Begin(p, "append", f, u, <<>>) /\ UNCHANGED file
          /\ present' = present \cup {f} /\ "append" \in Kind
      BY <1>1 DEF OpenAppend, Kind
    <2> QED
      BY <2>1, BeginRest
  <1>2. ASSUME NEW p \in Instance, NEW u \in Uri, ReadUnshift(p, u) PROVE Rest'
    <2>1. /\ Free(p) /\ Begin(p, "unshift", "queue", u, file["queue"])
          /\ UNCHANGED <<file, present>> /\ "unshift" \in Kind /\ "queue" \in File
      BY <1>2 DEF ReadUnshift, Kind, File
    <2> QED
      BY <2>1, BeginRest
  <1>3. ASSUME NEW p \in Instance, NEW k \in {"pop", "reopen"}, ReadPop(p, k) PROVE Rest'
    <2>1. PICK f, u, lines :
             /\ f \in {"queue", "closed"}
             /\ Free(p) /\ Begin(p, k, f, u, lines) /\ UNCHANGED <<file, present>>
      BY <1>3 DEF ReadPop
    <2>2. k \in Kind /\ f \in File
      BY <2>1 DEF Kind, Replacing, File
    <2> QED
      BY <2>1, <2>2, BeginRest
  <1>4. ASSUME NEW p \in Instance, NEW u \in Uri, ReadClosed(p, u) \/ ReadRemove(p, u)
        PROVE  Rest'
    <2>1. PICK k, f, lines :
             /\ k \in {"close", "remove"} /\ f \in {"closed", "bookmark"}
             /\ Free(p) /\ Begin(p, k, f, u, lines) /\ UNCHANGED <<file, present>>
      BY <1>4 DEF ReadClosed, ReadRemove
    <2>2. k \in Kind /\ f \in File
      BY <2>1 DEF Kind, Replacing, File
    <2> QED
      BY <2>1, <2>2, BeginRest
  <1>5. ASSUME NEW p \in Instance, RenameFails(p) \/ Kill(p) PROVE Rest'
    <2>1. /\ op' = [op EXCEPT ![p] = NoOp] /\ alive' = alive \ {p}
          /\ UNCHANGED <<present, file, memory, page, ops>>
      BY <1>5 DEF RenameFails, Kill
    <2> QED
      BY <2>1, EndRest DEF Rest, FilesExist, ProcessesOK
  <1>6. ASSUME NEW p \in Instance, ClearQueue(p) PROVE Rest'
    <2>1. /\ present' = present \cup {"queue"}
          /\ file' = [file EXCEPT !["queue"] = <<>>]
          /\ ops' = ops + 1 /\ ops < MaxOps /\ MaxOps \in Nat
          /\ UNCHANGED <<memory, op, page, alive>>
      BY <1>6, StorageAssumption DEF ClearQueue, Free
    <2>2. FilesExist'
      BY <2>1 DEF Rest, FilesExist, Inv, FilesOK, File
    <2>3. ProcessesOK'
      BY <2>1 DEF Rest, ProcessesOK
    <2> QED
      BY <2>2, <2>3 DEF Rest
  <1>7. ASSUME NEW p \in Instance, NEW u \in Uri, Remember(p, u) PROVE Rest'
    <2>1. /\ memory' = [memory EXCEPT ![p] = Append(memory[p], u)]
          /\ ops' = ops + 1 /\ ops < MaxOps /\ MaxOps \in Nat
          /\ UNCHANGED <<present, file, op, page, alive>>
      BY <1>7, StorageAssumption DEF Remember, Free
    <2>2. FilesExist'
      BY <2>1 DEF Rest, FilesExist
    <2>3. ProcessesOK'
      BY <2>1 DEF Rest, ProcessesOK
    <2> QED
      BY <2>2, <2>3 DEF Rest
  <1>8. ASSUME NEW p \in Instance, Start(p) PROVE Rest'
    <2>1. <<>> \in Seq(Uri)
      OBVIOUS
    <2> QED
      BY <1>8, <2>1 DEF Start, Rest, FilesExist, ProcessesOK
  <1>9. CASE UNCHANGED vars
    BY <1>9 DEF vars, Rest, FilesExist, ProcessesOK
  <1> QED
    BY <1>1, <1>2, <1>3, <1>4, <1>5, <1>6, <1>7, <1>8, <1>9, WriteRest, TruncateRest,
       RenameRest DEF Next

\* The types, in every behaviour.
LEMMA RestInvariance == Spec => []Rest
  <1> QED
    BY InitRest, NextRest, Invariance, PTL DEF Spec

\* Whatever the instances do, files that do not exist have no lines, and what is
\* dead is in no operation; this is the types of every variable too.
THEOREM TypeCorrect == Spec => []TypeOK
  <1>1. Inv /\ Rest => TypeOK
    <2> SUFFICES ASSUME Inv, Rest PROVE TypeOK
      OBVIOUS
    <2>1. file \in [File -> Seq(Uri)]
      BY DEF Inv, FilesOK, File
    <2>2. ASSUME NEW p \in Instance, op[p] # NoOp PROVE op[p] \in Op
      <3>1. op[p].kind \in Kind /\ FilesOf(op[p].kind) \subseteq File
        BY <2>2 DEF Inv, OpsOK, OpOK, FilesOf, File
      <3> QED
        BY <2>2, <3>1 DEF Inv, OpsOK, OpOK, Op
    <2>3. op \in [Instance -> Op \cup {NoOp}]
      BY <2>2 DEF Inv, OpsOK
    <2> QED
      BY <2>1, <2>3 DEF Rest, FilesExist, ProcessesOK, TypeOK
  <1> QED
    BY <1>1, Invariance, RestInvariance, PTL

\* However many instances close tabs and reopen them, overtake one another and
\* are killed, the file of closed pages keeps the bound of closed-max-items.
THEOREM ClosedIsBounded == Spec => []ClosedBounded
  <1>1. Inv => ClosedBounded
    BY DEF Inv, FilesOK, ClosedBounded
  <1> QED
    BY <1>1, Invariance, PTL

\* No step of any instance takes a line from the history or changes the order.
THEOREM HistoryIsKept == Spec => HistoryOnlyGrows
  <1>1. Inv /\ [Next]_vars => [HistoryStep]_vars
    BY NextInv
  <1>2. HistoryOnlyGrows <=> [][HistoryStep]_vars
    BY PTL DEF HistoryOnlyGrows, HistoryStep
  <1> QED
    BY <1>1, <1>2, Invariance, PTL DEF Spec

-----------------------------------------------------------------------------
(* The bookmarks of an instance that is alone.                             *)

\* What is about to replace the bookmarks has all that are there, but the one that
\* is removed.
BookmarksRead ==
    \A p \in Instance :
        op[p].kind = "remove" =>
            Range(file["bookmark"]) \ {op[p].uri} \subseteq Range(op[p].lines)

BookmarkStep ==
    \A u \in Uri :
       u \in Range(file["bookmark"]) \ Range(file'["bookmark"]) =>
          \E p \in Instance : op[p].kind = "remove" /\ op[p].uri = u

\* Steps that leave the bookmarks alone, or add one, and begin no removal.
LEMMA NoRemoval ==
    ASSUME NEW me, Instance = {me}, op'[me].kind # "remove",
           Range(file["bookmark"]) \subseteq Range(file'["bookmark"])
    PROVE  BookmarkStep /\ BookmarksRead'
  BY DEF BookmarkStep, BookmarksRead

\* An operation begins that is no removal.
LEMMA OtherBegins ==
    ASSUME Inv, NEW me, Instance = {me}, NEW k, NEW f, NEW u, NEW lines,
           Begin(me, k, f, u, lines), k # "remove", UNCHANGED file
    PROVE  BookmarkStep /\ BookmarksRead'
  <1> DEFINE r == [kind |-> k, file |-> f, uri |-> u, lines |-> lines,
                   linked |-> k = "append" \/ f \in present]
  <1>1. op'[me] = r /\ r.kind = k
    BY DEF Begin, Inv, OpsOK
  <1> HIDE DEF r
  <1> QED
    BY <1>1, NoRemoval

\* ReadRemove leaves out the lines of the URI only.
LEMMA RemovalBegins ==
    ASSUME Inv, NEW me, Instance = {me}, NEW u \in Uri, ReadRemove(me, u)
    PROVE  BookmarkStep /\ BookmarksRead'
  <1> DEFINE lines == Without(file["bookmark"], u)
             r == [kind |-> "remove", file |-> "bookmark", uri |-> u, lines |-> lines,
                   linked |-> "remove" = "append" \/ "bookmark" \in present]
  <1>1. op'[me] = r /\ UNCHANGED file
    BY DEF ReadRemove, Begin, Inv, OpsOK
  <1>2. Range(lines) = Range(file["bookmark"]) \ {u}
    BY WithoutIs DEF Inv, FilesOK
  <1>3. r.uri = u /\ r.lines = lines
    OBVIOUS
  <1> HIDE DEF r, lines
  <1> QED
    BY <1>1, <1>2, <1>3 DEF BookmarkStep, BookmarksRead

\* Rename of the bookmarks ends the removal.
LEMMA RemovalEnds ==
    ASSUME Inv, NEW me, Instance = {me}, BookmarksRead, Rename(me)
    PROVE  BookmarkStep /\ BookmarksRead'
  <1>1. /\ op[me].kind \in Replacing /\ op'[me] = NoOp
        /\ file' = [file EXCEPT ![op[me].file] = op[me].lines]
    BY DEF Rename
  <1>2. /\ op[me].file \in {"queue", "closed", "bookmark"}
        /\ op[me].file = "bookmark" => op[me].kind = "remove"
    BY <1>1 DEF Inv, OpsOK, OpOK, NoOp, FilesOf, Replacing
  <1>3. CASE op[me].file = "bookmark"
    <2>1. file'["bookmark"] = op[me].lines
      BY <1>1, <1>3 DEF Inv, FilesOK, File
    <2> QED
      BY <1>1, <1>2, <1>3, <2>1 DEF BookmarkStep, BookmarksRead, NoOp
  <1>4. CASE op[me].file # "bookmark"
    <2>1. file'["bookmark"] = file["bookmark"]
      BY <1>1, <1>2, <1>4 DEF Inv, FilesOK, File
    <2> QED
      BY <1>1, <2>1, NoRemoval DEF NoOp
  <1> QED
    BY <1>3, <1>4

\* Flush adds a bookmark, or touches another file.
LEMMA FlushKeeps ==
    ASSUME Inv, NEW me, Instance = {me}, Flush(me)
    PROVE  BookmarkStep /\ BookmarksRead'
  <1>1. /\ op[me].kind = "append"
        /\ file' = IF op[me].linked
                   THEN [file EXCEPT ![op[me].file] = Append(file[op[me].file], op[me].uri)]
                   ELSE file
        /\ op'[me] = NoOp
    BY DEF Flush, Inv, OpsOK
  <1>2. op[me].uri \in Uri /\ op[me].file \in {"history", "bookmark", "queue"}
    BY <1>1 DEF Inv, OpsOK, OpOK, NoOp, FilesOf
  <1>3. file["bookmark"] \in Seq(Uri)
    BY DEF Inv, FilesOK
  <1>4. \/ file'["bookmark"] = file["bookmark"]
        \/ file'["bookmark"] = Append(file["bookmark"], op[me].uri)
    BY <1>1, <1>2 DEF Inv, FilesOK, File
  <1>5. Range(file["bookmark"]) \subseteq Range(file'["bookmark"])
    BY <1>2, <1>3, <1>4, AppendedRange
  <1> QED
    BY <1>1, <1>5, NoRemoval DEF NoOp

\* Every step of the instance that is alone.
LEMMA BookmarkNext ==
    ASSUME NEW me, Instance = {me}, Inv, BookmarksRead, [Next]_vars
    PROVE  BookmarkStep /\ BookmarksRead'
  <1>1. ASSUME NEW f \in File, NEW u \in Uri, OpenAppend(me, f, u)
        PROVE  BookmarkStep /\ BookmarksRead'
    BY <1>1, OtherBegins DEF OpenAppend
  <1>2. ASSUME NEW u \in Uri, ReadUnshift(me, u) PROVE BookmarkStep /\ BookmarksRead'
    BY <1>2, OtherBegins DEF ReadUnshift
  <1>3. ASSUME NEW k \in {"pop", "reopen"}, ReadPop(me, k)
        PROVE  BookmarkStep /\ BookmarksRead'
    <2>1. PICK f, u, lines : Begin(me, k, f, u, lines) /\ UNCHANGED file
      BY <1>3 DEF ReadPop
    <2> QED
      BY <2>1, OtherBegins
  <1>4. ASSUME NEW u \in Uri, ReadClosed(me, u) PROVE BookmarkStep /\ BookmarksRead'
    <2>1. PICK lines : Begin(me, "close", "closed", u, lines) /\ UNCHANGED file
      BY <1>4 DEF ReadClosed
    <2> QED
      BY <2>1, OtherBegins
  <1>5. ASSUME Truncate(me) \/ WriteBack(me) \/ ClearQueue(me)
        PROVE  BookmarkStep /\ BookmarksRead'
    <2>1. file'["bookmark"] = file["bookmark"]
      BY <1>5 DEF Truncate, WriteBack, ClearQueue, Inv, FilesOK, File
    <2>2. op'[me].kind # "remove"
      <3>1. CASE Truncate(me)
        <4>1. op[me].kind = "unshift" /\ op[me] # NoOp
          BY <3>1 DEF Truncate, NoOp
        <4>2. [op[me] EXCEPT !.kind = "write"].kind = "write"
          BY <4>1 DEF Inv, OpsOK, OpOK
        <4>3. op'[me] = NoOp \/ op'[me] = [op[me] EXCEPT !.kind = "write"]
          <5>1. op' = [op EXCEPT ![me] = NoOp] \/ op' = [op EXCEPT ![me].kind = "write"]
            BY <3>1 DEF Truncate
          <5> QED
            BY <5>1 DEF Inv, OpsOK
        <4>4. NoOp.kind # "remove"
          BY DEF NoOp
        <4> QED
          BY <4>2, <4>3, <4>4
      <3>2. CASE WriteBack(me) \/ ClearQueue(me)
        BY <3>2 DEF WriteBack, ClearQueue, Free, Inv, OpsOK, NoOp
      <3> QED
        BY <1>5, <3>1, <3>2
    <2> QED
      BY <2>1, <2>2, NoRemoval
  <1>6. ASSUME RenameFails(me) \/ Kill(me) PROVE BookmarkStep /\ BookmarksRead'
    <2>1. op'[me] = NoOp /\ UNCHANGED file
      BY <1>6 DEF RenameFails, Kill, Inv, OpsOK
    <2> QED
      BY <2>1, NoRemoval DEF NoOp
  <1>7. CASE UNCHANGED <<op, file>>
    BY <1>7 DEF BookmarkStep, BookmarksRead
  <1>8. ASSUME Start(me) \/ \E u \in Uri : Remember(me, u)
        PROVE  BookmarkStep /\ BookmarksRead'
    BY <1>7, <1>8 DEF Start, Remember
  <1>9. CASE UNCHANGED vars
    BY <1>7, <1>9 DEF vars
  <1> QED
    BY <1>1, <1>2, <1>3, <1>4, <1>5, <1>6, <1>8, <1>9, FlushKeeps, RemovalBegins,
       RemovalEnds DEF Next

\* A bookmark of an instance that has the files for itself goes by a :bmremove of its
\* URI and by nothing else: no kill, no disk that is full, no other operation.  Two
\* instances do lose bookmarks: what one adds while another removes is overwritten.
THEOREM BookmarksAreKept ==
    ASSUME NEW me, Instance = {me} PROVE Spec => BookmarksStay
  <1>1. Init => BookmarksRead
    BY DEF Init, BookmarksRead, NoOp
  <1>2. Inv /\ BookmarksRead /\ [Next]_vars => BookmarksRead' /\ [BookmarkStep]_vars
    BY BookmarkNext
  <1>3. BookmarksStay <=> [][BookmarkStep]_vars
    BY PTL DEF BookmarksStay, BookmarkStep
  <1> QED
    BY <1>1, <1>2, <1>3, Invariance, PTL DEF Spec

-----------------------------------------------------------------------------
(* The queue of an instance that is alone.                                 *)

Alone == "write" \notin Kills /\ \E me : Instance = {me}

\* What an operation on the queue read is what it still finds.
Current(o) ==
    /\ "queue" \notin present => file["queue"] = <<>>
    /\ o.kind \in {"append", "write"} => o.linked /\ o.file \in present
    /\ o.kind = "unshift" => /\ o.lines = file["queue"]
                             /\ ~o.linked => file["queue"] = <<>>
    /\ o.kind \in {"unshift", "write"} => o.file = "queue"
    /\ o.kind = "write" => file["queue"] = <<>>
    /\ o.kind = "pop" => /\ file["queue"] # <<>>
                         /\ o.uri = Head(file["queue"])
                         /\ o.lines = Tail(file["queue"])
AllCurrent == \A p \in Instance : Current(op[p])

\* The mapping without a choice.
QueueOf(o, f) == IF o.kind = "write" THEN o.lines ELSE f["queue"]

\* A step of the list, or none.
ListStep == ReadLaterList!Next \/ UNCHANGED ReadLaterList!vars

\* The list of the refinement is the queue file, or what is about to be written to it.
LEMMA QueueMapping ==
    ASSUME NEW me, Instance = {me}
    PROVE  /\ Queue = QueueOf(op[me], file)
           /\ Queue' = QueueOf(op'[me], file')
  <1> me \in Instance
    OBVIOUS
  <1>1. ASSUME op[me].kind = "write" PROVE Queue = QueueOf(op[me], file)
    <2>1. Writing = {me}
      BY <1>1 DEF Writing
    <2>2. (CHOOSE p \in Writing : TRUE) = me /\ Writing # {}
      BY <2>1
    <2> QED
      BY <1>1, <2>2 DEF Queue, QueueOf
  <1>2. ASSUME op[me].kind # "write" PROVE Queue = QueueOf(op[me], file)
    <2>1. Writing = {}
      BY <1>2 DEF Writing
    <2> QED
      BY <1>2, <2>1 DEF Queue, QueueOf
  <1>3. ASSUME op'[me].kind = "write" PROVE Queue' = QueueOf(op'[me], file')
    <2>1. Writing' = {me}
      BY <1>3 DEF Writing
    <2>2. (CHOOSE p \in Writing' : TRUE) = me /\ Writing' # {}
      BY <2>1
    <2> QED
      BY <1>3, <2>2 DEF Queue, QueueOf
  <1>4. ASSUME op'[me].kind # "write" PROVE Queue' = QueueOf(op'[me], file')
    <2>1. Writing' = {}
      BY <1>4 DEF Writing
    <2> QED
      BY <1>4, <2>1 DEF Queue, QueueOf
  <1> QED
    BY <1>1, <1>2, <1>3, <1>4

\* Steps that leave the list alone.
LEMMA Stutters ==
    ASSUME NEW me, Instance = {me}, UNCHANGED page,
           QueueOf(op'[me], file') = QueueOf(op[me], file),
           Asked(op'[me]) = Asked(op[me])
    PROVE  ListStep
  <1>1. [p \in Instance |-> Asked(op'[p])] = [p \in Instance |-> Asked(op[p])]
    OBVIOUS
  <1> QED
    BY <1>1, QueueMapping DEF ListStep, ReadLaterList!vars

\* Steps that give or end a command.
LEMMA AskedIs ==
    ASSUME NEW me, Instance = {me}, NEW c, Asked(op'[me]) = c
    PROVE  [p \in Instance |-> Asked(op'[p])]
             = [[p \in Instance |-> Asked(op[p])] EXCEPT ![me] = c]
  OBVIOUS

\* What the lone instance asks of the list is told by its operation.
LEMMA AskedAt ==
    ASSUME NEW me, Instance = {me}
    PROVE  me \in Instance /\ [p \in Instance |-> Asked(op[p])][me] = Asked(op[me])
  OBVIOUS

\* An operation that begins, and the list stays: the list is asked for it.
LEMMA AsksCommand ==
    ASSUME NEW me, Instance = {me}, UNCHANGED page,
           NEW c \in ReadLaterList!Command, Asked(op'[me]) = c,
           Asked(op[me]) = [kind |-> "nothing"],
           QueueOf(op'[me], file') = QueueOf(op[me], file),
           c.kind = "pop" => QueueOf(op[me], file) # <<>>
    PROVE  ListStep
  <1>1. ReadLaterList!Ask(me, c)
    BY QueueMapping, AskedIs DEF ReadLaterList!Ask, ReadLaterList!Nothing
  <1> QED
    BY <1>1 DEF ListStep, ReadLaterList!Next

\* An instance ends: its command, if any, takes no effect.
LEMMA AloneEnds ==
    ASSUME NEW me, Instance = {me}, UNCHANGED page, op'[me] = NoOp,
           QueueOf(op'[me], file') = QueueOf(op[me], file)
    PROVE  ListStep
  <1>1. Asked(op'[me]) = [kind |-> "nothing"]
    BY DEF Asked, NoOp
  <1>2. ReadLaterList!End(me)
    BY <1>1, QueueMapping, AskedIs
       DEF ReadLaterList!End, ReadLaterList!Done, ReadLaterList!Nothing
  <1> QED
    BY <1>2 DEF ListStep, ReadLaterList!Next

\* Begin of the lone instance, spelt out.
LEMMA BeginAlone ==
    ASSUME OpsOK, NEW me, Instance = {me}, NEW k, NEW f, NEW u, NEW lines,
           Free(me), Begin(me, k, f, u, lines)
    PROVE  /\ op[me] = NoOp
           /\ op'[me] = [kind |-> k, file |-> f, uri |-> u, lines |-> lines,
                         linked |-> k = "append" \/ f \in present]
           /\ UNCHANGED page
  BY DEF Free, Begin, OpsOK

\* OpenAppend asks the list, if the file is the queue.
LEMMA AloneOpenAppend ==
    ASSUME Inv, NEW me, Instance = {me}, AllCurrent, NEW f \in File, NEW u \in Uri,
           OpenAppend(me, f, u)
    PROVE  ListStep /\ AllCurrent'
  <1>1. /\ op[me] = NoOp
        /\ op'[me] = [kind |-> "append", file |-> f, uri |-> u, lines |-> <<>>,
                      linked |-> TRUE]
        /\ UNCHANGED <<page, file>>
        /\ present' = present \cup {f}
    BY BeginAlone DEF OpenAppend, Inv
  <1>2. AllCurrent'
    BY <1>1 DEF AllCurrent, Current
  <1>3. QueueOf(op'[me], file') = QueueOf(op[me], file)
    BY <1>1 DEF QueueOf, NoOp
  <1>4. Asked(op[me]) = [kind |-> "nothing"]
    BY <1>1 DEF Asked, NoOp
  <1>5. CASE f = "queue"
    <2>1. Asked(op'[me]) = [kind |-> "push", uri |-> u]
      BY <1>1, <1>5 DEF Asked
    <2>2. [kind |-> "push", uri |-> u] \in ReadLaterList!Command
      BY DEF ReadLaterList!Command
    <2> QED
      BY <1>1, <1>2, <1>3, <1>4, <2>1, <2>2, AsksCommand
  <1>6. CASE f # "queue"
    <2>1. Asked(op'[me]) = [kind |-> "nothing"]
      BY <1>1, <1>6 DEF Asked
    <2> QED
      BY <1>1, <1>2, <1>3, <1>4, <2>1, Stutters
  <1> QED
    BY <1>5, <1>6

\* Flush is the push of the list, if the file is the queue.
LEMMA AloneFlush ==
    ASSUME Inv, NEW me, Instance = {me}, AllCurrent, Flush(me)
    PROVE  ListStep /\ AllCurrent'
  <1> DEFINE o == op[me]
  <1>1. /\ o.kind = "append" /\ o.linked
        /\ file' = [file EXCEPT ![o.file] = Append(file[o.file], o.uri)]
        /\ op'[me] = NoOp
        /\ UNCHANGED <<present, page>>
    BY DEF Flush, AllCurrent, Current, Inv, OpsOK
  <1>3. o.file \in File
    BY <1>1 DEF Inv, OpsOK, OpOK, NoOp, FilesOf, File
  <1>2. AllCurrent'
    <2>1. o.file \in present
      BY <1>1 DEF AllCurrent, Current
    <2>2. "queue" \notin present' => file'["queue"] = <<>>
      BY <1>1, <1>3, <2>1 DEF AllCurrent, Current, Inv, FilesOK, File
    <2> QED
      BY <1>1, <2>2 DEF AllCurrent, Current, NoOp
  <1>4. Asked(op'[me]) = [kind |-> "nothing"]
    BY <1>1 DEF Asked, NoOp
  <1>5. CASE o.file = "queue"
    <2>1. Asked(o) = [kind |-> "push", uri |-> o.uri]
      BY <1>1, <1>5 DEF Asked
    <2>2. QueueOf(op'[me], file') = Append(QueueOf(op[me], file), o.uri)
      BY <1>1, <1>5 DEF QueueOf, NoOp, Inv, FilesOK, File
    <2>3. ReadLaterList!Push(me)
      <3>1. Queue' = Append(Queue, o.uri)
        BY <2>2, QueueMapping
      <3>2. ReadLaterList!Done(me)
        BY <1>4, AskedIs DEF ReadLaterList!Done, ReadLaterList!Nothing
      <3>3. [p \in Instance |-> Asked(op[p])][me] = [kind |-> "push", uri |-> o.uri]
        BY <2>1, AskedAt
      <3> QED
        BY <1>1, <3>1, <3>2, <3>3 DEF ReadLaterList!Push
    <2> QED
      BY <1>2, <2>3 DEF ListStep, ReadLaterList!Next
  <1>6. CASE o.file # "queue"
    <2>1. Asked(op[me]) = [kind |-> "nothing"]
      BY <1>1, <1>6 DEF Asked
    <2>2. QueueOf(op'[me], file') = QueueOf(op[me], file)
      BY <1>1, <1>3, <1>6 DEF QueueOf, NoOp, Inv, FilesOK, File
    <2> QED
      BY <1>1, <1>2, <1>4, <2>1, <2>2, Stutters
  <1> QED
    BY <1>5, <1>6

\* ReadUnshift asks the list.
LEMMA AloneUnshift ==
    ASSUME Inv, NEW me, Instance = {me}, AllCurrent, NEW u \in Uri, ReadUnshift(me, u)
    PROVE  ListStep /\ AllCurrent'
  <1>1. \/ "queue" \in present
        \/ "queue" \notin present /\ file["queue"] = <<>>
    BY DEF AllCurrent, Current
  <1>2. /\ op[me] = NoOp
        /\ op'[me] = [kind |-> "unshift", file |-> "queue", uri |-> u,
                      lines |-> file["queue"], linked |-> "queue" \in present]
        /\ UNCHANGED <<page, file, present>>
    BY BeginAlone DEF ReadUnshift, Inv
  <1>3. AllCurrent'
    <2>1. /\ op'[me].kind = "unshift" /\ op'[me].file = "queue"
          /\ op'[me].lines = file["queue"]
          /\ op'[me].linked = ("queue" \in present)
      BY <1>2
    <2> QED
      BY <1>1, <1>2, <2>1 DEF AllCurrent, Current
  <1>4. /\ QueueOf(op'[me], file') = QueueOf(op[me], file)
        /\ Asked(op[me]) = [kind |-> "nothing"]
        /\ Asked(op'[me]) = [kind |-> "unshift", uri |-> u]
    BY <1>2 DEF QueueOf, Asked, NoOp
  <1>5. [kind |-> "unshift", uri |-> u] \in ReadLaterList!Command
    BY DEF ReadLaterList!Command
  <1> QED
    BY <1>2, <1>3, <1>4, <1>5, AsksCommand

\* Truncate is no step of the list, which is what will be written back.
LEMMA AloneTruncate ==
    ASSUME Inv, NEW me, Instance = {me}, AllCurrent, Truncate(me)
    PROVE  ListStep /\ AllCurrent'
  <1> DEFINE o == op[me]
  <1>1. /\ o.kind = "unshift" /\ o.file = "queue" /\ o.lines = file["queue"]
        /\ file' = [file EXCEPT !["queue"] = <<>>]
        /\ present' = present \cup {"queue"} /\ UNCHANGED page
    BY DEF Truncate, AllCurrent, Current
  <1>2. file'["queue"] = <<>>
    BY <1>1 DEF Inv, FilesOK, File
  <1>3. CASE o.linked
    <2>1. op' = [op EXCEPT ![me].kind = "write"]
      BY <1>3 DEF Truncate
    <2>2. /\ op'[me].kind = "write" /\ op'[me].lines = o.lines /\ op'[me].linked
          /\ op'[me].uri = o.uri /\ op'[me].file = "queue"
      BY <1>1, <1>3, <2>1 DEF Inv, OpsOK, OpOK, NoOp
    <2>3. AllCurrent'
      BY <1>1, <1>2, <2>2 DEF AllCurrent, Current
    <2>4. /\ QueueOf(op'[me], file') = QueueOf(op[me], file)
          /\ Asked(op'[me]) = Asked(op[me])
      BY <1>1, <2>2 DEF QueueOf, Asked
    <2> QED
      BY <1>1, <2>3, <2>4, Stutters
  <1>4. CASE ~o.linked
    <2>1. op'[me] = NoOp
      BY <1>4 DEF Truncate, Inv, OpsOK
    <2>2. AllCurrent'
      BY <1>1, <1>2, <2>1 DEF AllCurrent, Current, NoOp
    <2>3. file["queue"] = <<>>
      BY <1>1, <1>4 DEF AllCurrent, Current
    <2> QED
      BY <1>1, <1>2, <2>1, <2>2, <2>3, AloneEnds DEF QueueOf, NoOp
  <1> QED
    BY <1>3, <1>4

\* WriteBack is the unshift of the list.
LEMMA AloneWriteBack ==
    ASSUME Inv, NEW me, Instance = {me}, AllCurrent, WriteBack(me)
    PROVE  ListStep /\ AllCurrent'
  <1> DEFINE o == op[me]
             new == <<o.uri>> \o o.lines
  <1>1. /\ o.kind = "write" /\ o.linked /\ file["queue"] = <<>>
        /\ file' = [file EXCEPT !["queue"] = Overlay(new, <<>>)]
        /\ op'[me] = NoOp /\ UNCHANGED <<present, page>>
    BY DEF WriteBack, AllCurrent, Current, Inv, OpsOK
  <1>2. new \in Seq(Uri)
    BY <1>1, PutBefore DEF Inv, OpsOK, OpOK, NoOp
  <1> HIDE DEF new
  <1>3. Overlay(new, <<>>) = new
    <2>1. Len(new) + 1 \in Int /\ Len(<<>>) = 0 /\ 0 \in Int /\ 0 < Len(new) + 1
      BY <1>2
    <2>2. SubSeq(<<>>, Len(new) + 1, Len(<<>>)) = <<>>
      BY <2>1, SubSeqEmpty
    <2> QED
      BY <1>2, <2>2, ConcatEmptySeq DEF Overlay
  <1>4. /\ QueueOf(op'[me], file') = new
        /\ QueueOf(o, file) = o.lines
        /\ Asked(o) = [kind |-> "unshift", uri |-> o.uri]
        /\ Asked(op'[me]) = [kind |-> "nothing"]
    BY <1>1, <1>3 DEF QueueOf, NoOp, Asked, Inv, FilesOK, File
  <1>5. ReadLaterList!Unshift(me)
    <2>1. Queue' = <<o.uri>> \o Queue
      BY <1>4, QueueMapping DEF new
    <2>2. ReadLaterList!Done(me)
      BY <1>4, AskedIs DEF ReadLaterList!Done, ReadLaterList!Nothing
    <2>3. [p \in Instance |-> Asked(op[p])][me] = [kind |-> "unshift", uri |-> o.uri]
      BY <1>4, AskedAt
    <2> QED
      BY <1>1, <2>1, <2>2, <2>3 DEF ReadLaterList!Unshift
  <1>6. AllCurrent'
    BY <1>1 DEF AllCurrent, Current, NoOp
  <1> QED
    BY <1>5, <1>6 DEF ListStep, ReadLaterList!Next

\* ClearQueue is the clearing of the list.
LEMMA AloneClear ==
    ASSUME Inv, NEW me, Instance = {me}, AllCurrent, ClearQueue(me)
    PROVE  ListStep /\ AllCurrent'
  <1>1. /\ op[me] = NoOp /\ UNCHANGED <<op, page>>
        /\ file' = [file EXCEPT !["queue"] = <<>>]
        /\ present' = present \cup {"queue"}
    BY DEF ClearQueue, Free
  <1>2. QueueOf(op'[me], file') = <<>>
    BY <1>1 DEF QueueOf, NoOp, Inv, FilesOK, File
  <1>3. ReadLaterList!Clear
    BY <1>1, <1>2, QueueMapping DEF ReadLaterList!Clear
  <1>4. AllCurrent'
    BY <1>1 DEF AllCurrent, Current, NoOp
  <1> QED
    BY <1>3, <1>4 DEF ListStep, ReadLaterList!Next

\* ReadPop asks the list, if the file is the queue.
LEMMA AloneReadPop ==
    ASSUME Inv, NEW me, Instance = {me}, AllCurrent, NEW k \in {"pop", "reopen"},
           ReadPop(me, k)
    PROVE  ListStep /\ AllCurrent'
  <1> DEFINE f == IF k = "pop" THEN "queue" ELSE "closed"
  <1>1. /\ op[me] = NoOp
        /\ op'[me].kind = k /\ op'[me].file = f
        /\ op'[me].uri = Head(file[f]) /\ op'[me].lines = Tail(file[f])
        /\ file[f] # <<>>
        /\ UNCHANGED <<page, file, present>>
    <2>1. Free(me) /\ file[f] # <<>> /\ UNCHANGED <<present, file>>
      BY DEF ReadPop
    <2>2. PICK u, lines : /\ Begin(me, k, f, u, lines)
                          /\ u = Head(file[f]) /\ lines = Tail(file[f])
      BY DEF ReadPop
    <2> HIDE DEF f
    <2> DEFINE r == [kind |-> k, file |-> f, uri |-> u, lines |-> lines,
                     linked |-> k = "append" \/ f \in present]
    <2>3. op[me] = NoOp /\ op'[me] = r /\ UNCHANGED page
      <3>1. OpsOK /\ Free(me) /\ Begin(me, k, f, u, lines)
        BY <2>1, <2>2 DEF Inv
      <3>2. op[me] = NoOp /\ UNCHANGED page
        BY <3>1 DEF Free, Begin
      <3>3. op'[me] = r
        BY <3>1 DEF OpsOK, Begin
      <3> QED
        BY <3>2, <3>3
    <2>4. r.kind = k /\ r.file = f /\ r.uri = u /\ r.lines = lines
      OBVIOUS
    <2> QED
      BY <2>1, <2>2, <2>3, <2>4
  <1>2. AllCurrent'
    BY <1>1 DEF AllCurrent, Current
  <1>3. /\ QueueOf(op'[me], file') = QueueOf(op[me], file)
        /\ Asked(op[me]) = [kind |-> "nothing"]
    BY <1>1 DEF QueueOf, Asked, NoOp
  <1>4. CASE k = "pop"
    <2>1. Asked(op'[me]) = [kind |-> "pop"] /\ QueueOf(op[me], file) # <<>>
      BY <1>1, <1>4 DEF Asked, QueueOf, NoOp
    <2>2. [kind |-> "pop"] \in ReadLaterList!Command
      BY DEF ReadLaterList!Command
    <2> QED
      BY <1>1, <1>2, <1>3, <2>1, <2>2, AsksCommand
  <1>5. CASE k = "reopen"
    <2>1. Asked(op'[me]) = [kind |-> "nothing"]
      BY <1>1, <1>5 DEF Asked
    <2> QED
      BY <1>1, <1>2, <1>3, <2>1, Stutters
  <1> QED
    BY <1>4, <1>5

\* ReadClosed and ReadRemove begin operations of other files.
LEMMA AloneOther ==
    ASSUME Inv, NEW me, Instance = {me}, AllCurrent, NEW k \in {"close", "remove"},
           NEW f \in File, NEW u, NEW lines, Free(me), Begin(me, k, f, u, lines),
           UNCHANGED <<present, file>>
    PROVE  ListStep /\ AllCurrent'
  <1> DEFINE r == [kind |-> k, file |-> f, uri |-> u, lines |-> lines,
                   linked |-> k = "append" \/ f \in present]
  <1>0. op[me] = NoOp /\ op'[me] = r /\ UNCHANGED page
    <2>1. OpsOK /\ Free(me) /\ Begin(me, k, f, u, lines)
      BY DEF Inv
    <2>2. op[me] = NoOp /\ UNCHANGED page
      BY <2>1 DEF Free, Begin
    <2>3. op'[me] = r
      BY <2>1, BeginAlone
    <2> QED
      BY <2>2, <2>3
  <1>1. op[me] = NoOp /\ op'[me].kind = k /\ UNCHANGED page
    <2>1. r.kind = k
      OBVIOUS
    <2> QED
      BY <1>0, <2>1
  <1>2. AllCurrent'
    BY <1>1 DEF AllCurrent, Current
  <1>3. /\ QueueOf(op'[me], file') = QueueOf(op[me], file)
        /\ Asked(op'[me]) = Asked(op[me])
    BY <1>1 DEF QueueOf, Asked, NoOp
  <1> QED
    BY <1>1, <1>2, <1>3, Stutters

\* Rename is the pop of the list, if the file is the queue.
LEMMA AloneRename ==
    ASSUME Inv, NEW me, Instance = {me}, AllCurrent, Rename(me)
    PROVE  ListStep /\ AllCurrent'
  <1> DEFINE o == op[me]
  <1>1. /\ o.kind \in Replacing
        /\ file' = [file EXCEPT ![o.file] = o.lines]
        /\ op'[me] = NoOp
        /\ present' = present \cup {o.file}
        /\ page' = IF o.kind = "pop" THEN [page EXCEPT ![me] = {o.uri}] ELSE page
    BY DEF Rename
  <1>2. o.file \in FilesOf(o.kind) /\ o.file \in File
    BY <1>1 DEF Inv, OpsOK, OpOK, NoOp, Replacing, FilesOf, File
  <1>3. AllCurrent'
    <2>1. "queue" \notin present' => file'["queue"] = <<>>
      BY <1>1, <1>2 DEF AllCurrent, Current, Inv, FilesOK, File
    <2> QED
      BY <1>1, <2>1 DEF AllCurrent, Current, NoOp
  <1>4. Asked(op'[me]) = [kind |-> "nothing"]
    BY <1>1 DEF Asked, NoOp
  <1>5. CASE o.kind = "pop"
    <2>1. /\ o.file = "queue" /\ file["queue"] # <<>>
          /\ o.uri = Head(file["queue"]) /\ o.lines = Tail(file["queue"])
      BY <1>2, <1>5 DEF FilesOf, AllCurrent, Current
    <2>2. /\ QueueOf(op'[me], file') = Tail(QueueOf(o, file))
          /\ QueueOf(o, file) # <<>> /\ o.uri = Head(QueueOf(o, file))
          /\ Asked(o) = [kind |-> "pop"]
      BY <1>1, <1>5, <2>1 DEF QueueOf, NoOp, Asked, Inv, FilesOK, File
    <2>3. ReadLaterList!Pop(me)
      <3>1. Queue' = Tail(Queue) /\ Queue # <<>> /\ o.uri = Head(Queue)
        BY <2>2, QueueMapping
      <3>2. ReadLaterList!Done(me)
        BY <1>4, AskedIs DEF ReadLaterList!Done, ReadLaterList!Nothing
      <3>3. [p \in Instance |-> Asked(op[p])][me] = [kind |-> "pop"]
        BY <2>2, AskedAt
      <3> QED
        BY <1>1, <1>5, <3>1, <3>2, <3>3 DEF ReadLaterList!Pop
    <2> QED
      BY <1>3, <2>3 DEF ListStep, ReadLaterList!Next
  <1>6. CASE o.kind # "pop"
    <2>1. o.file # "queue" /\ UNCHANGED page
      BY <1>1, <1>2, <1>6 DEF Replacing, FilesOf
    <2>2. /\ QueueOf(op'[me], file') = QueueOf(op[me], file)
          /\ Asked(op[me]) = [kind |-> "nothing"]
      BY <1>1, <1>2, <1>6, <2>1 DEF QueueOf, NoOp, Asked, Replacing, Inv, FilesOK, File
    <2> QED
      BY <1>3, <1>4, <2>1, <2>2, Stutters
  <1> QED
    BY <1>5, <1>6

\* A rename that fails ends what the list was asked for.
LEMMA AloneRenameFails ==
    ASSUME Inv, NEW me, Instance = {me}, AllCurrent, RenameFails(me)
    PROVE  ListStep /\ AllCurrent'
  <1>1. op[me].kind \in Replacing /\ op'[me] = NoOp /\ UNCHANGED <<file, present, page>>
    BY DEF RenameFails, Inv, OpsOK
  <1>2. AllCurrent'
    BY <1>1 DEF AllCurrent, Current, NoOp
  <1>3. QueueOf(op'[me], file') = QueueOf(op[me], file)
    BY <1>1 DEF QueueOf, NoOp, Replacing
  <1> QED
    BY <1>1, <1>2, <1>3, AloneEnds

\* So does a kill.
LEMMA AloneKill ==
    ASSUME Inv, NEW me, Instance = {me}, AllCurrent, Alone, Kill(me)
    PROVE  ListStep /\ AllCurrent'
  <1>1. op[me].kind # "write" /\ op'[me] = NoOp /\ UNCHANGED <<file, present, page>>
    BY DEF Kill, Alone, Inv, OpsOK
  <1>2. AllCurrent'
    BY <1>1 DEF AllCurrent, Current, NoOp
  <1>3. QueueOf(op'[me], file') = QueueOf(op[me], file)
    BY <1>1 DEF QueueOf, NoOp
  <1> QED
    BY <1>1, <1>2, <1>3, AloneEnds

\* Start is the restart of the list.
LEMMA AloneStart ==
    ASSUME Inv, NEW me, Instance = {me}, AllCurrent, Start(me)
    PROVE  ListStep /\ AllCurrent'
  <1>1. UNCHANGED <<present, file, op>> /\ page' = [page EXCEPT ![me] = {}]
    BY DEF Start
  <1>2. AllCurrent'
    BY <1>1 DEF AllCurrent, Current
  <1>3. QueueOf(op'[me], file') = QueueOf(op[me], file)
        /\ [p \in Instance |-> Asked(op'[p])] = [p \in Instance |-> Asked(op[p])]
    BY <1>1
  <1>4. ReadLaterList!Restart(me)
    BY <1>1, <1>3, QueueMapping DEF ReadLaterList!Restart
  <1> QED
    BY <1>2, <1>4 DEF ListStep, ReadLaterList!Next

\* The first states map to those of the list.
LEMMA AloneInit ==
    ASSUME Alone, Init PROVE AllCurrent /\ ReadLaterList!Init
  <1>1. PICK me : Instance = {me}
    BY DEF Alone
  <1>2. op[me] = NoOp /\ file["queue"] = <<>> /\ op = [p \in Instance |-> NoOp]
    BY <1>1 DEF Init, File
  <1>3. AllCurrent
    BY <1>1, <1>2 DEF Init, Alone, AllCurrent, Current, NoOp
  <1>4. Queue = <<>>
    BY <1>1, <1>2, QueueMapping DEF QueueOf, NoOp
  <1>5. [p \in Instance |-> Asked(op[p])] = [p \in Instance |-> [kind |-> "nothing"]]
    BY <1>1, <1>2 DEF Asked, NoOp
  <1> QED
    BY <1>3, <1>4, <1>5 DEF Init, ReadLaterList!Init, ReadLaterList!Nothing

\* Every step maps to one of the list or to none.
LEMMA AloneNext ==
    ASSUME Alone, Inv, AllCurrent, [Next]_vars
    PROVE  ListStep /\ AllCurrent'
  <1>1. PICK me : Instance = {me}
    BY DEF Alone
  <1>2. CASE UNCHANGED <<present, file, op, page>>
    <2>1. AllCurrent'
      BY <1>2 DEF AllCurrent, Current
    <2> QED
      BY <1>1, <1>2, <2>1, Stutters
  <1>3. CASE UNCHANGED vars
    BY <1>2, <1>3 DEF vars
  <1>4. CASE \E u \in Uri : Remember(me, u)
    BY <1>2, <1>4 DEF Remember
  <1>5. ASSUME NEW u \in Uri, ReadClosed(me, u) PROVE ListStep /\ AllCurrent'
    <2>1. PICK lines : Begin(me, "close", "closed", u, lines)
      BY <1>5 DEF ReadClosed
    <2> QED
      BY <1>1, <1>5, <2>1, AloneOther DEF ReadClosed, File
  <1>6. ASSUME NEW u \in Uri, ReadRemove(me, u) PROVE ListStep /\ AllCurrent'
    <2>1. PICK lines : Begin(me, "remove", "bookmark", u, lines)
      BY <1>6 DEF ReadRemove
    <2> QED
      BY <1>1, <1>6, <2>1, AloneOther DEF ReadRemove, File
  <1> QED
    BY <1>1, <1>3, <1>4, <1>5, <1>6, AloneKill, AloneOpenAppend, AloneFlush, AloneUnshift,
       AloneTruncate, AloneWriteBack, AloneClear, AloneReadPop, AloneRename,
       AloneRenameFails, AloneStart DEF Next

\* The queue commands of an instance that is alone implement the list of the
\* manual, whatever becomes of its other files, whenever it fails to make a
\* temporary file, and wherever it is killed but between truncating the queue
\* file and writing it back.
THEOREM QueueImplementsList ==
    ASSUME Alone PROVE Spec => QueueIsReadLater
  <1>1. Init => AllCurrent /\ ReadLaterList!Init
    BY AloneInit
  <1>2. Inv /\ AllCurrent /\ [Next]_vars => AllCurrent' /\ ListStep
    BY AloneNext
  <1>3. ListStep => [ReadLaterList!Next]_ReadLaterList!vars
    BY DEF ListStep
  <1> QED
    BY <1>1, <1>2, <1>3, Invariance, PTL DEF Spec, QueueIsReadLater, ReadLaterList!Spec
=============================================================================
