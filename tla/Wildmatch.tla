----------------------------- MODULE Wildmatch ------------------------------
(* The patterns of autocommands (util_wildmatch of src/util.c): a list of    *)
(* patterns separated by commas, with "*", "?" and lists like "{foo,bar}".   *)
(* A text is a sequence of characters.  p is a pattern from the character at *)
(* which the code stands to the end of the string, n how many characters of  *)
(* it belong to the pattern, s what is left of the subject.                  *)
EXTENDS Integers, Sequences, SequencesExt

NUL == "NUL"
At(text, i) == IF i \in DOMAIN text THEN text[i] ELSE NUL
From(text, i) == SubSeq(text, i, Len(text))
Lower(c) == IF c = "A" THEN "a" ELSE c
Special == {"*", "?", "{", "}", NUL}

(* A step behind the end of the subject: whatever is read there, it is       *)
(* neither a character that was written nor the end.                         *)
Beyond == "beyond"
Rest(s) == IF s = <<>> THEN <<Beyond>> ELSE Tail(s)

RECURSIVE Match(_, _, _), MatchList(_, _, _), Item(_, _, _, _, _), Braces(_, _)

(* The position behind the escaped text from i on at which one of stops is.  *)
RECURSIVE Stop(_, _, _)
Stop(p, i, stops) ==
    IF At(p, i) \in stops \cup {NUL} THEN i
    ELSE Stop(p, IF p[i] = "\\" THEN i + 2 ELSE i + 1, stops)

(* The items of a list from q on, of which the first was compared up to s;   *)
(* end and n is the pattern behind the list.  The last item that does not    *)
(* match leaves the code at the "}", as if an empty item were there.         *)
Item(q, s, subject, end, n) ==
    LET r == IF At(q, 1) = "\\" /\ At(q, 2) \in {",", "}", "{"} THEN Tail(q) ELSE q
        skip == Stop(r, 1, {",", "}"})
    IN  CASE q[1] = "," -> Match(end, n, s) \/ Item(Tail(q), subject, subject, end, n)
          [] q[1] = "}" -> Match(end, n, s)
          [] q[1] \notin {",", "}"} /\ r[1] = At(s, 1) -> Item(Tail(r), Tail(s), subject, end, n)
          [] OTHER -> Item(From(r, IF r[skip] = "," THEN skip + 1 ELSE skip), subject, subject, end, n)

(* The brace that closes the list is looked for in the pattern only; if only *)
(* escaped ones are there, the character behind the pattern is taken for it, *)
(* and what is read behind the whole text then is left undefined.            *)
MatchList(p, n, s) ==
    LET end == Stop(SubSeq(p, 1, n), 1, {"}"})
    IN  At(p, end) # NUL /\ Item(Tail(p), s, s, From(p, end + 1), n - end)

MutantPrefix(s) == TRUE

(* At the end of the pattern only a subject at its end matches.              *)
Ended(s) == s = <<>>

(* One pattern against the subject.  A "\" before a character that is not    *)
(* special is taken for any character, even for the end.                     *)
Match(p, n, s) ==
    IF n <= 0 THEN Ended(s)
    ELSE LET c == p[1]
         IN  CASE c = "?" -> s # <<>> /\ s[1] # "/" /\ Match(Tail(p), n - 1, Tail(s))
               [] c = "*" -> n = 1 \/ \E i \in 1 .. Len(s) + 1 : Match(Tail(p), n - 1, From(s, i))
               [] c = "}" -> FALSE
               [] c = "{" -> MatchList(p, n, s)
               [] c = "\\" /\ At(p, 2) \in Special ->
                    At(p, 2) = At(s, 1) /\ Match(From(p, 3), n - 2, Rest(s))
               [] c = "\\" /\ At(p, 2) \notin Special -> Match(Tail(p), n - 1, Rest(s))
               [] OTHER -> Lower(c) = Lower(At(s, 1)) /\ Match(Tail(p), n - 1, Tail(s))

(* How many braces are open before position i, escaped or not.               *)
Braces(p, i) ==
    IF i = 1 THEN 0
    ELSE Braces(p, i - 1) + (CASE p[i - 1] = "{" -> 1 [] p[i - 1] = "}" -> -1 [] OTHER -> 0)

(* Where the pattern that starts at i ends: at a comma outside braces.       *)
EndOf(p, i) ==
    LET open(j) == Braces(From(p, i), j - i + 1) # 0
        ends == {j \in i .. Len(p) : p[j] = "," /\ ~open(j) /\ At(p, j - 1) # "\\"}
    IN  IF ends = {} THEN Len(p) + 1 ELSE CHOOSE j \in ends : \A k \in ends : j <= k

RECURSIVE AnyFrom(_, _, _)
MutantFirstOnly(p, i, s) ==
    i <= Len(p) /\ EndOf(p, i) # i /\ Match(From(p, i), EndOf(p, i) - i, s)

AnyFrom(p, i, s) ==
    LET end == EndOf(p, i)
    IN  i <= Len(p) /\ \/ end # i /\ Match(From(p, i), end - i, s)
                       \/ AnyFrom(p, end + 1, s)

(* util_wildmatch: an empty list of patterns matches the empty subject.      *)
WildMatch(p, s) == IF p = <<>> THEN s = <<>> ELSE AnyFrom(p, 1, s)

-----------------------------------------------------------------------------
(* What the comment of util_wildmatch says, for patterns without "\" whose   *)
(* lists are closed and not nested: the characters of the subject are        *)
(* consumed by the parts of the pattern; Reach is where that can lead.       *)

Plain(p) ==
    /\ ~Contains(p, "\\")
    /\ \A i \in 1 .. Len(p) + 1 : Braces(p, i) \in {0, 1}
    /\ Braces(p, Len(p) + 1) = 0

Words(text) ==
    LET cut == {0, Len(text) + 1} \cup {i \in DOMAIN text : text[i] = ","}
    IN  {SubSeq(text, i + 1, j - 1) : <<i, j>> \in
            {<<i, j>> \in cut \X cut : i < j /\ \A k \in cut : k <= i \/ k >= j}}

RECURSIVE Reach(_, _, _)
Reach(p, s, at) ==
    IF p = <<>> THEN at
    ELSE LET close == Stop(p, 1, {"}"})
         IN  CASE p[1] = "*" -> Reach(Tail(p), s, {j \in 0 .. Len(s) : \E i \in at : i <= j})
               [] p[1] = "?" -> Reach(Tail(p), s, {j \in 1 .. Len(s) : j - 1 \in at /\ s[j] # "/"})
               [] p[1] = "{" -> Reach(From(p, close + 1), s,
                    {j \in 0 .. Len(s) : \E w \in Words(SubSeq(p, 2, close - 1)) :
                        j - Len(w) \in at /\ SubSeq(s, j - Len(w) + 1, j) = w})
               [] OTHER -> Reach(Tail(p), s, {j \in 1 .. Len(s) : j - 1 \in at /\ Lower(s[j]) = Lower(p[1])})

Patterns(p) ==
    LET cut == {0, Len(p) + 1} \cup {i \in DOMAIN p : p[i] = "," /\ Braces(p, i) = 0}
    IN  {SubSeq(p, i + 1, j - 1) : <<i, j>> \in
            {<<i, j>> \in cut \X cut : i < j /\ \A k \in cut : k <= i \/ k >= j}}

ShouldMatch(p, s) ==
    \/ p = <<>> /\ s = <<>>
    \/ \E q \in Patterns(p) \ {<<>>} : Len(s) \in Reach(q, s, {0})

(* A pattern matches every subject that it should match: backtracking at a   *)
(* "*", in the items of a list and over the patterns loses none.             *)
MatchesAll(p, subjects) ==
    Plain(p) => \A s \in subjects : ShouldMatch(p, s) => WildMatch(p, s)

(* A pattern without lists matches nothing else.                             *)
MatchesOnly(p, subjects) ==
    Plain(p) /\ ~Contains(p, "{")
        => \A s \in subjects : WildMatch(p, s) => ShouldMatch(p, s)

(* What the comment says of lists, "{foo,bar} Matches foo or bar"            *)
(* (util.c:972).  Not so: it also matches the empty text.                    *)
ListMatchesOnly(p, subjects) ==
    Plain(p) => \A s \in subjects : WildMatch(p, s) => ShouldMatch(p, s)
=============================================================================
