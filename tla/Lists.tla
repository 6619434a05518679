------------------------------- MODULE Lists --------------------------------
(* What is looked up in the files of src/history.c and src/bookmark.c: a     *)
(* line is a record of a key, the address, and of its title and tags, and an *)
(* empty key is an empty line.                                               *)
EXTENDS Integers, Sequences, SequencesExt, FiniteSetsExt

LOCAL From(text, i) == SubSeq(text, i, Len(text))
NoTags == <<"none">>

MutantNeighbours(list, line, max) ==
    IF \/ line.key = <<>>
       \/ max # 0 /\ Len(list) >= max
       \/ list # <<>> /\ list[1].key = line.key
    THEN list ELSE <<line>> \o list

(* A line is taken, from the last one on, if its key is new and there is     *)
(* room; max is 0 for any number.                                            *)
Take(list, line, max) ==
    IF \/ line.key = <<>>
       \/ max # 0 /\ Len(list) >= max
       \/ \E i \in DOMAIN list : list[i].key = line.key
    THEN list ELSE <<line>> \o list

(* util_strv_to_unique_list.                                                 *)
UniqueList(lines, max) == FoldLeft(LAMBDA list, line : Take(list, line, max), <<>>, Reverse(lines))

-----------------------------------------------------------------------------
MutantOldFirst(lines, query, max) ==
    LET matching == SelectSeq(UniqueList(lines, max), LAMBDA line : IsPrefix(query, line.key))
    IN  <<query>> \o [i \in DOMAIN matching |-> matching[i].key]

(* history_get_list: what <Up> goes through, the query itself first.         *)
HistoryList(lines, query, max) ==
    LET matching == SelectSeq(UniqueList(lines, max), LAMBDA line : IsPrefix(query, line.key))
    IN  <<query>> \o Reverse([i \in DOMAIN matching |-> matching[i].key])

MutantAnyPart(text, from, separators, word) ==
    LET begins == {i \in from .. Len(text) : IsPrefix(word, From(text, i))}
    IN  IF begins = {} THEN Len(text) + 1 ELSE Min(begins)

(* Where the cursor of bookmark_contains_all_tags stands when it has found a *)
(* word: behind the end if it is not found.  It is not set back.             *)
Cursor(text, from, separators, word) ==
    LET ends == {i \in DOMAIN text : text[i] \in separators}
        begins == {i \in from .. Len(text) : (i = from \/ i - 1 \in ends) /\ IsPrefix(word, From(text, i))}
    IN  IF begins = {} THEN Len(text) + 1 ELSE Min(begins)

(* bookmark_contains_all_tags: by the tags, or by the parts of the address   *)
(* if there are none.                                                        *)
ContainsAllTags(line, words) ==
    LET text == IF line.tags = NoTags THEN line.key ELSE line.tags
        separators == IF line.tags = NoTags THEN {".", "/"} ELSE {" "}
    IN  words = <<>> \/ FoldLeft(LAMBDA at, word : Cursor(text, at, separators, word), 1, words) <= Len(text)

-----------------------------------------------------------------------------
(* What they promise.                                                        *)
Keys(lines) == {lines[i].key : i \in DOMAIN lines} \ {<<>>}

(* Of every address the last line is kept, in the order of the file, and the *)
(* latest if they are too many; so that to load what was written changes     *)
(* nothing.                                                                  *)
KeepsLatest(lines, max) ==
    LET last(k) == CHOOSE i \in DOMAIN lines : lines[i].key = k /\ \A j \in i + 1 .. Len(lines) : lines[j].key # k
        kept == {i \in {last(k) : k \in Keys(lines)} :
                    max = 0 \/ Cardinality({j \in {last(k) : k \in Keys(lines)} : j > i}) < max}
        list == UniqueList(lines, max)
    IN  /\ Len(list) = Cardinality(kept)
        /\ \A i \in kept : list[Cardinality({j \in kept : j <= i})] = lines[i]
        /\ UniqueList(list, max) = list

(* <Up> shows what was entered last and begins with the query, everything    *)
(* once, and comes back to the query.                                        *)
GoesBack(lines, query, max) ==
    LET list == HistoryList(lines, query, max)
        all == UniqueList(lines, max)
        place(k) == CHOOSE i \in DOMAIN all : all[i].key = k
    IN  /\ list[1] = query
        /\ {list[i] : i \in 2 .. Len(list)} = {k \in Keys(all) : IsPrefix(query, k)}
        /\ \A i, j \in 2 .. Len(list) : i < j => place(list[i]) > place(list[j])

(* A bookmark that is found has every word as the beginning of a tag, and    *)
(* words in the order of the tags find it.                                   *)
Tags(text) == {i \in DOMAIN text : text[i] # " " /\ (i = 1 \/ text[i - 1] = " ")}
TagsMatch(tags, words) ==
    LET starts(word) == {i \in Tags(tags) : IsPrefix(word, From(tags, i))}
        found == ContainsAllTags([key |-> <<>>, title |-> <<>>, tags |-> tags], words)
    IN  /\ found => \A word \in Range(words) : starts(word) # {}
        /\ (\E f \in [DOMAIN words -> Tags(tags)] :
                \A i \in DOMAIN words : f[i] \in starts(words[i]) /\ (i > 1 => f[i - 1] <= f[i])) => found

(* "matches all given query strings" (bookmark.c:235).  Not so if the words  *)
(* are in another order.                                                     *)
TagsInAnyOrder(tags, words) ==
    (\A word \in Range(words) : \E i \in Tags(tags) : IsPrefix(word, From(tags, i)))
        => ContainsAllTags([key |-> <<>>, title |-> <<>>, tags |-> tags], words)
=============================================================================
