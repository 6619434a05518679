----------------------------- MODULE SettingTexts -----------------------------
(* What prepare_setting_value of src/setting.c makes of a setting that is a  *)
(* text or a list, a text with commas between its items.  A text is a        *)
(* sequence of characters.                                                   *)
EXTENDS Integers, Sequences, SequencesExt

(* What separates the items of a list.                                       *)
Sep == ","

(* Whether the text v stands at position i of the text s; in a list only as  *)
(* a whole item.                                                             *)
StandsAt(v, s, i, list) ==
    /\ IsPrefix(v, SubSeq(s, i, Len(s)))
    /\ list => /\ i = 1 \/ s[i - 1] = Sep
               /\ i + Len(v) \in {Len(s) + 1} \cup {j \in DOMAIN s : s[j] = Sep}

(* The first such position, 0 if there is none. *)
Position(v, s, list) ==
    LET at == {i \in DOMAIN s : StandsAt(v, s, i, list)}
    IN  IF at = {} THEN 0 ELSE CHOOSE i \in at : \A j \in at : i <= j

(* A text without the first v in it; in a list one comma goes with it, the   *)
(* one behind the first item and the one before any other.  The code moves   *)
(* the rest with the byte behind its end, and for a v that is not there      *)
(* takes the length of what lies behind the text; what is read there is left *)
(* out, as it does not get into the text.                                    *)
Without(s, v, list) ==
    LET i == Position(v, s, list)
        from == IF list /\ i > 1 THEN i - 1 ELSE i
        next == IF list /\ i = 1 THEN i + Len(v) + 1 ELSE i + Len(v)
    IN  IF i = 0 THEN s ELSE SubSeq(s, 1, from - 1) \o SubSeq(s, next, Len(s))

Glue(s, v, list) == IF list /\ v # <<>> THEN s \o <<Sep>> \o v ELSE s \o v

(* The text that op makes of the text or list old with v.                    *)
PrepareText(old, v, op, list) ==
    IF op = "set" \/ old = <<>> THEN IF op = "remove" THEN old ELSE v
    ELSE IF op # "remove" /\ list /\ Position(v, old, list) # 0 THEN v
    ELSE CASE op = "remove" -> Without(old, v, list)
           [] op = "append" -> Glue(old, v, list)
           [] op = "prepend" ->
                IF list /\ v # <<>> THEN v \o <<Sep>> \o old ELSE v \o old

-----------------------------------------------------------------------------
(* The items of a list: a comma begins another one, and every other          *)
(* character goes to the last.                                               *)
Cut(items, c) ==
    IF c = Sep THEN Append(items, <<>>) ELSE [items EXCEPT ![Len(items)] = Append(@, c)]
Pieces(s) ==
    LET cut[n \in 0 .. Len(s)] == IF n = 0 THEN <<<<>>>> ELSE Cut(cut[n - 1], s[n])
    IN  cut[Len(s)]
Items(s) == IF s = <<>> THEN <<>> ELSE Pieces(s)

(* A list without empty items: nothing, and a single one, are the same text. *)
IsList(s) == \A i \in DOMAIN Items(s) : Items(s)[i] # <<>>

(* Removing an item from a list takes away its first occurrence and leaves   *)
(* every other item whole and in its place; what is only a part of an item   *)
(* is not removed.                                                           *)
RemovesOneItem(list, v) ==
    LET old == Items(list)
        at == {i \in DOMAIN old : old[i] = v}
        new == Items(PrepareText(list, v, "remove", TRUE))
    IN  IF at = {} THEN new = old
        ELSE \E i \in at : (\A j \in at : i <= j) /\ new = RemoveAt(old, i)

(* An item that a list does not have is added at the end or in front.        *)
AddsOneItem(list, v) ==
    LET old == Items(list)
        Added(op) == Items(PrepareText(list, v, op, TRUE))
    IN  (\A i \in DOMAIN old : old[i] # v) =>
            Added("append") = Append(old, v) /\ Added("prepend") = <<v>> \o old
=============================================================================
