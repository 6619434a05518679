------------------------------ MODULE MCTexts -------------------------------
(* The texts that the algorithms are checked on: all that can be written     *)
(* with the pieces of a subject, one more in every step; and the hints of a  *)
(* page, that is typed at.                                                   *)
EXTENDS Integers, Sequences, SequencesExt, TLC

CONSTANTS MaxLen    \* the most pieces of a text, for every topic

VARIABLES topic, pieces, page

MCHome == <<"H">>
MCUsers == (<<"a">> :> <<"U", "|">>)
MCVariables == (<<"a">> :> <<"\\">>)

W == INSTANCE Wildmatch
P == INSTANCE ExParser WITH Home <- MCHome, Users <- MCUsers, Variables <- MCVariables

N == INSTANCE Names
L == INSTANCE Lists
S == INSTANCE SettingTexts

MCPage == <<<<"a">>, <<"a", "b">>, <<>>, <<"b">>, <<"c">>>>
MCKeys == {<<"0", "1">>, <<"1", "0">>, <<"1">>}
MCConfigs == [keys : MCKeys, same : BOOLEAN, followLast : BOOLEAN, keepOpen : BOOLEAN]
MCFilters == {<<>>, <<<<"a">>>>, <<<<"a", "b">>>>, <<<<"b">>, <<"a">>>>, <<<<"c">>>>, <<<<"a", "'">>>>}

H == INSTANCE HintPage WITH Texts <- MCPage, Configs <- MCConfigs, Filters <- MCFilters, MaxKeys <- 4

Letters == {P!Names[i][j] : <<i, j>> \in {<<i, j>> \in (DOMAIN P!Names) \X (1 .. 16) : j <= Len(P!Names[i])}}
Line(key, title) == [key |-> key, title |-> title, tags |-> L!NoTags]

Alphabet ==
    [pattern |-> {"a", "b", "*", "?", ",", "{", "}"},
     name |-> Letters,
     line |-> {"a", "\\", "|", "~", "$", "/", " "},
     keys |-> {"<", ">", "C", "-", "\\", " "},
     code |-> {0, 1, 2, 9, 27, 31, 32, 63},
     query |-> {"a", " ", "\"", "$", "1"},
     path |-> {"a", " ", ".", "/", ":", "[", "]", "localhost"},
     file |-> {"a", ".", "/", "tar"},
     span |-> {"1", "0", "d", "h", "-"},
     host |-> {"a", "b", "."},
     script |-> {"a", "n", "\"", "\\", "\n"},
     lines |-> {Line(<<"a">>, <<"t">>), Line(<<"a">>, <<"a", "b">>), Line(<<"a", "b">>, <<>>),
                Line(<<"b">>, <<>>), Line(<<>>, <<>>)},
     tags |-> {"a", "b", " "},
     list |-> {"a", "b", ","}, labels |-> {"0", "1", "a"}, page |-> {}]

MCMaxLen ==
    [pattern |-> 5, name |-> 17, line |-> 5, keys |-> 5, code |-> 4, query |-> 5, path |-> 4,
     file |-> 6, span |-> 5, host |-> 5, script |-> 5, lines |-> 5, tags |-> 6, list |-> 7, labels |-> 3, page |-> 0]

Init == topic \in DOMAIN Alphabet /\ pieces = <<>> /\ H!Init
Write ==
    /\ Len(pieces) < MaxLen[topic]
    /\ topic = "name" /\ pieces # <<>> => \E i \in DOMAIN P!Names : IsPrefix(pieces, P!Names[i])
    /\ \E piece \in Alphabet[topic] : pieces' = Append(pieces, piece)
    /\ UNCHANGED <<topic, page>>
Hint == topic = "page" /\ H!Next /\ UNCHANGED <<topic, pieces>>
Next == Write \/ Hint
Spec == Init /\ [][Next]_<<topic, pieces, page>>

-----------------------------------------------------------------------------
(* Patterns of autocommands.                                                 *)
Subjects == UNION {[1 .. n -> {"a", "A", "b", "/"}] : n \in 0 .. 3}

\* util_wildmatch finds every text that a pattern of its manual matches: the
\* backtracking at stars, in the items of lists and over the patterns loses none.
WildmatchMatches == topic = "pattern" => W!MatchesAll(pieces, Subjects)

\* util_wildmatch matches nothing else with a pattern that has no list.
WildmatchOnly == topic = "pattern" => W!MatchesOnly(pieces, Subjects)

\* The same with lists; "{*}" also matches the empty text.
WildmatchLists == topic = "pattern" => W!ListMatchesOnly(pieces, Subjects)

\* util_wildmatch agrees with the definition of its patterns in both directions.
PatternsAgree == WildmatchMatches /\ WildmatchOnly

(* Command lines.                                                            *)

\* parse_command_name finds, of the commands that begin with what is typed, the
\* first in the table: giving up at the end of a group passes none over.
CommandIsFirst == topic = "name" => P!NameIsFirst(pieces)

\* A command of a line ends at the first bar that is not quoted, whatever is
\* expanded in front of it (parse_rhs).
LineEndsAtBar == topic = "line" => P!EndsAtBar(pieces)

\* Every text can be given as a right or a left side: quoted, parse_rhs and
\* parse_lhs read it as it is.
LineIsLiteral == topic = "line" => P!QuotedIsLiteral(pieces) /\ P!WordIsLiteral(pieces)

\* parse_lhs reads no further than the line; it does behind a last backslash.
LineStaysInText == topic = "line" => P!LhsEndsInText(pieces)

(* Keys.                                                                     *)
Splits == 1 .. Len(pieces)

\* convert_keys can express every text, and a label such as "<CR>" is its key
\* behind any text, also behind the beginning of another label.
KeysAreMapped ==
    topic = "keys" => /\ P!KeysAreQuoted(pieces)
                      /\ \A i \in Splits : P!LabelsCompose(SubSeq(pieces, 1, i), SubSeq(pieces, i + 1, Len(pieces)))

\* "\<" is a "<" behind every text; not behind one that ends in a "<".
KeysQuoteStart ==
    topic = "keys" => \A i \in Splits : P!QuotedStart(SubSeq(pieces, 1, i), SubSeq(pieces, i + 1, Len(pieces)))
Code == FoldLeft(LAMBDA n, digit : n * 64 + digit, 0, pieces)

\* A typed character reaches the queue as its UTF-8 bytes, and with the control
\* key as the same key that "<C-x>" in a mapping means (keyval_to_string).
BytesAreUtf8 == topic = "code" /\ Code <= 1114111 => P!KeysAsTyped(Code)

\* No byte of a character is taken for the first one of a special key.
BytesAreNoSpecialKey == topic = "code" => P!NoSpecialKey(Code)

\* What is typed is read as it was meant: names, ends and quoting of commands
\* (ex.c), and keys in a mapping as the keys that are pressed (map.c).
ParserAgrees ==
    /\ CommandIsFirst /\ LineEndsAtBar /\ LineIsLiteral
    /\ KeysAreMapped /\ BytesAreUtf8

\* What the user writes is read as its manual defines it: patterns of
\* autocommands (util_wildmatch), command lines and the keys of mappings.
ReadersAgree == PatternsAgree /\ ParserAgrees

(* Shortcuts and addresses.                                                  *)
Template == <<"u", "$", "0", "/", "$", "1">>
Templates == {Template, <<"$", "2", "u", "$", "0">>, <<"$", "1">>, <<"$", "0", "u">>}
Table == (<<"a">> :> Template)
Two(Holds(_, _)) == \A i \in Splits : Holds(SubSeq(pieces, 1, i), SubSeq(pieces, i + 1, Len(pieces)))

\* shortcut_get_uri puts the words of a query into its template one for one, the
\* rest into the last, and a quoted word as one; what is put in is not filled again.
ShortcutsFill ==
    topic = "query" => \A template \in Templates :
        /\ N!WordsFill(template, pieces)
        /\ Two(LAMBDA p, q : N!QuotedFill(template, p, q))

\* vb_load_uri loads no blank for a text that is no file and no key and has none
\* at its ends: several words are searched for, or escaped.
AddressesAreEscaped ==
    topic = "path" /\ pieces # <<>> => N!SpacesAreEscaped(Table, <<"a">>, {<<"a", " ", ".">>}, pieces)

\* The query of a shortcut is a text; it is NULL if only the key is given.
KeyHasQuery == topic = "path" => N!HasQuery(Table, <<"a">>, pieces)

(* Names of downloads, time spans, hosts and scripts.                        *)
Existing == {{pieces} \cup {N!WithSuffix(pieces, n) : n \in taken} : taken \in SUBSET (1 .. 2)}

\* A download is written to a new file with the suffix of its name and in its
\* directory, if no dot is in the name of a directory (vb_download_set_destination).
DownloadKeepsPlace ==
    topic = "file" /\ pieces # <<>> /\ Last(pieces) # "/" /\ ~Contains(N!DirOf(pieces), ".") =>
        \A existing \in Existing : N!KeepsPlace(pieces, existing)

\* The same for all directories; "./a" becomes "_1./a".
DownloadKeepsDirectory ==
    topic = "file" /\ pieces # <<>> /\ Last(pieces) # "/" =>
        \A existing \in Existing : N!KeepsPlace(pieces, existing)

\* A time span is the sum of its parts, each of which is the number in front of a
\* unit, and of that alone (util_string_to_timespan).
TimeSpansAdd == topic = "span" => Two(N!SpansAdd)

\* :clearcookies deletes the cookies of a host and of the hosts below it, and not
\* those of a host whose name only ends alike.
CookiesOfHost ==
    topic = "host" => \A host \in {<<"a">>, <<"b", ".", "a">>, <<"a", "b">>} : N!MatchesLabels(pieces, host)

\* A text that util_strescape put into a script is read back as it was.
ScriptsReadText == topic = "script" => N!ScriptReadsText(pieces)

\* The names that are made of what the user, a page or an editor gives (addresses,
\* files, hosts, time spans, scripts) are those that were meant.
NamesAgree ==
    /\ ShortcutsFill /\ AddressesAreEscaped /\ DownloadKeepsPlace
    /\ TimeSpansAdd /\ CookiesOfHost /\ ScriptsReadText

\* :cleardata clears what is named; it reads the wrong side of the command.
DataIsCleared == N!ClearsWhatIsNamed(<<"cookies">>, <<>>) /\ N!ClearsWhatIsNamed(<<"cache">>, <<"2", "d">>)

(* Histories and bookmarks.                                                  *)

\* Of the lines of one address the last is kept, in the order of the file, and of
\* too many the latest; what was loaded and written is loaded unchanged.
LatestAreKept == topic = "lines" => \A max \in 0 .. 3 : L!KeepsLatest(pieces, max)

\* <Up> shows the lines that begin with what was typed, each once and the latest
\* first, and what was typed comes before all (history_get_list).
HistoryGoesBack ==
    topic = "lines" => \A max \in 0 .. 3, query \in {<<>>, <<"a">>, <<"b", "a">>} : L!GoesBack(pieces, query, max)
Words == {<<"a">>, <<"b">>, <<"a", "b">>}

\* A bookmark that is found has every word at the beginning of a tag, and is found
\* by words in the order of its tags (bookmark_contains_all_tags).
BookmarksMatch ==
    topic = "tags" => \A n \in 1 .. 3 : \A words \in [1 .. n -> Words] : L!TagsMatch(pieces, words)

\* Whatever a list is, but for empty items: an item that is added or removed leaves
\* all others whole and in their order (prepare_setting_value searches it in the
\* text, and moves the rest over it and a comma beside it).
ItemsStayWhole ==
    topic = "list" /\ S!IsList(pieces) => \A v \in Words : S!RemovesOneItem(pieces, v) /\ S!AddsOneItem(pieces, v)

\* The histories and bookmarks that are shown are those of the files, and lists
\* of settings change by an item.
ListsAgree == LatestAreKept /\ HistoryGoesBack /\ BookmarksMatch /\ ItemsStayWhole

\* It is found by its tags in any order; it is not.
BookmarksInAnyOrder ==
    topic = "tags" => \A n \in 1 .. 3 : \A words \in [1 .. n -> Words] : L!TagsInAnyOrder(pieces, words)

(* The hints of a page.                                                      *)

\* With every choice of hint keys the labels of all hints are different, and of
\* one length if "hint-keys-same-length" is set (doc/vimb.1).
HintLabels ==
    topic = "labels" /\ pieces # <<>> /\ IsInjective(pieces) =>
        \A count \in 0 .. 30 : H!LabelsAreUnique(pieces, count)

\* Whatever is typed, filtered, fired and moved: <CR> fires a hint that is shown
\* and matches, and a label that is typed fires its hint and no other (hints.js).
HintsAgree == HintLabels /\ (topic = "page" => H!ActiveIsValid /\ H!LabelFiresItsHint)

\* Not kept: see HintPage.
FiresOnce == H!FiresOnce
ExactLabelIsActive == H!ExactLabelIsActive
TextStaysFilter == H!TextStaysFilter
=============================================================================
