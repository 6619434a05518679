------------------------------- MODULE Names --------------------------------
(* What texts of the user are turned into: addresses by the shortcuts        *)
(* (src/shortcut.c, vb_load_uri), file names of downloads, time spans, hosts *)
(* whose cookies are cleared, and texts that are put into a script.  A text  *)
(* is a sequence of characters.                                              *)
EXTENDS Integers, Sequences, SequencesExt, FiniteSetsExt, TLC

LOCAL NUL == "NUL"
LOCAL At(text, i) == IF i \in DOMAIN text THEN text[i] ELSE NUL
LOCAL From(text, i) == SubSeq(text, i, Len(text))
LOCAL First(set, default) == IF set = {} THEN default ELSE Min(set)
LOCAL Where(part, text) ==
    {i \in 1 .. Len(text) - Len(part) + 1 : SubSeq(text, i, i + Len(part) - 1) = part}

-----------------------------------------------------------------------------
(* Shortcuts.  A template holds placeholders "$" with a digit.               *)
Digits == <<"0", "1", "2", "3", "4", "5", "6", "7", "8", "9">>
Number(c) == CHOOSE n \in 0 .. 9 : Digits[n + 1] = c
Quotes == {"\"", "'"}
NoQuery == <<"null">>

(* g_uri_escape_string: what is not a letter or digit gets a form without    *)
(* any character of the texts.                                               *)
Escape(text) == [i \in DOMAIN text |-> IF text[i] \in Range(Digits) \cup {"a", "b"} THEN text[i] ELSE "%" \o text[i]]

(* util_str_replace.                                                         *)
RECURSIVE Replace(_, _, _)
Replace(search, by, text) ==
    LET at == First(Where(search, text), 0)
    IN  IF at = 0 THEN text
        ELSE SubSeq(text, 1, at - 1) \o by \o Replace(search, by, From(text, at + Len(search)))

(* get_max_placeholder: -1 if there is none.                                 *)
MaxPlaceholder(template) ==
    Max({-1} \cup {Number(template[i + 1]) :
                    i \in {i \in 1 .. Len(template) - 1 : template[i] = "$" /\ template[i + 1] \in Range(Digits)}})

MutantNoRest(query, last) ==
    LET q == query[1]
        close == First({i \in 2 .. Len(query) : query[i] = q}, Len(query) + 1)
        end == First({i \in DOMAIN query : query[i] = " "}, Len(query) + 1)
    IN  IF q \in Quotes THEN <<SubSeq(query, 2, close - 1), From(query, close + 1)>>
        ELSE <<SubSeq(query, 1, end - 1), From(query, end)>>

(* The next parameter of the query and what is left of it: a quoted one, the *)
(* rest if all placeholders but one are used, or a word.                     *)
Param(query, last) ==
    LET q == query[1]
        close == First({i \in 2 .. Len(query) : query[i] = q}, Len(query) + 1)
        end == First({i \in DOMAIN query : query[i] = " "}, Len(query) + 1)
    IN  CASE q \in Quotes -> <<SubSeq(query, 2, close - 1), From(query, close + 1)>>
          [] q \notin Quotes /\ last -> <<query, <<>>>>
          [] q \notin Quotes /\ ~last -> <<SubSeq(query, 1, end - 1), From(query, end)>>

RECURSIVE Fill(_, _, _, _)
Fill(uri, query, n, max) ==
    IF query = <<>> THEN uri
    ELSE IF query[1] = " " THEN Fill(uri, Tail(query), n, max)
    ELSE LET param == Param(query, n >= max)
             filled == IF param[1] = <<>> \/ n > 9 THEN uri ELSE Replace(<<"$", Digits[n + 1]>>, Escape(param[1]), uri)
         IN  Fill(filled, param[2], n + 1, max)

(* shortcut_get_uri for the template and query that were found.              *)
Filled(template, query) ==
    LET max == MaxPlaceholder(template)
    IN  CASE max = 0 -> Replace(<<"$", "0">>, Escape(query), template)
          [] max < 0 -> template
          [] max > 0 -> Fill(template, query, 0, max)

(* shortcut_lookup in a table with a default key: a template and a query,    *)
(* which is not set for a key that is the whole text.                        *)
Lookup(table, default, text) ==
    LET space == First({i \in DOMAIN text : text[i] = " "}, 0)
        key == IF space = 0 THEN text ELSE SubSeq(text, 1, space - 1)
    IN  CASE key \in DOMAIN table ->
                {<<table[key], IF space = 0 THEN NoQuery ELSE From(text, space + 1)>>}
          [] key \notin DOMAIN table /\ default \in DOMAIN table -> {<<table[default], text>>}
          [] OTHER -> {}

GetUri(table, default, text) == {Filled(found[1], found[2]) : found \in Lookup(table, default, text)}

-----------------------------------------------------------------------------
(* Addresses.                                                                *)
MutantWithSpace(path) == Contains(path, ".")

(* is_plausible_uri.                                                         *)
IsPlausibleUri(path) ==
    /\ ~Contains(path, " ")
    /\ \/ Contains(path, ".")
       \/ LET i == First({i \in DOMAIN path : path[i] = "localhost"}, 0)
          IN  i # 0 /\ At(path, i - 1) \in {NUL, "/"} /\ At(path, i + 1) \in {NUL, "/", ":"}
       \/ LET i == First({i \in DOMAIN path : path[i] = "["}, Len(path) + 1)
              j == First({j \in i .. Len(path) : path[j] = ":"}, Len(path) + 1)
          IN  \E k \in j .. Len(path) : path[k] = "]"

(* What vb_load_uri loads for a path; files are the paths that exist.        *)
LoadUri(table, default, files, path) ==
    LET shortcut == GetUri(table, default, path)
        direct == Where(<<":", "/", "/">>, path) # {} /\ ~Contains(path, " ")
    IN  CASE direct -> path
          [] ~direct /\ path \in files -> <<"file", ":", "/", "/">> \o path
          [] ~direct /\ path \notin files /\ ~IsPlausibleUri(path) /\ shortcut # {} -> CHOOSE u \in shortcut : TRUE
          [] OTHER -> <<"http", ":", "/", "/">> \o path

-----------------------------------------------------------------------------
(* vb_download_set_destination: a name that no file has.  The number goes in *)
(* front of ".tar." or of the last dot of the path.                          *)
MutantLastDot(file) ==
    LET dots == {i \in DOMAIN file : file[i] = "."}
    IN  IF dots = {} THEN Len(file) + 1 ELSE Max(dots)

SuffixAt(file) ==
    LET tar == Where(<<".", "tar", ".">>, file)
        dots == {i \in DOMAIN file : file[i] = "."}
    IN  CASE tar # {} -> Min(tar)
          [] tar = {} /\ dots # {} -> Max(dots)
          [] dots = {} -> Len(file) + 1

WithSuffix(file, n) ==
    SubSeq(file, 1, SuffixAt(file) - 1) \o <<"_", Digits[n + 1]>> \o From(file, SuffixAt(file))

FreeName(file, existing) ==
    IF file \notin existing THEN file
    ELSE WithSuffix(file, CHOOSE n \in 1 .. 9 :
            WithSuffix(file, n) \notin existing /\ \A k \in 1 .. n - 1 : WithSuffix(file, k) \in existing)

-----------------------------------------------------------------------------
(* util_string_to_timespan in hours; of the units "h", "d" and "w".          *)
Unit(c) == CASE c = "h" -> 1 [] c = "d" -> 24 [] c = "w" -> 168 [] OTHER -> 0
MutantKeepsNumber(state, c) ==
    IF c \in Range(Digits) THEN [state EXCEPT !.number = @ * 10 + Number(c), !.has = TRUE]
    ELSE [state EXCEPT !.sum = @ + Unit(c) * (IF state.has THEN state.number ELSE 1), !.has = FALSE]
SpanStep(state, c) ==
    IF c \in Range(Digits) THEN [state EXCEPT !.number = @ * 10 + Number(c), !.has = TRUE]
    ELSE [sum |-> state.sum + Unit(c) * (IF state.has THEN state.number ELSE 1), number |-> 0, has |-> FALSE]
TimeSpan(text) == FoldLeft(SpanStep, [sum |-> 0, number |-> 0, has |-> FALSE], text).sum

(* The match of on_clearcookies_fetched.                                     *)
MutantEndsWith(name, host) == IsSuffix(host, name)
HostMatches(name, host) ==
    LET bare == IF At(name, 1) = "." THEN Tail(name) ELSE name
    IN  bare = host \/ (IsSuffix(host, bare) /\ At(bare, Len(bare) - Len(host)) = ".")

(* ex_cleardata: the types that are cleared, and whether the command fails.  *)
(* It asks for the left side and reads the right one.                        *)
DataTypes == {"cookies", "cache"}
ClearData(lhs, rhs) ==
    IF lhs # <<>> /\ lhs # <<"-">> THEN [types |-> Range(rhs) \cap DataTypes, fails |-> ~(Range(rhs) \subseteq DataTypes)]
    ELSE [types |-> DataTypes, fails |-> FALSE]

(* util_strescape of a text for a script (input_editor_formfiller).          *)
EscapeOf(c) ==
    CASE c = "\n" -> <<"\\", "n">>
      [] c \in {"\"", "\\"} -> <<"\\", c>>
      [] OTHER -> <<c>>
MutantKeepsSlash(text) == FlattenSeq([i \in DOMAIN text |-> IF text[i] = "\\" THEN <<"\\">> ELSE EscapeOf(text[i])])
Strescape(text) == FlattenSeq([i \in DOMAIN text |-> EscapeOf(text[i])])

-----------------------------------------------------------------------------
(* What they promise.                                                        *)

(* The template with the parameters put in at once; what is given no         *)
(* parameter stays.                                                          *)
With(template, params) ==
    LET number(i) == IF At(template, i - 1) = "$" /\ At(template, i) \in Range(Digits)
                     THEN Number(template[i]) ELSE -1
        put(i) == CASE number(i + 1) \in DOMAIN params -> <<>>
                    [] number(i) \in DOMAIN params -> Escape(params[number(i)])
                    [] OTHER -> <<template[i]>>
    IN  FlattenSeq([i \in DOMAIN template |-> put(i)])

(* Word by word into the placeholders, all that is left into the highest.    *)
WordsFill(template, query) ==
    LET starts == {i \in DOMAIN query : query[i] # " " /\ At(query, i - 1) \in {NUL, " "}}
        max == MaxPlaceholder(template)
        start(d) == CHOOSE i \in starts : Cardinality({j \in starts : j < i}) = d
        end(d) == First({j \in start(d) .. Len(query) : query[j] = " "}, Len(query) + 1)
    IN  Range(query) \cap Quotes = {} /\ max > 0 =>
            Filled(template, query) = With(template,
                [d \in 0 .. Min({max, Cardinality(starts) - 1}) |->
                    IF d = max THEN From(query, start(d)) ELSE SubSeq(query, start(d), end(d) - 1)])

(* A parameter may be any text in quotes, what looks like a placeholder too. *)
QuotedFill(template, p, q) ==
    p # <<>> /\ q # <<>> /\ "\"" \notin Range(p \o q) /\ MaxPlaceholder(template) > 0 =>
        Filled(template, <<"\"">> \o p \o <<"\"", " ", "\"">> \o q \o <<"\"">>) = With(template, (0 :> p) @@ (1 :> q))

(* "fills given query pointer with the query part" (shortcut.c:199).  Not so *)
(* for a key without a query; a template with "$1" then reads through NULL.  *)
HasQuery(table, default, text) ==
    \A found \in Lookup(table, default, text) : found[2] # NoQuery

(* With a default shortcut, what has a space is a file or goes through a     *)
(* template, and no space is left in what is loaded.                         *)
SpacesAreEscaped(table, default, files, path) ==
    path \notin files \cup DOMAIN table /\ At(path, 1) # " " /\ Last(path) # " " =>
        ~Contains(LoadUri(table, default, files, path), " ")

(* A download gets a name that is free, in the directory and with the ending *)
(* of the name that was asked for.                                           *)
DirOf(file) == SubSeq(file, 1, Max({0} \cup {i \in DOMAIN file : file[i] = "/"}))
Endings(file) ==
    {From(file, i) : i \in
        {i \in Len(DirOf(file)) + 1 .. Len(file) :
            /\ file[i] = "."
            /\ \/ ~Contains(From(file, i + 1), ".")
               \/ At(file, i + 1) = "tar" /\ At(file, i + 2) = "." /\ ~Contains(From(file, i + 3), ".")}}
KeepsPlace(file, existing) ==
    LET name == FreeName(file, existing)
    IN  name \notin existing /\ DirOf(name) = DirOf(file) /\ \A ending \in Endings(file) : IsSuffix(ending, name)

(* The parts of a time span add up, and a number is of the unit behind it.   *)
SpansAdd(u, v) ==
    /\ Last(u) \notin Range(Digits) => TimeSpan(u \o v) = TimeSpan(u) + TimeSpan(v)
    /\ Range(u) \subseteq Range(Digits) /\ v # <<>> /\ v[1] \notin Range(Digits)
        => TimeSpan(u \o v) = FoldLeft(LAMBDA n, c : n * 10 + Number(c), 0, u) * Unit(v[1]) + TimeSpan(Tail(v))

(* The cookies of a host are those of its name and of what is below it.      *)
RECURSIVE SplitAt(_, _)
SplitAt(c, text) ==
    LET at == First({i \in DOMAIN text : text[i] = c}, 0)
    IN  IF at = 0 THEN <<text>> ELSE <<SubSeq(text, 1, at - 1)>> \o SplitAt(c, From(text, at + 1))
MatchesLabels(name, host) ==
    LET bare == IF At(name, 1) = "." THEN Tail(name) ELSE name
    IN  HostMatches(name, host) <=> IsSuffix(SplitAt(".", host), SplitAt(".", bare))

(* What is named is cleared (vimb.1:977).  Not so.                           *)
ClearsWhatIsNamed(types, span) ==
    LET cleared == ClearData(types, span)
    IN  Range(types) \subseteq DataTypes => ~cleared.fails /\ cleared.types = Range(types)

(* A script reads the text that was put into it: a string up to its end.     *)
RECURSIVE ReadString(_)
ReadString(script) ==
    CASE At(script, 1) \in {NUL, "\n"} -> <<"error">>
      [] At(script, 1) = "\"" -> <<>>
      [] At(script, 1) = "\\" ->
            <<IF At(script, 2) = "n" THEN "\n" ELSE At(script, 2)>> \o ReadString(From(script, 3))
      [] At(script, 1) \notin {NUL, "\n", "\"", "\\"} -> <<script[1]>> \o ReadString(Tail(script))
ScriptReadsText(text) == ReadString(Strescape(text) \o <<"\"">>) = text
=============================================================================
