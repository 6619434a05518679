------------------------------ MODULE ExParser ------------------------------
(* How an ex command line is taken apart (parse and its helpers in           *)
(* src/ex.c, util_parse_expansion in src/util.c) and how the notation of     *)
(* keys is converted (convert_keys in src/map.c).  A text is a sequence of   *)
(* characters, a position counts from 1, and a result tells with the text    *)
(* that was read the position at which the reader stands afterwards.         *)
EXTENDS Integers, Sequences, SequencesExt, TLC

LOCAL NUL == "NUL"
LOCAL At(text, i) == IF i \in DOMAIN text THEN text[i] ELSE NUL
LOCAL From(text, i) == SubSeq(text, i, Len(text))
LOCAL First(set, default) == IF set = {} THEN default ELSE CHOOSE i \in set : \A j \in set : i <= j
Read(out, at) == [out |-> out, at |-> at]

Chars(string) == [i \in 1 .. Len(string) |-> SubSeq(string, i, i)]

-----------------------------------------------------------------------------
(* The names of the commands, in the order of the table.                     *)
Commands ==
    <<"autocmd", "augroup", "bma", "bmr", "cmap", "cnoremap", "cunmap",
      "clearcookies", "cleardata", "hardcopy", "handler-add", "handler-remove",
      "eval", "imap", "inoremap", "iunmap", "nmap", "nnoremap", "normal",
      "nunmap", "open", "pass-fill", "pass-forget", "quit", "quitall",
      "qunshift", "qclear", "qpop", "qpush", "register", "save", "set",
      "shellcmd", "shellex", "shortcut-add", "shortcut-default",
      "shortcut-remove", "source", "tabopen", "tabclose", "tabnext", "tabprev",
      "tabprevious", "tabfirst", "tablast">>
Names == [i \in DOMAIN Commands |-> Chars(Commands[i])]

MutantWholeTable(text, len, first) ==
    {i \in first .. Len(Names) : At(Names[i], len) = text[len]}

(* The commands from first on that go on with the character at len; the      *)
(* search ends at the first name that does not share what was read before.   *)
Found(text, len, first) ==
    LET other == {i \in first .. Len(Names) :
                    ~IsPrefix(SubSeq(text, 1, len - 1), Names[i])}
        end == IF len = 1 THEN Len(Names) + 1 ELSE First(other, Len(Names) + 1)
    IN  {i \in first .. end - 1 : At(Names[i], len) = text[len]}

RECURSIVE NameFrom(_, _, _)
NameFrom(text, len, first) ==
    LET found == Found(text, len, first)
    IN  IF found = {} THEN 0
        ELSE IF At(text, len + 1) \in {NUL, " ", "!"} THEN First(found, 0)
             ELSE NameFrom(text, len + 1, First(found, 0))

(* parse_command_name: the number of the command that text starts with, 0 if *)
(* there is none.  A text without a name is not given to it here: it would   *)
(* read on behind the end.                                                   *)
CommandName(text) == NameFrom(text, 1, 1)

-----------------------------------------------------------------------------
(* Expansion.  home, users and variables are what the environment gives.     *)
CONSTANTS Home, Users, Variables
Idents == {"a", "b"}

(* The identifier at position i: its end.                                    *)
IdentEnd(text, i) == First({j \in i .. Len(text) : text[j] \notin Idents}, Len(text) + 1)

(* "~/" and "~user": what is inserted and what is read next, or nothing.     *)
Tilde(text, i) ==
    LET end == IdentEnd(text, i + 1)
        user == SubSeq(text, i + 1, end - 1)
    IN  IF At(text, i + 1) = "/"
        THEN {Read(Home, IF At(text, i + 2) \in {NUL, " "} THEN i + 2 ELSE i + 1)}
        ELSE IF user \in DOMAIN Users THEN {Read(Users[user], end)} ELSE {}

(* "$name" and "${name}", also without a name, or not closed.                *)
Dollar(text, i) ==
    LET brace == At(text, i + 1) = "{"
        close == First({j \in i .. Len(text) : text[j] = "}"}, Len(text) + 1)
        end == IF brace THEN close ELSE IdentEnd(text, i + 1)
        name == SubSeq(text, IF brace THEN i + 2 ELSE i + 1, end - 1)
    IN  Read(IF name \in DOMAIN Variables THEN Variables[name] ELSE <<>>,
             IF brace /\ close <= Len(text) THEN close + 1 ELSE end)

MutantNoEscape(text, i, quoteable) == Read(<<text[i]>>, i + 1)

(* A character, or a "\" with the one behind it, which goes away if that     *)
(* needs it.                                                                 *)
Literal(text, i, quoteable) ==
    IF text[i] # "\\" THEN Read(<<text[i]>>, i + 1)
    ELSE CASE At(text, i + 1) = NUL -> Read(<<"\\">>, i + 1)
           [] At(text, i + 1) \in quoteable -> Read(<<text[i + 1]>>, i + 2)
           [] At(text, i + 1) \notin quoteable \cup {NUL} -> Read(<<"\\", text[i + 1]>>, i + 2)

MutantQuotes(text, i, tilde, dollar, quoteable) ==
    IF tilde /\ text[i] = "~" /\ Tilde(text, i) # {}
    THEN CHOOSE r \in Tilde(text, i) : TRUE
    ELSE IF dollar /\ text[i] = "$" THEN Dollar(text, i) ELSE Literal(text, i, quoteable)

(* util_parse_expansion for the flags that are set.                          *)
Expansion(text, i, tilde, dollar, quoteable) ==
    LET quotes == quoteable \cup (IF tilde THEN {"~"} ELSE {}) \cup (IF dollar THEN {"$"} ELSE {})
    IN  IF tilde /\ text[i] = "~" /\ Tilde(text, i) # {}
        THEN CHOOSE r \in Tilde(text, i) : TRUE
        ELSE IF dollar /\ text[i] = "$" THEN Dollar(text, i) ELSE Literal(text, i, quotes)

RECURSIVE RhsFrom(_, _, _, _, _)
RhsFrom(text, i, list, expand, tilde) ==
    IF At(text, i) \in {NUL, "\n"} \/ (~list /\ At(text, i) = "|") THEN Read(<<>>, i)
    ELSE LET r == Expansion(text, i, tilde, expand, {"|", "\\"})
             separator == At(text, r.at - 1) \in {" ", "'"}
             rest == RhsFrom(text, r.at, list, expand, expand /\ separator)
         IN  Read(r.out \o rest.out, rest.at)

(* parse_rhs of a command that has the flags list (EX_FLAG_CMD) and expand   *)
(* (EX_FLAG_EXP).                                                            *)
Rhs(text, list, expand) == RhsFrom(text, 1, list, expand, expand)

RECURSIVE LhsFrom(_, _)
LhsFrom(text, i) ==
    IF At(text, i) \in {NUL, " "} THEN Read(<<>>, i)
    ELSE LET r == IF text[i] # "\\" THEN Read(<<text[i]>>, i + 1)
                  ELSE IF At(text, i + 1) = " " THEN Read(<<" ">>, i + 2)
                       ELSE Read(<<"\\", At(text, i + 1)>>, i + 2)
             rest == LhsFrom(text, r.at)
         IN  Read(r.out \o rest.out, rest.at)

(* parse_lhs: one word.  With a "\" at the end it takes the end of the text  *)
(* for a character and stands behind it.                                     *)
Lhs(text) == LhsFrom(text, 1)

-----------------------------------------------------------------------------
(* The notation of keys: a control letter, or a label of the table of which  *)
(* a few are here.                                                           *)
Labels == (Chars("<CR>") :> "CR") @@ (Chars("<F1>") :> "F1")
Controls == ("C" :> "^C") @@ ("c" :> "^C") @@ ("R" :> "^R")

MutantPastStart(text, i) == First({j \in i .. Len(text) : text[j] = ">"}, Len(text)) - i + 1

(* How many characters the label at i has, "<" and ">" with it, or those up  *)
(* to where it turns out to be none.                                         *)
SymbolLength(text, i) ==
    LET stop == First({j \in i + 1 .. Len(text) : text[j] \in {"<", " "}}, Len(text) + 1)
        close == First({j \in i + 1 .. Len(text) : text[j] = ">"}, Len(text) + 1)
    IN  IF close < stop THEN close - i + 1 ELSE stop - i

IsControl(symbol) ==
    Len(symbol) = 5 /\ SubSeq(symbol, 1, 3) = <<"<", "C", "-">> /\ symbol[5] = ">"
        /\ symbol[4] \in DOMAIN Controls

(* The key of a label; what is none stands for its characters.               *)
KeyOf(symbol) ==
    CASE IsControl(symbol) -> <<Controls[symbol[4]]>>
      [] symbol \in DOMAIN Labels -> <<Labels[symbol]>>
      [] OTHER -> symbol

MutantAnyQuote(text, i) == text[i] = "\\" /\ i < Len(text)
IsQuoted(text, i) == text[i] = "\\" /\ At(text, i + 1) = "<"

RECURSIVE KeysFrom(_, _)
KeysFrom(text, i) ==
    IF i > Len(text) THEN <<>>
    ELSE LET length == IF text[i] = "<" THEN SymbolLength(text, i) ELSE 1
         IN  IF IsQuoted(text, i) THEN <<text[i + 1]>> \o KeysFrom(text, i + 2)
             ELSE KeyOf(SubSeq(text, i, i + length - 1)) \o KeysFrom(text, i + length)

(* convert_keys: the keys that a notation stands for.                        *)
ConvertKeys(text) == KeysFrom(text, 1)

-----------------------------------------------------------------------------
(* The bytes of a key that is typed, as map_handle_keys takes them.          *)
CSI == 155

Trail(n) == 128 + (n % 64)

MutantOneByte(c) == IF c < 256 THEN <<c>> ELSE <<224 + c \div 4096, Trail(c \div 64), Trail(c)>>

(* utf_char2bytes for what is a character.                                   *)
Utf8(c) ==
    CASE c < 128 -> <<c>>
      [] c \in 128 .. 2047 -> <<192 + c \div 64, Trail(c)>>
      [] c \in 2048 .. 65535 -> <<224 + c \div 4096, Trail(c \div 64), Trail(c)>>
      [] c >= 65536 -> <<240 + c \div 262144, Trail(c \div 4096), Trail(c \div 64), Trail(c)>>

(* keyval_to_string of a character, with or without the control key; 56 is   *)
(* "8", which stands for backspace then.                                     *)
Typed(c, control) ==
    CASE ~control \/ c \notin 32 .. 127 -> Utf8(c)
      [] control /\ c \in 64 .. 127 -> <<c % 32>>
      [] control /\ c \in 32 .. 63 -> <<IF c = 56 THEN 8 ELSE c>>

(* The key of "<C-c>" for a letter c.                                        *)
ControlKey(c) == IF c \in 65 .. 90 THEN c - 64 ELSE c - 96

-----------------------------------------------------------------------------
(* What the readers promise.                                                 *)

(* The name that is found is the first one that begins with what was typed,  *)
(* although the search gives up at the end of a group.                       *)
NameIsFirst(text) ==
    text # <<>> => CommandName(text) = First({i \in DOMAIN Names : IsPrefix(text, Names[i])}, 0)

(* What is quoted: the characters a command takes for its own, "~" where it  *)
(* would be expanded.                                                        *)
QuoteAt(w, i, expand) ==
    \/ w[i] \in {"\\", "|"}
    \/ expand /\ w[i] = "$"
    \/ expand /\ w[i] = "~" /\ (i = 1 \/ w[i - 1] \in {" ", "'"})
Quote(w, Quoted(_)) ==
    FlattenSeq([i \in DOMAIN w |-> IF Quoted(i) THEN <<"\\", w[i]>> ELSE <<w[i]>>])

(* Every text can be given to a command as it is.                            *)
QuotedIsLiteral(w) ==
    \A expand \in BOOLEAN :
        Rhs(Quote(w, LAMBDA i : QuoteAt(w, i, expand)), FALSE, expand).out = w

(* How many backslashes are in front of position i.                          *)
Backslashes(text, i) ==
    i - 1 - (CHOOSE j \in 0 .. i - 1 :
                /\ j = 0 \/ text[j] # "\\"
                /\ \A k \in j + 1 .. i - 1 : text[k] = "\\")

(* A command ends at the first bar that is not quoted, whatever is expanded  *)
(* in front of it, and the text of an autocommand or mapping at no bar.      *)
EndsAtBar(text) ==
    ~Contains(text, "{") =>
        \A expand \in BOOLEAN :
            /\ Rhs(text, FALSE, expand).at =
                    First({i \in DOMAIN text : text[i] = "|" /\ Backslashes(text, i) % 2 = 0}, Len(text) + 1)
            /\ Rhs(text, TRUE, expand).at = Len(text) + 1

(* A word with spaces can be given as the left side.                         *)
WordIsLiteral(w) ==
    ~Contains(w, "\\") => \A rest \in {<<>>, <<" ">>, <<" ", "a">>} :
        Lhs(Quote(w, LAMBDA i : w[i] = " ") \o rest) = Read(w, Len(Quote(w, LAMBDA i : w[i] = " ")) + 1)

(* "if input ends here - use only the backslash" (ex.c:771).  Not so: the    *)
(* test is of the pointer, and the reader goes on behind the end.            *)
LhsEndsInText(text) == Lhs(text).at <= Len(text) + 1

(* Every text can be mapped, and a label means its key wherever it is, also  *)
(* behind the beginning of another.                                          *)
KeysAreQuoted(w) == ConvertKeys(Quote(w, LAMBDA i : w[i] = "<")) = w
LabelsCompose(u, v) ==
    Last(u) # "\\" => \A label \in DOMAIN Labels \cup {Chars("<C-c>")} :
        ConvertKeys(u \o label \o v) = ConvertKeys(u) \o KeyOf(label) \o ConvertKeys(v)

(* "we replace it with just <" (map.c:445).  Not so behind a "<" that is not *)
(* closed.                                                                   *)
QuotedStart(u, v) ==
    Last(u) # "\\" => ConvertKeys(u \o <<"\\", "<">> \o v) = ConvertKeys(u) \o <<"<">> \o ConvertKeys(v)

(* The bytes of a key are its UTF-8 form, and "<C-x>" is the key that is     *)
(* typed with the control key.                                               *)
Decoded(b) ==
    CASE Len(b) = 1 -> b[1]
      [] Len(b) = 2 -> (b[1] % 32) * 64 + (b[2] % 64)
      [] Len(b) = 3 -> ((b[1] % 16) * 64 + (b[2] % 64)) * 64 + (b[3] % 64)
      [] Len(b) = 4 -> (((b[1] % 8) * 64 + (b[2] % 64)) * 64 + (b[3] % 64)) * 64 + (b[4] % 64)
Leads == <<0 .. 127, 192 .. 223, 224 .. 239, 240 .. 247>>
KeysAsTyped(c) ==
    LET bytes == Typed(c, FALSE)
    IN  /\ Decoded(bytes) = c
        /\ bytes[1] \in Leads[Len(bytes)]
        /\ \A i \in 2 .. Len(bytes) : bytes[i] \in 128 .. 191
        /\ c \in (65 .. 90) \cup (97 .. 122) => Typed(c, TRUE) = <<ControlKey(c)>>

(* A character is never taken for a special key (map.c:166).  Not so for one *)
(* with this byte in it.                                                     *)
NoSpecialKey(c) == CSI \notin {Typed(c, FALSE)[i] : i \in DOMAIN Typed(c, FALSE)}
=============================================================================
