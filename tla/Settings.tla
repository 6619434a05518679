------------------------------ MODULE Settings ------------------------------
(* The settings of vimb (src/setting.c).  Each tab has a table of its own,   *)
(* filled by setting_init with the defaults and changed by ":set".  A change *)
(* is prepared (added, multiplied, removed), offered to the setter of the    *)
(* setting, which puts it in force or refuses it, and only then stored.      *)
(* Some setters act on the web view of the tab, some on what all the tabs    *)
(* share: the network session, the web context and vb.config.                *)
(*                                                                           *)
(* The table stands for the one of the source by a setting of every kind:    *)
(*   images             a flag that goes to the web view                     *)
(*   scroll-step        a number that goes to the configuration of the tab   *)
(*   strict-ssl         a flag that goes to the network session              *)
(*   cookie-accept      a policy, checked, that goes to the network session  *)
(*   histignore         a text, checked, that is compiled to a pattern       *)
(*   user-scripts       whether the script of the user is injected           *)
(*   header             a list without duplicates, sent to the web process   *)
(*   home-page          a text that is read where it is needed               *)
(*   stylesheet         whether the style sheet of the user is used          *)
(*   hint-label-css, hint-link-css  texts put together in one style sheet    *)
(* A text is a sequence of characters; a policy is one character.            *)
EXTENDS SettingTexts

CONSTANTS
    Tab,            \* the tabs that can exist
    Freed           \* what a text may read as after its memory was freed

VARIABLES
    stored,         \* stored[t]: the table c->config.settings, <<>> without tab
    view,           \* view[t]: what the setters gave to web view and tab
    session,        \* what the setters gave to what the tabs share
    sheets          \* sheets[t]: the style sheets of the web view

settings == <<stored, view, session, sheets>>

Row(type, setter, default) ==
    [type |-> type, setter |-> setter, default |-> default]

(* The settings with their type, their setter and their default. *)
Table ==
    [images |-> Row("bool", "view", TRUE),
     scroll_step |-> Row("int", "view", 40),
     strict_ssl |-> Row("bool", "session", TRUE),
     cookie_accept |-> Row("policy", "session", <<"origin">>),
     histignore |-> Row("text", "view", <<"r">>),
     user_scripts |-> Row("bool", "view", TRUE),
     header |-> Row("list", "view", <<>>),
     home_page |-> Row("text", "none", <<"h">>),
     stylesheet |-> Row("bool", "style", TRUE),
     hint_label_css |-> Row("text", "hint", <<"l">>),
     hint_link_css |-> Row("text", "hint", <<"k">>)]

Name == DOMAIN Table
Policies == {<<"always">>, <<"origin">>, <<"never">>}
Of(setter) == {n \in Name : Table[n].setter = setter}
Open == {t \in Tab : stored[t] # <<>>}

-----------------------------------------------------------------------------
(* Values.                                                                   *)

PrepareInt(old, v, op) ==
    CASE op = "set" -> v
      [] op = "append" -> old + v
      [] op = "prepend" -> old * v
      [] op = "remove" -> old - v

(* The value that a setting gets when op is applied to it with v. *)
Prepare(n, old, v, op) ==
    CASE Table[n].type = "bool" -> v
      [] Table[n].type = "int" -> PrepareInt(old, v, op)
      [] OTHER -> PrepareText(old, v, op, Table[n].type = "list")

(* What a setter refuses: a policy that is none, and a pattern that does not *)
(* compile.                                                                  *)
Accepted(n, v) ==
    /\ Table[n].type = "policy" => v \in Policies
    /\ n = "histignore" => ~Contains(v, "(")

(* The pattern for what is kept out of the history; an empty one would match *)
(* everything.                                                               *)
Pattern(v) == IF v = <<>> THEN <<"^", "$">> ELSE v

(* The scripts of the page: those of vimb are added again after all of them  *)
(* were removed.                                                             *)
Scripts(on) == IF on THEN {"user", "vimb"} ELSE {"vimb"}

(* What the web view gets for a value.                                       *)
InForce(n, v) ==
    CASE n = "histignore" -> Pattern(v)
      [] n = "user_scripts" -> Scripts(v)
      [] OTHER -> v

-----------------------------------------------------------------------------
(* The style sheets of a page: the one of the user, and the overlay for the  *)
(* hints, which is left out as long as one of its settings is missing.       *)

Stack(user, label, link) == [user |-> user, label |-> label, link |-> link]
StackOf(table) == Stack(table.stylesheet, table.hint_label_css, table.hint_link_css)

MutantFromTable(n, v, table) == StackOf(table)

(* The style sheets after the setter of n got v: the setter runs before the  *)
(* value is stored, so that only the other values are taken from the table.  *)
Restack(n, v, table) == StackOf([table EXCEPT ![n] = v])

-----------------------------------------------------------------------------
(* A sequence, of whatever characters. *)
IsText(v) == Len(v) \in Nat /\ v = [i \in 1 .. Len(v) |-> v[i]]
Typed(type, v) ==
    CASE type = "bool" -> v \in BOOLEAN
      [] type = "int" -> v \in Int
      [] type = "policy" -> v \in Policies
      [] OTHER -> IsText(v)

InitSettings ==
    /\ stored = [t \in Tab |-> <<>>]
    /\ view = [t \in Tab |-> <<>>]
    /\ session = <<>>
    /\ sheets = [t \in Tab |-> <<>>]

MutantNoView(t) ==
    /\ stored' = [stored EXCEPT ![t] = [n \in Name |-> Table[n].default]]
    /\ view' = view
    /\ session' = [n \in Of("session") |-> Table[n].default]
    /\ sheets' = [sheets EXCEPT ![t] = StackOf(stored'[t])]

(* A new tab: every setting gets its default, the shared ones as well, and   *)
(* the style sheets are put together again when all of them are known.       *)
SettingInit(t) ==
    LET defaults == [n \in Name |-> Table[n].default]
        shared == [n \in Of("session") |-> Table[n].default]
    IN  /\ stored' = [stored EXCEPT ![t] = defaults]
        /\ view' = [view EXCEPT ![t] = [n \in Of("view") |-> InForce(n, Table[n].default)]]
        /\ session' = shared
        /\ sheets' = [sheets EXCEPT ![t] = StackOf(defaults)]

(* The tab is closed and its table freed. *)
SettingCleanup(t) ==
    /\ stored' = [stored EXCEPT ![t] = <<>>]
    /\ view' = [view EXCEPT ![t] = <<>>]
    /\ sheets' = [sheets EXCEPT ![t] = <<>>]
    /\ UNCHANGED session

MutantStoreFirst(t, n, v, kept) ==
    /\ stored' = [stored EXCEPT ![t][n] = kept]
    /\ IF Accepted(n, v)
       THEN /\ view' = IF n \in Of("view") THEN [view EXCEPT ![t][n] = InForce(n, v)] ELSE view
            /\ session' = IF n \in Of("session") THEN [session EXCEPT ![n] = v] ELSE session
            /\ sheets' = IF n \in Of("style") \cup Of("hint")
                         THEN [sheets EXCEPT ![t] = Restack(n, v, stored[t])]
                         ELSE sheets
       ELSE UNCHANGED <<view, session, sheets>>

(* A prepared value is offered to the setter, and stored if it is accepted.  *)
SetValue(t, n, v, kept) ==
    IF Accepted(n, v)
    THEN /\ stored' = [stored EXCEPT ![t][n] = kept]
         /\ view' = IF n \in Of("view") THEN [view EXCEPT ![t][n] = InForce(n, v)] ELSE view
         /\ session' = IF n \in Of("session") THEN [session EXCEPT ![n] = v] ELSE session
         /\ sheets' = IF n \in Of("style") \cup Of("hint")
                      THEN [sheets EXCEPT ![t] = Restack(n, v, stored[t])]
                      ELSE sheets
    ELSE UNCHANGED settings

(* The value that ":set" asks for. *)
Asked(t, c) ==
    IF c.op = "toggle" THEN ~stored[t][c.name]
    ELSE Prepare(c.name, stored[t][c.name], c.value, c.op)

NotToggled(c) == c.op = "toggle" /\ Table[c.name].type # "bool"

(* Removing from an empty text stores a copy of the text that was just freed.*)
Kept(t, c) ==
    IF c.op = "remove" /\ Table[c.name].type \notin {"bool", "int"}
         /\ stored[t][c.name] = <<>>
    THEN Freed
    ELSE {Asked(t, c)}

(* The command ":set name op value" in the tab t. *)
SettingRun(t, c) ==
    IF c.name \notin Name \/ c.op = "get" \/ NotToggled(c)
    THEN UNCHANGED settings
    ELSE \E kept \in Kept(t, c) : SetValue(t, c.name, Asked(t, c), kept)

(* What the command returns: whether it succeeded, and whether the input box *)
(* keeps what was printed into it.                                           *)
SettingResult(t, c) ==
    CASE c.name \notin Name \/ NotToggled(c) -> [ok |-> FALSE, keep |-> TRUE]
      [] c.name \in Name /\ ~NotToggled(c) /\ c.op \in {"get", "toggle"} -> [ok |-> TRUE, keep |-> TRUE]
      [] OTHER -> LET yes == Accepted(c.name, Asked(t, c))
                  IN  [ok |-> yes, keep |-> ~yes]

-----------------------------------------------------------------------------
(* What a tab stores is what is in force for its web view: no order of       *)
(* changes and refused values leaves ":set name?" telling something else     *)
(* than the page gets.  (setting_set_value calls the setter with the         *)
(* prepared value before it stores it, and the setters of the style sheets   *)
(* read the other values from the table.)                                    *)
StoredIsInForce ==
    \A t \in Open :
        /\ \A n \in Of("view") : view[t][n] = InForce(n, stored[t][n])
        /\ sheets[t] = StackOf(stored[t])
=============================================================================
