------------------------------ MODULE Ex_proofs -------------------------------
(* What holds of Ex and Settings for all tabs, lines, files and bounds.      *)
EXTENDS Ex, FiniteSetTheorems, FunctionTheorems, SequenceTheorems, WellFoundedInduction, TLAPS

-----------------------------------------------------------------------------
(* The invariant.                                                            *)

TableOK(table) ==
    /\ DOMAIN table = Name
    /\ \A n \in Name : Typed(Table[n].type, table[n])
SettingsOK ==
    /\ DOMAIN stored = Tab /\ DOMAIN view = Tab /\ DOMAIN sheets = Tab
    /\ \A t \in Open : TableOK(stored[t]) /\ DOMAIN view[t] = Of("view")
    /\ Open # {} => /\ DOMAIN session = Of("session")
                    /\ \A n \in Of("session") : Typed(Table[n].type, session[n])

\* The calls of a stack, in which tabs is the set of the open tabs.
FrameOK(f, tabs) ==
    /\ f.tab \in tabs
    /\ \/ /\ f.kind = "line" /\ f.line \in AnyLine /\ f.at \in Nat /\ f.at >= 1
          /\ DOMAIN f = {"kind", "tab", "line", "at", "bang", "nohist", "typed", "res"}
       \/ /\ f.kind = "file" /\ f.lines \in Seq(AnyLine)
          /\ f.caller \in {"none", "source", "tabopen"}
          /\ DOMAIN f = {"kind", "tab", "lines", "caller", "res"}
       \/ /\ f.kind = "shell" /\ f.lines \in Seq(AnyLine)
          /\ DOMAIN f = {"kind", "tab", "lines", "first", "res"}

\* What the user typed is the outermost call.
IsTyped(f) == f.kind = "line" /\ f.typed
CallsOK(s, tabs) ==
    /\ \E S : s \in Seq(S)
    /\ \A i \in 1 .. Len(s) : FrameOK(s[i], tabs) /\ (IsTyped(s[i]) => i = Len(s))
StackOK == CallsOK(stack, Open) /\ tokens \in Seq(AnyLine)

RestOK ==
    /\ current \in Tab /\ (Open # {} => current \in Open)
    /\ runs \in 0 .. MaxRuns
    /\ box \in {"line", "message", "empty"}

Inv == SettingsOK /\ StackOK /\ RestOK

-----------------------------------------------------------------------------
(* Sets and texts.                                                           *)

\* A set of numbers that is not empty has a least one.
LEMMA LeastNumber ==
    ASSUME NEW T, T \subseteq Nat, T # {}
    PROVE  \E x \in T : \A y \in T : x <= y
  <1> DEFINE R == OpToRel(<, Nat)
  <1>1. IsWellFoundedOn(R, Nat)
    BY NatLessThanWellFounded
  <1> HIDE DEF R
  <1>2. PICK x \in T : \A y \in T : ~ (<<y, x>> \in R)
    BY <1>1, WFMin
  <1>3. \A y \in T : y < x => <<y, x>> \in R
    BY DEF R, OpToRel
  <1>4. \A y \in T : ~ (y < x)
    BY <1>2, <1>3
  <1>5. \A y \in T : x <= y
    BY <1>4
  <1> QED
    BY <1>5

\* The elements of a finite set, in some order.
LEMMA ListOfSet ==
    ASSUME NEW S, IsFiniteSet(S)
    PROVE  SetToSeq(S) \in Seq(S)
  <1> DEFINE n == Cardinality(S)
             f == SetToSeq(S)
  <1>1. n \in Nat /\ ExistsBijection(1 .. n, S)
    BY FS_CardinalityType
  <1>2. \E h \in [1 .. n -> S] : IsInjective(h)
    BY <1>1 DEF ExistsBijection, Bijection, Injection
  <1>3. f \in [1 .. n -> S]
    <2> DEFINE k == CHOOSE h \in [1 .. n -> S] : IsInjective(h)
    <2>1. k \in [1 .. n -> S]
      BY <1>2, Zenon
    <2> QED
      BY <2>1, Zenon DEF SetToSeq
  <1> HIDE DEF n, f
  <1>4. f \in Seq(S)
    BY <1>1, <1>3
  <1> QED
    BY <1>4 DEF f

\* A sequence is a text, whatever it consists of, and a text is a sequence.
LEMMA SeqIsText ==
    ASSUME NEW S, NEW v \in Seq(S)
    PROVE  IsText(v)
  BY DEF IsText

\* A text is a sequence of what stands in it.
LEMMA TextIsSeq ==
    ASSUME NEW v, IsText(v)
    PROVE  \E S : v \in Seq(S)
  <1> DEFINE S == {v[i] : i \in 1 .. Len(v)}
             n == Len(v)
  <1>1. n \in Nat /\ v \in [1 .. n -> S]
    BY DEF IsText
  <1>2. v \in Seq(S)
    <2> HIDE DEF n, S
    <2> QED
      BY <1>1
  <1> QED
    BY <1>2

\* Two texts behind each other.
LEMMA TextsJoin ==
    ASSUME NEW u, NEW v, IsText(u), IsText(v)
    PROVE  IsText(u \o v)
  <1>1. PICK S : u \in Seq(S)
    BY TextIsSeq
  <1>2. PICK T : v \in Seq(T)
    BY TextIsSeq
  <1>3. u \in Seq(S \cup T) /\ v \in Seq(S \cup T)
    BY <1>1, <1>2, SeqMonotonic
  <1>4. u \o v \in Seq(S \cup T)
    BY <1>3, ConcatProperties
  <1> QED
    BY <1>4, SeqIsText

\* A part of a text.
LEMMA TextPart ==
    ASSUME NEW v, IsText(v), NEW m \in Int, NEW n \in Int, 1 <= m, n <= Len(v)
    PROVE  IsText(SubSeq(v, m, n))
  <1>1. PICK S : v \in Seq(S)
    BY TextIsSeq
  <1>2. \A i \in m .. n : v[i] \in S
    <2>1. \A i \in m .. n : i \in 1 .. Len(v)
      BY <1>1
    <2> QED
      BY <1>1, <2>1, ElementOfSeq
  <1>3. SubSeq(v, m, n) \in Seq(S)
    BY <1>1, <1>2, SubSeqProperties
  <1> QED
    BY <1>3, SeqIsText

\* Where a text stands in another one, if it does.
LEMMA PositionType ==
    ASSUME NEW v, NEW s, IsText(s), NEW list
    PROVE  Position(v, s, list) \in 0 .. Len(s)
  <1> DEFINE at == {i \in DOMAIN s : StandsAt(v, s, i, list)}
  <1>1. DOMAIN s = 1 .. Len(s) /\ Len(s) \in Nat
    BY DEF IsText
  <1>2. CASE at = {}
    <2>1. Position(v, s, list) = 0
      BY <1>2 DEF Position
    <2> HIDE DEF at
    <2> QED
      BY <1>1, <2>1
  <1>3. CASE at # {}
    <2>1. at \subseteq Nat /\ at \subseteq 1 .. Len(s)
      BY <1>1
    <2>2. Position(v, s, list) = CHOOSE i \in at : \A j \in at : i <= j
      BY <1>3 DEF Position
    <2> HIDE DEF at
    <2>3. \E i \in at : \A j \in at : i <= j
      BY <1>3, <2>1, LeastNumber
    <2>4. Position(v, s, list) \in at
      BY <2>2, <2>3, Zenon
    <2>5. Position(v, s, list) \in 1 .. Len(s)
      BY <2>1, <2>4
    <2> QED
      BY <2>5
  <1> QED
    BY <1>2, <1>3

\* What prepare_setting_value makes of texts are texts.
LEMMA PreparedText ==
    ASSUME NEW old, IsText(old), NEW v, IsText(v), NEW list \in BOOLEAN,
           NEW op \in {"set", "append", "prepend", "remove"}
    PROVE  IsText(PrepareText(old, v, op, list))
  <1>1. IsText(Without(old, v, list))
    <2> DEFINE i == Position(v, old, list)
               from == IF list /\ i > 1 THEN i - 1 ELSE i
               next == IF list /\ i = 1 THEN i + Len(v) + 1 ELSE i + Len(v)
               n == Len(old)
    <2>1. i \in 0 .. n /\ Len(v) \in Nat /\ n \in Nat
      BY PositionType DEF IsText
    <2>2. CASE i = 0
      BY <2>2 DEF Without
    <2>3. CASE i # 0
      <3> HIDE DEF i, n
      <3>1. from \in Int /\ from - 1 <= n /\ next \in Int /\ 1 <= next /\ from - 1 \in Int
        BY <2>1, <2>3
      <3>2. Without(old, v, list) = SubSeq(old, 1, from - 1) \o SubSeq(old, next, n)
        BY <2>3 DEF Without, i, n
      <3> HIDE DEF from, next
      <3>3. IsText(SubSeq(old, 1, from - 1))
        BY <3>1, TextPart DEF n
      <3>4. IsText(SubSeq(old, next, n))
        BY <2>1, <3>1, TextPart DEF n
      <3> QED
        BY <3>2, <3>3, <3>4, TextsJoin
    <2> QED
      BY <2>2, <2>3
  <1> DEFINE comma == <<Sep>>
  <1>2. IsText(comma)
    <2>1. comma \in Seq({Sep})
      OBVIOUS
    <2> QED
      BY <2>1, SeqIsText
  <1> HIDE DEF comma
  <1>3. /\ IsText(old \o v) /\ IsText(v \o old)
        /\ IsText((old \o comma) \o v) /\ IsText((v \o comma) \o old)
    BY <1>2, TextsJoin
  <1>4. Glue(old, v, list) \in {(old \o comma) \o v, old \o v}
    BY DEF Glue, comma
  <1>5. PrepareText(old, v, op, list) \in
           {old, v, Without(old, v, list), Glue(old, v, list), (v \o comma) \o old, v \o old}
    BY DEF PrepareText, comma
  <1> QED
    BY <1>1, <1>3, <1>4, <1>5

-----------------------------------------------------------------------------
(* The settings.                                                             *)

\* The table of the settings: the defaults have their types, and those that the
\* style sheets are made of have a setter for them.
LEMMA TableFacts ==
    /\ \A n \in Name : Typed(Table[n].type, Table[n].default)
    /\ "stylesheet" \in Of("style") /\ "hint_label_css" \in Of("hint")
    /\ "hint_link_css" \in Of("hint")
  <1>1. Name = {"images", "scroll_step", "strict_ssl", "cookie_accept", "histignore",
                "user_scripts", "header", "home_page", "stylesheet", "hint_label_css",
                "hint_link_css"}
    BY DEF Name, Table
  <1>2. /\ Table["images"] = Row("bool", "view", TRUE)
        /\ Table["scroll_step"] = Row("int", "view", 40)
        /\ Table["strict_ssl"] = Row("bool", "session", TRUE)
        /\ Table["cookie_accept"] = Row("policy", "session", <<"origin">>)
        /\ Table["histignore"] = Row("text", "view", <<"r">>)
        /\ Table["user_scripts"] = Row("bool", "view", TRUE)
        /\ Table["header"] = Row("list", "view", <<>>)
        /\ Table["home_page"] = Row("text", "none", <<"h">>)
        /\ Table["stylesheet"] = Row("bool", "style", TRUE)
        /\ Table["hint_label_css"] = Row("text", "hint", <<"l">>)
        /\ Table["hint_link_css"] = Row("text", "hint", <<"k">>)
    BY DEF Table
  <1>3. IsText(<<>>) /\ IsText(<<"r">>) /\ IsText(<<"h">>) /\ IsText(<<"l">>) /\ IsText(<<"k">>)
    <2>1. /\ <<>> \in Seq({}) /\ <<"r">> \in Seq({"r"}) /\ <<"h">> \in Seq({"h"})
          /\ <<"l">> \in Seq({"l"}) /\ <<"k">> \in Seq({"k"})
      OBVIOUS
    <2> QED
      BY <2>1, SeqIsText
  <1>4. /\ Typed("bool", TRUE) /\ Typed("int", 40) /\ Typed("policy", <<"origin">>)
        /\ Typed("list", <<>>) /\ \A v : IsText(v) => Typed("text", v)
    BY <1>3 DEF Typed, Policies
  <1>5. ASSUME NEW n \in Name
        PROVE  Typed(Table[n].type, Table[n].default)
    <2>1. ASSUME NEW type, NEW setter, NEW default, Table[n] = Row(type, setter, default)
          PROVE  Table[n].type = type /\ Table[n].default = default
      BY <2>1 DEF Row
    <2>2. CASE n \in {"images", "strict_ssl", "user_scripts", "stylesheet"}
      <3>1. Table[n] \in {Row("bool", "view", TRUE), Row("bool", "session", TRUE), Row("bool", "style", TRUE)}
        BY <1>2, <2>2
      <3>2. Table[n].type = "bool" /\ Table[n].default = TRUE
        BY <2>1, <3>1, Zenon
      <3> QED
        BY <1>4, <3>2
    <2>3. CASE n = "scroll_step"
      <3>1. Table[n].type = "int" /\ Table[n].default = 40
        BY <1>2, <2>1, <2>3
      <3> QED
        BY <1>4, <3>1
    <2>4. CASE n = "cookie_accept"
      <3>1. Table[n].type = "policy" /\ Table[n].default = <<"origin">>
        BY <1>2, <2>1, <2>4
      <3> QED
        BY <1>4, <3>1
    <2>5. CASE n = "header"
      <3>1. Table[n].type = "list" /\ Table[n].default = <<>>
        BY <1>2, <2>1, <2>5
      <3> QED
        BY <1>4, <3>1
    <2>6. CASE n \in {"histignore", "home_page", "hint_label_css", "hint_link_css"}
      <3>1. Table[n].type = "text" /\ Table[n].default \in {<<"r">>, <<"h">>, <<"l">>, <<"k">>}
        BY <1>2, <2>1, <2>6
      <3> QED
        BY <1>3, <1>4, <3>1
    <2> QED
      BY <1>1, <2>2, <2>3, <2>4, <2>5, <2>6
  <1>6. /\ "stylesheet" \in Of("style") /\ "hint_label_css" \in Of("hint")
        /\ "hint_link_css" \in Of("hint")
    BY <1>1, <1>2 DEF Of, Row
  <1> QED
    BY <1>5, <1>6

\* An open tab has a table, and a table is not the empty sequence.
LEMMA TableIsOpen ==
    ASSUME NEW table, DOMAIN table = Name
    PROVE  table # <<>>
  <1>1. Name # {}
    BY TableFacts DEF Of
  <1> QED
    BY <1>1

\* What a step does to the settings: they keep their types and stay in force, and
\* the tabs that are open then are given.
Settled(tabs) ==
    /\ SettingsOK' /\ Open' = tabs
    /\ Freed = {<<>>} /\ StoredIsInForce => StoredIsInForce'

\* The settings stay.
LEMMA SameSettings ==
    ASSUME SettingsOK, UNCHANGED settings
    PROVE  Settled(Open)
  <1>1. UNCHANGED <<stored, view, session, sheets>>
    BY DEF settings
  <1>2. Open' = Open
    BY <1>1 DEF Open
  <1>3. SettingsOK'
    BY <1>1, <1>2 DEF SettingsOK, TableOK
  <1>4. StoredIsInForce => StoredIsInForce'
    BY <1>1, <1>2 DEF StoredIsInForce
  <1> QED
    BY <1>2, <1>3, <1>4 DEF Settled

\* SettingInit: a new tab.
LEMMA InitStep ==
    ASSUME SettingsOK, NEW t \in Tab, SettingInit(t)
    PROVE  Settled(Open \cup {t})
  <1> DEFINE defaults == [n \in Name |-> Table[n].default]
             shared == [n \in Of("session") |-> Table[n].default]
             forView == [n \in Of("view") |-> InForce(n, Table[n].default)]
  <1>1. /\ stored' = [stored EXCEPT ![t] = defaults]
        /\ view' = [view EXCEPT ![t] = forView]
        /\ session' = shared
        /\ sheets' = [sheets EXCEPT ![t] = StackOf(defaults)]
    BY DEF SettingInit
  <1>2. TableOK(defaults) /\ defaults # <<>>
    BY TableFacts, TableIsOpen DEF TableOK
  <1>3. /\ DOMAIN shared = Of("session")
        /\ \A n \in Of("session") : Typed(Table[n].type, shared[n])
    BY TableFacts DEF Of
  <1>4. /\ DOMAIN forView = Of("view")
        /\ \A n \in Of("view") : forView[n] = InForce(n, defaults[n])
    BY DEF Of
  <1> HIDE DEF defaults, shared, forView
  <1>5. /\ DOMAIN stored' = Tab /\ DOMAIN view' = Tab /\ DOMAIN sheets' = Tab
        /\ stored'[t] = defaults /\ view'[t] = forView /\ sheets'[t] = StackOf(defaults)
        /\ \A u \in Tab : u # t => /\ stored'[u] = stored[u] /\ view'[u] = view[u]
                                   /\ sheets'[u] = sheets[u]
    BY <1>1 DEF SettingsOK
  <1>6. Open' = Open \cup {t}
    BY <1>2, <1>5 DEF Open
  <1>7. SettingsOK'
    <2>1. \A u \in Open' : TableOK(stored'[u]) /\ DOMAIN view'[u] = Of("view")
      BY <1>2, <1>4, <1>5, <1>6 DEF SettingsOK, Open
    <2> QED
      BY <1>1, <1>3, <1>5, <2>1 DEF SettingsOK, TableOK
  <1>8. StoredIsInForce => StoredIsInForce'
    <2> SUFFICES ASSUME StoredIsInForce, NEW u \in Open'
                 PROVE  /\ \A n \in Of("view") : view'[u][n] = InForce(n, stored'[u][n])
                        /\ sheets'[u] = StackOf(stored'[u])
      BY DEF StoredIsInForce
    <2>1. CASE u = t
      BY <1>4, <1>5, <2>1
    <2>2. CASE u # t
      <3>1. u \in Open /\ u \in Tab
        BY <1>6, <2>2 DEF Open
      <3> QED
        BY <1>5, <2>2, <3>1 DEF StoredIsInForce
    <2> QED
      BY <2>1, <2>2
  <1> QED
    BY <1>6, <1>7, <1>8 DEF Settled

\* SettingCleanup: a tab is closed.
LEMMA CleanupStep ==
    ASSUME SettingsOK, NEW t \in Open, SettingCleanup(t)
    PROVE  Settled(Open \ {t})
  <1>1. /\ stored' = [stored EXCEPT ![t] = <<>>]
        /\ view' = [view EXCEPT ![t] = <<>>]
        /\ sheets' = [sheets EXCEPT ![t] = <<>>]
        /\ session' = session
    BY DEF SettingCleanup
  <1>2. /\ DOMAIN stored' = Tab /\ DOMAIN view' = Tab /\ DOMAIN sheets' = Tab
        /\ stored'[t] = <<>>
        /\ \A u \in Tab : u # t => /\ stored'[u] = stored[u] /\ view'[u] = view[u]
                                   /\ sheets'[u] = sheets[u]
    BY <1>1 DEF SettingsOK, Open
  <1>3. Open' = Open \ {t}
    BY <1>2 DEF Open
  <1>4. \A u \in Open' : u \in Open /\ u \in Tab /\ u # t
    BY <1>3 DEF Open
  <1>5. SettingsOK'
    BY <1>1, <1>2, <1>4 DEF SettingsOK, TableOK
  <1>6. StoredIsInForce => StoredIsInForce'
    BY <1>2, <1>4 DEF StoredIsInForce
  <1> QED
    BY <1>3, <1>5, <1>6 DEF Settled

\* The value of a setting in a table.
LEMMA TableSet ==
    ASSUME NEW table, TableOK(table), NEW n \in Name, NEW v, Typed(Table[n].type, v)
    PROVE  TableOK([table EXCEPT ![n] = v])
  BY DEF TableOK

\* SetValue: a value that the setter accepts is put in force and stored.
LEMMA ValueStep ==
    ASSUME SettingsOK, NEW t \in Open, NEW n \in Name, NEW v, NEW kept, SetValue(t, n, v, kept),
           Accepted(n, v) => Typed(Table[n].type, v) /\ Typed(Table[n].type, kept),
           Freed = {<<>>} => kept = v
    PROVE  Settled(Open)
  <1>1. CASE ~Accepted(n, v)
    BY <1>1, SameSettings DEF SetValue
  <1>2. CASE Accepted(n, v)
    <2> DEFINE old == stored[t]
               new == [old EXCEPT ![n] = kept]
               seen == view[t]
               forView == [seen EXCEPT ![n] = InForce(n, v)]
    <2>1. /\ stored' = [stored EXCEPT ![t] = new]
          /\ view' = IF n \in Of("view") THEN [view EXCEPT ![t] = forView] ELSE view
          /\ session' = IF n \in Of("session") THEN [session EXCEPT ![n] = v] ELSE session
          /\ sheets' = IF n \in Of("style") \cup Of("hint")
                       THEN [sheets EXCEPT ![t] = Restack(n, v, old)]
                       ELSE sheets
      BY <1>2 DEF SetValue
    <2>2. t \in Tab /\ TableOK(old) /\ DOMAIN seen = Of("view")
      BY DEF SettingsOK, Open
    <2> HIDE DEF old, seen
    <2>3. TableOK(new) /\ new # <<>> /\ new[n] = kept /\ \A m \in Name : m # n => new[m] = old[m]
      BY <1>2, <2>2, TableSet, TableIsOpen DEF TableOK
    <2>4. /\ DOMAIN forView = Of("view") /\ (n \in Of("view") => forView[n] = InForce(n, v))
          /\ \A m \in Of("view") : m # n => forView[m] = seen[m]
      BY <2>2
    <2>5. Restack(n, v, old) = StackOf([old EXCEPT ![n] = v])
      BY DEF Restack
    <2> HIDE DEF new, forView
    <2>6. /\ DOMAIN stored' = Tab /\ DOMAIN view' = Tab /\ DOMAIN sheets' = Tab
          /\ stored'[t] = new
          /\ view'[t] = IF n \in Of("view") THEN forView ELSE seen
          /\ \A u \in Tab : u # t => /\ stored'[u] = stored[u] /\ view'[u] = view[u]
                                     /\ sheets'[u] = sheets[u]
      BY <2>1, <2>2 DEF SettingsOK, seen
    <2>7. Open' = Open
      BY <2>3, <2>6 DEF Open
    <2>8. SettingsOK'
      <3>1. ASSUME NEW u \in Open'
            PROVE  TableOK(stored'[u]) /\ DOMAIN view'[u] = Of("view")
        <4>1. u \in Open /\ u \in Tab
          BY <2>7 DEF Open
        <4>2. CASE u = t
          BY <2>2, <2>3, <2>4, <2>6, <4>2
        <4>3. CASE u # t
          BY <2>6, <4>1, <4>3 DEF SettingsOK
        <4> QED
          BY <4>2, <4>3
      <3>2. /\ DOMAIN session' = Of("session")
            /\ \A m \in Of("session") : Typed(Table[m].type, session'[m])
        BY <1>2, <2>1 DEF SettingsOK
      <3> QED
        BY <2>6, <3>1, <3>2 DEF SettingsOK, TableOK
    <2>9. ASSUME Freed = {<<>>}, StoredIsInForce
          PROVE  StoredIsInForce'
      <3>1. ASSUME NEW u \in Open'
            PROVE  /\ \A m \in Of("view") : view'[u][m] = InForce(m, stored'[u][m])
                   /\ sheets'[u] = StackOf(stored'[u])
        <4>1. u \in Open /\ u \in Tab
          BY <2>7 DEF Open
        <4>2. CASE u = t
          <5>1. kept = v
            BY <2>9
          <5>2. /\ \A m \in Of("view") : seen[m] = InForce(m, old[m])
                /\ sheets[t] = StackOf(old)
            BY <2>9 DEF StoredIsInForce, old, seen
          <5>3. ASSUME NEW m \in Of("view")
                PROVE  view'[t][m] = InForce(m, new[m])
            <6>1. m \in Name
              BY DEF Of
            <6>2. CASE m = n
              BY <2>3, <2>4, <2>6, <5>1, <6>2
            <6>3. CASE m # n
              BY <2>3, <2>4, <2>6, <5>2, <6>1, <6>3
            <6> QED
              BY <6>2, <6>3
          <5>4. sheets'[t] = StackOf(new)
            <6>1. CASE n \in Of("style") \cup Of("hint")
              BY <2>1, <2>2, <2>5, <5>1, <6>1 DEF SettingsOK, new
            <6>2. CASE n \notin Of("style") \cup Of("hint")
              <7>1. /\ new["stylesheet"] = old["stylesheet"]
                    /\ new["hint_label_css"] = old["hint_label_css"]
                    /\ new["hint_link_css"] = old["hint_link_css"]
                BY <2>3, <6>2, TableFacts DEF Of
              <7>2. StackOf(new) = StackOf(old)
                BY <7>1 DEF StackOf
              <7> QED
                BY <2>1, <5>2, <6>2, <7>2
            <6> QED
              BY <6>1, <6>2
          <5> QED
            BY <2>6, <4>2, <5>3, <5>4
        <4>3. CASE u # t
          BY <2>6, <2>9, <4>1, <4>3 DEF StoredIsInForce
        <4> QED
          BY <4>2, <4>3
      <3> QED
        BY <3>1 DEF StoredIsInForce
    <2> QED
      BY <2>7, <2>8, <2>9 DEF Settled
  <1> QED
    BY <1>1, <1>2

\* What a command asks for has the type of its setting, if the setter accepts it.
LEMMA AskedType ==
    ASSUME SettingsOK, NEW t \in Open, NEW c, IsCommand(c), c.kind = "set", c.name \in Name,
           c.op # "get", ~NotToggled(c), NEW kept \in Kept(t, c), Accepted(c.name, Asked(t, c))
    PROVE  /\ Typed(Table[c.name].type, Asked(t, c))
           /\ Typed(Table[c.name].type, kept)
  <1> DEFINE type == Table[c.name].type
             old == stored[t][c.name]
  <1>1. Typed(type, old)
    BY DEF SettingsOK, TableOK
  <1>2. /\ c.op \in {"set", "append", "prepend", "remove", "toggle"}
        /\ c.op # "toggle" => /\ type = "bool" => c.value \in BOOLEAN
                              /\ type = "int" => c.value \in Int
                              /\ type \notin {"bool", "int"} => IsText(c.value)
        /\ c.op = "toggle" => type = "bool"
    BY DEF IsCommand, NotToggled
  <1>3. /\ c.op = "toggle" => Asked(t, c) = ~old
        /\ c.op # "toggle" => Asked(t, c) = Prepare(c.name, old, c.value, c.op)
    BY DEF Asked
  <1>4. kept = Asked(t, c) \/ (kept \in Freed /\ type \notin {"bool", "int"} /\ old = <<>>)
    BY DEF Kept
  <1> HIDE DEF old, type
  <1>5. CASE type = "bool"
    <2>1. Asked(t, c) \in BOOLEAN
      <3>1. CASE c.op = "toggle"
        BY <1>3, <3>1, Zenon
      <3>2. CASE c.op # "toggle"
        BY <1>2, <1>3, <1>5, <3>2 DEF Prepare, type
      <3> QED
        BY <3>1, <3>2
    <2> QED
      BY <1>4, <1>5, <2>1 DEF Typed, type
  <1>6. CASE type = "int"
    <2>1. old \in Int /\ c.value \in Int /\ c.op \in {"set", "append", "prepend", "remove"}
      BY <1>1, <1>2, <1>6 DEF Typed
    <2>2. PrepareInt(old, c.value, c.op) \in Int
      BY <2>1 DEF PrepareInt
    <2>3. Asked(t, c) = PrepareInt(old, c.value, c.op)
      BY <1>3, <1>6, <2>1 DEF Prepare, type
    <2> QED
      BY <1>4, <1>6, <2>2, <2>3 DEF Typed, type
  <1>7. CASE type = "policy"
    <2>1. Asked(t, c) \in Policies
      BY <1>7 DEF Accepted, type
    <2>2. old # <<>>
      BY <1>1, <1>7 DEF Typed, Policies
    <2> QED
      BY <1>4, <1>7, <2>1, <2>2 DEF Typed, type
  <1>8. CASE type \notin {"bool", "int", "policy"}
    <2>1. IsText(old) /\ IsText(c.value) /\ c.op \in {"set", "append", "prepend", "remove"}
      BY <1>1, <1>2, <1>8 DEF Typed
    <2> DEFINE list == type = "list"
    <2>2. list \in BOOLEAN
      OBVIOUS
    <2>3. Asked(t, c) = PrepareText(old, c.value, c.op, list)
      BY <1>3, <1>8, <2>1 DEF Prepare, type
    <2> HIDE DEF list
    <2>4. IsText(Asked(t, c))
      BY <2>1, <2>2, <2>3, PreparedText
    <2>5. IsText(kept)
      BY <1>4, <2>4, ExAssumption
    <2> QED
      BY <1>8, <2>4, <2>5 DEF Typed, type
  <1> QED
    BY <1>5, <1>6, <1>7, <1>8

\* SettingRun: the command ":set".
LEMMA RunStep ==
    ASSUME SettingsOK, NEW t \in Open, NEW c, IsCommand(c), c.kind = "set", SettingRun(t, c)
    PROVE  Settled(Open)
  <1>1. CASE c.name \notin Name \/ c.op = "get" \/ NotToggled(c)
    BY <1>1, SameSettings DEF SettingRun
  <1>2. CASE ~(c.name \notin Name \/ c.op = "get" \/ NotToggled(c))
    <2>1. PICK kept \in Kept(t, c) : SetValue(t, c.name, Asked(t, c), kept)
      BY <1>2 DEF SettingRun
    <2>2. ASSUME Freed = {<<>>}
          PROVE  kept = Asked(t, c)
      <3>1. CASE c.op = "remove" /\ Table[c.name].type \notin {"bool", "int"} /\ stored[t][c.name] = <<>>
        <4>1. kept = <<>>
          BY <2>2, <3>1 DEF Kept
        <4>2. Asked(t, c) = <<>>
          BY <3>1 DEF Asked, Prepare, PrepareText
        <4> QED
          BY <4>1, <4>2
      <3>2. CASE ~(c.op = "remove" /\ Table[c.name].type \notin {"bool", "int"} /\ stored[t][c.name] = <<>>)
        BY <3>2 DEF Kept
      <3> QED
        BY <3>1, <3>2
    <2> QED
      BY <1>2, <2>1, <2>2, AskedType, ValueStep
  <1> QED
    BY <1>1, <1>2

-----------------------------------------------------------------------------
(* The calls.                                                                *)

\* A call stays well formed when more tabs are open.
LEMMA FrameGrows ==
    ASSUME NEW f, NEW tabs, NEW tabs2, tabs \subseteq tabs2, FrameOK(f, tabs)
    PROVE  FrameOK(f, tabs2)
  BY DEF FrameOK

\* A call is made.
LEMMA Pushed ==
    ASSUME NEW s, NEW tabs, NEW tabs2, NEW f, CallsOK(s, tabs), tabs \subseteq tabs2,
           FrameOK(f, tabs2), IsTyped(f) => s = <<>>
    PROVE  CallsOK(<<f>> \o s, tabs2)
  <1> DEFINE s2 == <<f>> \o s
  <1>1. PICK S : s \in Seq(S)
    BY DEF CallsOK
  <1>2. <<f>> \in Seq(S \cup {f}) /\ s \in Seq(S \cup {f})
    BY <1>1, SeqMonotonic
  <1>3. /\ s2 \in Seq(S \cup {f}) /\ Len(s2) = Len(s) + 1 /\ Len(s) \in Nat
        /\ s2[1] = f
        /\ \A i \in 2 .. Len(s2) : s2[i] = s[i - 1]
    BY <1>2, ConcatProperties
  <1> HIDE DEF s2
  <1>4. ASSUME NEW i \in 1 .. Len(s2)
        PROVE  FrameOK(s2[i], tabs2) /\ (IsTyped(s2[i]) => i = Len(s2))
    <2>1. CASE i = 1
      <3>1. s = <<>> => Len(s) = 0
        OBVIOUS
      <3> QED
        BY <1>3, <2>1, <3>1
    <2>2. CASE i # 1
      <3>1. i \in 2 .. Len(s2) /\ i - 1 \in 1 .. Len(s)
        BY <1>3, <2>2
      <3>2. FrameOK(s[i - 1], tabs) /\ (IsTyped(s[i - 1]) => i - 1 = Len(s))
        BY <3>1 DEF CallsOK
      <3> QED
        BY <1>3, <3>1, <3>2, FrameGrows
    <2> QED
      BY <2>1, <2>2
  <1> QED
    BY <1>3, <1>4 DEF CallsOK, s2

\* The innermost call, and those around it.
LEMMA Popped ==
    ASSUME NEW s, NEW tabs, CallsOK(s, tabs), s # <<>>
    PROVE  /\ FrameOK(s[1], tabs) /\ CallsOK(Tail(s), tabs)
           /\ IsTyped(s[1]) => Len(s) = 1 /\ Tail(s) = <<>>
  <1>1. PICK S : s \in Seq(S)
    BY DEF CallsOK
  <1> DEFINE rest == Tail(s)
  <1>2. /\ rest \in Seq(S) /\ Len(s) \in Nat /\ Len(s) >= 1 /\ Len(rest) = Len(s) - 1
        /\ \A i \in 1 .. Len(rest) : rest[i] = s[i + 1]
    BY <1>1, HeadTailProperties
  <1> HIDE DEF rest
  <1>3. 1 \in 1 .. Len(s)
    BY <1>2
  <1>4. FrameOK(s[1], tabs) /\ (IsTyped(s[1]) => 1 = Len(s))
    BY <1>3 DEF CallsOK
  <1>5. Len(s) = 1 => rest = <<>>
    BY <1>2, EmptySeq
  <1>6. ASSUME NEW i \in 1 .. Len(rest)
        PROVE  FrameOK(rest[i], tabs) /\ (IsTyped(rest[i]) => i = Len(rest))
    <2>1. i + 1 \in 1 .. Len(s)
      BY <1>2
    <2>2. FrameOK(s[i + 1], tabs) /\ (IsTyped(s[i + 1]) => i + 1 = Len(s))
      BY <2>1 DEF CallsOK
    <2> QED
      BY <1>2, <2>2
  <1>7. CallsOK(rest, tabs)
    BY <1>2, <1>6 DEF CallsOK
  <1> QED
    BY <1>4, <1>5, <1>7 DEF rest

\* The innermost call is replaced by one that is typed only if it was.
LEMMA Replaced ==
    ASSUME NEW s, NEW tabs, NEW tabs2, NEW f, CallsOK(s, tabs), s # <<>>, tabs \subseteq tabs2,
           FrameOK(f, tabs2), IsTyped(f) => IsTyped(s[1])
    PROVE  CallsOK(<<f>> \o Tail(s), tabs2)
  BY Popped, Pushed

\* A call on top of another one.
LEMMA TwoCalls ==
    ASSUME NEW f, NEW g
    PROVE  <<f>> \o <<g>> = <<f, g>>
  <1> DEFINE S == {f, g}
             u == <<f>> \o <<g>>
             v == <<f, g>>
  <1>1. <<f>> \in Seq(S) /\ <<g>> \in Seq(S) /\ Len(<<f>>) = 1 /\ Len(<<g>>) = 1
    OBVIOUS
  <1>2. /\ u \in Seq(S) /\ Len(u) = 2 /\ u[1] = <<f>>[1] /\ u[2] = <<g>>[1]
    BY <1>1, ConcatProperties
  <1>3. v \in Seq(S) /\ Len(v) = 2 /\ v[1] = f /\ v[2] = g
    OBVIOUS
  <1>4. u[1] = f /\ u[2] = g
    BY <1>2
  <1> HIDE DEF u, v, S
  <1>5. \A i \in 1 .. Len(u) : u[i] = v[i]
    BY <1>2, <1>3, <1>4
  <1>6. u = v
    BY <1>2, <1>3, <1>5, SeqEqual
  <1> QED
    BY <1>6 DEF u, v

\* It makes a call itself, which was not typed.
LEMMA Called ==
    ASSUME NEW s, NEW tabs, NEW tabs2, NEW f, NEW g, CallsOK(s, tabs), s # <<>>, tabs \subseteq tabs2,
           FrameOK(g, tabs2), IsTyped(g) => IsTyped(s[1]), FrameOK(f, tabs2), ~IsTyped(f)
    PROVE  CallsOK(<<f, g>> \o Tail(s), tabs2)
  <1> DEFINE rest == Tail(s)
  <1>1. CallsOK(<<g>> \o rest, tabs2)
    BY Replaced
  <1>2. CallsOK(<<f>> \o (<<g>> \o rest), tabs2)
    BY <1>1, Pushed
  <1>3. <<f>> \o (<<g>> \o rest) = <<f, g>> \o rest
    <2>1. CallsOK(rest, tabs)
      BY Popped
    <2>2. PICK S : rest \in Seq(S)
      BY <2>1 DEF CallsOK
    <2>3. <<f>> \in Seq(S \cup {f, g}) /\ <<g>> \in Seq(S \cup {f, g}) /\ rest \in Seq(S \cup {f, g})
      BY <2>2, SeqMonotonic
    <2>4. <<f>> \o (<<g>> \o rest) = (<<f>> \o <<g>>) \o rest
      <3> HIDE DEF rest
      <3> QED
        BY <2>3, ConcatAssociative
    <2>5. <<f>> \o <<g>> = <<f, g>>
      BY TwoCalls
    <2> QED
      BY <2>4, <2>5
  <1> QED
    BY <1>2, <1>3

\* The calls that the actions make.
LEMMA NewFrames ==
    ASSUME NEW tabs, NEW t \in tabs
    PROVE  /\ \A line \in AnyLine, typed \in BOOLEAN :
                 FrameOK(LineFrame(t, line, typed), tabs) /\ (IsTyped(LineFrame(t, line, typed)) => typed)
           /\ \A lines \in Seq(AnyLine), caller \in {"none", "source", "tabopen"} :
                 FrameOK(FileFrame(t, lines, caller), tabs) /\ ~IsTyped(FileFrame(t, lines, caller))
           /\ \A lines \in Seq(AnyLine) :
                 FrameOK(ShellFrame(t, lines), tabs) /\ ~IsTyped(ShellFrame(t, lines))
  <1>1. ASSUME NEW line \in AnyLine, NEW typed \in BOOLEAN
        PROVE  FrameOK(LineFrame(t, line, typed), tabs) /\ (IsTyped(LineFrame(t, line, typed)) => typed)
    BY DEF FrameOK, IsTyped, LineFrame
  <1>2. ASSUME NEW lines \in Seq(AnyLine), NEW caller \in {"none", "source", "tabopen"}
        PROVE  FrameOK(FileFrame(t, lines, caller), tabs) /\ ~IsTyped(FileFrame(t, lines, caller))
    BY DEF FrameOK, IsTyped, FileFrame
  <1>3. ASSUME NEW lines \in Seq(AnyLine)
        PROVE  FrameOK(ShellFrame(t, lines), tabs) /\ ~IsTyped(ShellFrame(t, lines))
    BY DEF FrameOK, IsTyped, ShellFrame
  <1> QED
    BY <1>1, <1>2, <1>3

\* The commands of a line.
LEMMA LineCommands ==
    ASSUME NEW line \in AnyLine
    PROVE  /\ line.commands \in Seq(AnyCommand) /\ Len(line.commands) \in Nat
           /\ \A i \in 1 .. Len(line.commands) : /\ line.commands[i] \in AnyCommand
                                                /\ IsCommand(line.commands[i])
  <1>1. line.commands \in Seq(AnyCommand)
    BY ExAssumption
  <1>2. \A i \in 1 .. Len(line.commands) : line.commands[i] \in AnyCommand
    BY <1>1
  <1> QED
    BY <1>1, <1>2, ExAssumption

\* A line goes on with its next command.
LEMMA ParsedFrame ==
    ASSUME NEW f, NEW tabs, FrameOK(f, tabs), f.kind = "line", HasNext(f)
    PROVE  /\ FrameOK(Parsed(f), tabs) /\ (IsTyped(Parsed(f)) => IsTyped(f))
           /\ IsCommand(Upcoming(f))
  <1>1. /\ f.line \in AnyLine /\ f.at \in Nat /\ f.at >= 1 /\ f.tab \in tabs
        /\ DOMAIN f = {"kind", "tab", "line", "at", "bang", "nohist", "typed", "res"}
    BY DEF FrameOK
  <1>2. /\ DOMAIN Parsed(f) = DOMAIN f /\ Parsed(f).kind = "line" /\ Parsed(f).tab = f.tab
        /\ Parsed(f).line = f.line /\ Parsed(f).at = f.at + 1 /\ Parsed(f).typed = f.typed
    BY <1>1 DEF Parsed
  <1>3. /\ Len(f.line.commands) \in Nat
        /\ \A i \in 1 .. Len(f.line.commands) : IsCommand(f.line.commands[i])
    BY <1>1, LineCommands
  <1>4. f.at \in 1 .. Len(f.line.commands)
    BY <1>1, <1>3 DEF HasNext
  <1> QED
    BY <1>1, <1>2, <1>3, <1>4 DEF FrameOK, IsTyped, Upcoming

\* What a call has returned is kept by the one that made it.
LEMMA ResultFrame ==
    ASSUME NEW f, NEW tabs, FrameOK(f, tabs), NEW r
    PROVE  LET g == [f EXCEPT !.res = r]
           IN  /\ FrameOK(g, tabs) /\ (IsTyped(g) <=> IsTyped(f))
               /\ f.kind = "line" => /\ g.line = f.line /\ g.nohist = f.nohist
                                     /\ g.typed = f.typed /\ g.res = r
  <1> DEFINE g == [f EXCEPT !.res = r]
  <1>1. CASE f.kind = "line"
    BY <1>1 DEF FrameOK, IsTyped
  <1>2. CASE f.kind = "file"
    BY <1>2 DEF FrameOK, IsTyped
  <1>3. CASE f.kind = "shell"
    BY <1>3 DEF FrameOK, IsTyped
  <1> QED
    BY <1>1, <1>2, <1>3 DEF FrameOK

-----------------------------------------------------------------------------
(* The steps.                                                                *)

\* What a step records: only a line that the user typed.
RecordsTyped ==
    recorded' # recorded
        => /\ Len(stack) = 1
           /\ recorded' = Append(recorded, Top.line)
           /\ returned = None \/ Stops(returned)

\* What is shown of every step.
StepOK == Inv' /\ RecordsTyped /\ (Freed = {<<>>} /\ StoredIsInForce => StoredIsInForce')

\* The parts of it.
LEMMA StepParts ==
    ASSUME NEW tabs, Settled(tabs), CallsOK(stack', tabs), tokens' \in Seq(AnyLine),
           current' \in Tab /\ (tabs # {} => current' \in tabs),
           runs' \in 0 .. MaxRuns, box' \in {"line", "message", "empty"}, RecordsTyped
    PROVE  StepOK
  BY DEF Settled, StepOK, Inv, StackOK, RestOK

\* The parts of a step that leaves the settings, the tabs and the counter alone.
LEMMA CallStep ==
    ASSUME Inv, UNCHANGED <<settings, runs>>, CallsOK(stack', Open), tokens' \in Seq(AnyLine),
           current' \in Open \/ current' = current,
           box' \in {"message", "empty", box}, RecordsTyped
    PROVE  StepOK
  <1>1. Settled(Open)
    BY SameSettings DEF Inv
  <1>2. current' \in Tab /\ (Open # {} => current' \in Open)
    BY DEF Inv, RestOK, Open
  <1>3. runs' \in 0 .. MaxRuns /\ box' \in {"line", "message", "empty"}
    BY DEF Inv, RestOK
  <1> QED
    BY <1>1, <1>2, <1>3, StepParts

\* The innermost call.
LEMMA TopCall ==
    ASSUME Inv, stack # <<>>
    PROVE  /\ FrameOK(Top, Open) /\ Top.tab \in Open /\ CallsOK(stack, Open)
           /\ CallsOK(Tail(stack), Open) /\ (IsTyped(Top) => Len(stack) = 1)
  <1>1. CallsOK(stack, Open)
    BY DEF Inv, StackOK
  <1> QED
    BY <1>1, Popped DEF Top, FrameOK

\* The first tab.
LEMMA StartStep ==
    ASSUME Inv, Start
    PROVE  StepOK
  <1>1. Open = {} /\ SettingInit(current) /\ Push(FileFrame(current, Config, "none"))
        /\ UNCHANGED <<current, tokens, box, recorded, runs>>
    BY DEF Start
  <1>2. current \in Tab /\ CallsOK(stack, Open)
    BY DEF Inv, RestOK, StackOK
  <1>3. Settled({current})
    BY <1>1, <1>2, InitStep DEF Inv
  <1>4. CallsOK(stack', {current})
    <2> DEFINE f == FileFrame(current, Config, "none")
    <2>1. FrameOK(f, {current}) /\ ~IsTyped(f)
      BY NewFrames, ExAssumption
    <2> HIDE DEF f
    <2>2. CallsOK(<<f>> \o stack, {current})
      BY <1>1, <1>2, <2>1, Pushed
    <2> QED
      BY <1>1, <2>2 DEF Push, f
  <1> QED
    BY <1>1, <1>2, <1>3, <1>4, StepParts DEF Inv, RestOK, StackOK, RecordsTyped

\* The user ends a line.
LEMMA ActivateStep ==
    ASSUME Inv, NEW line \in Lines, InputActivate(line)
    PROVE  StepOK
  <1>1. /\ Idle /\ Open # {} /\ runs < MaxRuns /\ Push(LineFrame(current, line, TRUE))
        /\ box' = "line" /\ runs' = runs + 1 /\ UNCHANGED <<settings, current, tokens, recorded>>
    BY DEF InputActivate
  <1>2. Settled(Open) /\ current \in Open /\ CallsOK(stack, Open) /\ stack = <<>>
    BY <1>1, SameSettings DEF Inv, RestOK, StackOK, Idle
  <1>3. CallsOK(stack', Open)
    <2> DEFINE f == LineFrame(current, line, TRUE)
    <2>1. FrameOK(f, Open)
      BY <1>2, NewFrames, ExAssumption
    <2> HIDE DEF f
    <2>2. CallsOK(<<f>> \o stack, Open)
      BY <1>2, <2>1, Pushed
    <2> QED
      BY <1>1, <2>2 DEF Push, f
  <1>4. runs' \in 0 .. MaxRuns
    BY <1>1, ExAssumption DEF Inv, RestOK
  <1> QED
    BY <1>1, <1>2, <1>3, <1>4, StepParts DEF Inv, RestOK, StackOK, RecordsTyped

\* The configuration is run again in every tab.
LEMMA ReloadStep ==
    ASSUME Inv, ReloadConfig
    PROVE  StepOK
  <1> DEFINE tabs == SetToSeq(Open)
  <1>1. /\ Open # {} /\ runs < MaxRuns
        /\ stack' = [i \in DOMAIN tabs |-> FileFrame(tabs[i], Config, "none")]
        /\ runs' = runs + 1 /\ UNCHANGED <<settings, current, tokens, box, recorded>>
    BY DEF ReloadConfig
  <1>2. Settled(Open)
    BY <1>1, SameSettings DEF Inv
  <1>3. tabs \in Seq(Open)
    <2>1. IsFiniteSet(Open)
      BY ExAssumption, FS_Subset DEF Open
    <2> QED
      BY <2>1, ListOfSet
  <1> HIDE DEF tabs
  <1>4. CallsOK(stack', Open)
    <2>1. ASSUME NEW i \in 1 .. Len(tabs)
          PROVE  FrameOK(stack'[i], Open) /\ ~IsTyped(stack'[i])
      BY <1>1, <1>3, NewFrames, ExAssumption
    <2> DEFINE S == {stack'[i] : i \in 1 .. Len(tabs)}
    <2>2. stack' \in Seq(S) /\ Len(stack') = Len(tabs)
      <3>1. /\ Len(tabs) \in Nat /\ DOMAIN stack' = 1 .. Len(tabs)
            /\ stack' = [i \in 1 .. Len(tabs) |-> stack'[i]]
        BY <1>1, <1>3
      <3>2. \A i \in 1 .. Len(tabs) : stack'[i] \in S
        OBVIOUS
      <3> HIDE DEF S
      <3> QED
        BY <3>1, <3>2
    <2> QED
      BY <2>1, <2>2 DEF CallsOK
  <1>5. runs' \in 0 .. MaxRuns
    BY <1>1, ExAssumption DEF Inv, RestOK
  <1> QED
    BY <1>1, <1>2, <1>4, <1>5, StepParts DEF Inv, RestOK, StackOK, RecordsTyped

\* A tab is closed.
LEMMA CloseStep ==
    ASSUME Inv, NEW t \in Tab, CloseTab(t)
    PROVE  StepOK
  <1>1. /\ Idle /\ t \in Open /\ Open # {t} /\ runs < MaxRuns /\ SettingCleanup(t)
        /\ current' \in IF current = t THEN Open \ {t} ELSE {current}
        /\ runs' = runs + 1 /\ UNCHANGED <<stack, tokens, box, recorded>>
    BY DEF CloseTab
  <1>2. Settled(Open \ {t})
    BY <1>1, CleanupStep DEF Inv
  <1>3. stack' = <<>> /\ CallsOK(stack', Open \ {t})
    BY <1>1, EmptySeq DEF Idle, CallsOK
  <1>4. current' \in Tab /\ current' \in Open \ {t}
    BY <1>1 DEF Inv, RestOK, Open
  <1>5. runs' \in 0 .. MaxRuns
    BY <1>1, ExAssumption DEF Inv, RestOK
  <1> QED
    BY <1>1, <1>2, <1>3, <1>4, <1>5, StepParts DEF Inv, RestOK, StackOK, RecordsTyped

\* A line is over.
LEMMA RunEnds ==
    ASSUME Inv, stack # <<>>, NEW f, RunStringEnds(f), f.line = Top.line,
           f.typed => IsTyped(Top), returned = None \/ Stops(returned)
    PROVE  RecordsTyped /\ CallsOK(stack', Open)
  <1>1. stack' = Tail(stack)
    BY DEF RunStringEnds, Pop
  <1>2. recorded' # recorded => f.typed /\ recorded' = Append(recorded, f.line)
    BY DEF RunStringEnds
  <1> QED
    BY <1>1, <1>2, TopCall DEF RecordsTyped

\* The line has no command left.
LEMMA LineEndStep ==
    ASSUME Inv, LineEnd
    PROVE  StepOK
  <1>1. /\ stack # <<>> /\ returned = None /\ Top.kind = "line" /\ RunStringEnds(Top)
        /\ UNCHANGED <<settings, current, tokens, box, runs>>
    BY DEF LineEnd, Runs
  <1>2. Top.typed => IsTyped(Top)
    BY <1>1 DEF IsTyped
  <1> QED
    BY <1>1, <1>2, RunEnds, CallStep DEF Inv, StackOK

\* A command that does not exist.
LEMMA UnknownStep ==
    ASSUME Inv, Unknown
    PROVE  StepOK
  <1> DEFINE f == [Top EXCEPT !.nohist = Parsed(Top).nohist]
  <1>1. /\ stack # <<>> /\ returned = None /\ Top.kind = "line" /\ RunStringEnds(f) /\ box' = "message"
        /\ UNCHANGED <<settings, current, tokens, runs>>
    BY DEF Unknown, Runs
  <1>2. f.line = Top.line /\ f.typed = Top.typed
    BY <1>1, TopCall DEF FrameOK
  <1>3. f.typed => IsTyped(Top)
    BY <1>1, <1>2 DEF IsTyped
  <1> HIDE DEF f
  <1> QED
    BY <1>1, <1>2, <1>3, RunEnds, CallStep DEF Inv, StackOK

\* A line that has a command left.
LEMMA NextCommand ==
    ASSUME Inv, Runs("line"), HasNext(Top)
    PROVE  /\ stack # <<>> /\ Top.tab \in Open /\ IsCommand(Upcoming(Top))
           /\ FrameOK(Parsed(Top), Open) /\ (IsTyped(Parsed(Top)) => IsTyped(Top))
           /\ CallsOK(<<Parsed(Top)>> \o Tail(stack), Open)
  <1>1. stack # <<>> /\ Top.kind = "line"
    BY DEF Runs
  <1>2. FrameOK(Top, Open) /\ CallsOK(stack, Open) /\ Top.tab \in Open
    BY <1>1, TopCall
  <1>3. FrameOK(Parsed(Top), Open) /\ (IsTyped(Parsed(Top)) => IsTyped(Top)) /\ IsCommand(Upcoming(Top))
    BY <1>1, <1>2, ParsedFrame
  <1>4. CallsOK(<<Parsed(Top)>> \o Tail(stack), Open)
    BY <1>1, <1>2, <1>3, Replaced DEF Top
  <1> QED
    BY <1>1, <1>2, <1>3, <1>4

\* The command ":set".
LEMMA SetStep ==
    ASSUME Inv, ExSet
    PROVE  StepOK
  <1>1. /\ Runs("line") /\ HasNext(Top) /\ Upcoming(Top).kind = "set"
        /\ SettingRun(Top.tab, Upcoming(Top)) /\ box' \in {"message", box}
        /\ Replace(Parsed(Top)) /\ UNCHANGED <<current, tokens, recorded, runs>>
    BY DEF ExSet
  <1>2. Settled(Open)
    BY <1>1, NextCommand, RunStep DEF Inv
  <1>3. CallsOK(stack', Open)
    BY <1>1, NextCommand DEF Replace
  <1>4. box' \in {"line", "message", "empty"}
    BY <1>1 DEF Inv, RestOK
  <1> QED
    BY <1>1, <1>2, <1>3, <1>4, StepParts DEF Inv, RestOK, StackOK, RecordsTyped

\* A command that runs no lines.
LEMMA ExecuteStep ==
    ASSUME Inv, Execute
    PROVE  StepOK
  <1>1. /\ Runs("line") /\ HasNext(Top) /\ box' \in {"message", box}
        /\ Replace(Parsed(Top)) /\ UNCHANGED <<settings, current, tokens, recorded, runs>>
    BY DEF Execute
  <1>2. CallsOK(stack', Open)
    BY <1>1, NextCommand DEF Replace
  <1> QED
    BY <1>1, <1>2, CallStep DEF Inv, StackOK, RecordsTyped

\* A command that runs lines in its own tab or in a new one.
LEMMA NestedCall ==
    ASSUME Inv, Runs("line"), HasNext(Top), NEW tabs, Open \subseteq tabs, NEW f,
           PushOver(Parsed(Top), f), FrameOK(f, tabs), ~IsTyped(f)
    PROVE  CallsOK(stack', tabs)
  <1>1. /\ stack # <<>> /\ CallsOK(stack, Open)
        /\ FrameOK(Parsed(Top), tabs) /\ (IsTyped(Parsed(Top)) => IsTyped(stack[1]))
    BY NextCommand, TopCall, FrameGrows DEF Top
  <1>2. CallsOK(<<f, Parsed(Top)>> \o Tail(stack), tabs)
    BY <1>1, Called
  <1> QED
    BY <1>2 DEF PushOver

\* The command ":source".
LEMMA SourceStep ==
    ASSUME Inv, ExSource
    PROVE  StepOK
  <1> DEFINE lines == Files[Upcoming(Top).file]
             f == FileFrame(Top.tab, lines, "source")
  <1>1. /\ Runs("line") /\ HasNext(Top) /\ Upcoming(Top).kind = "source" /\ PushOver(Parsed(Top), f)
        /\ UNCHANGED <<settings, current, tokens, box, recorded, runs>>
    BY DEF ExSource
  <1>2. Top.tab \in Open /\ lines \in Seq(AnyLine)
    BY <1>1, NextCommand, ExAssumption DEF IsCommand
  <1>3. FrameOK(f, Open) /\ ~IsTyped(f)
    BY <1>2, NewFrames
  <1> HIDE DEF f
  <1>4. CallsOK(stack', Open)
    BY <1>1, <1>3, NestedCall
  <1> QED
    BY <1>1, <1>4, CallStep DEF Inv, StackOK, RecordsTyped

\* The command ":shellex".
LEMMA ShellexStep ==
    ASSUME Inv, ExShellex
    PROVE  StepOK
  <1> DEFINE lines == Upcoming(Top).output
             f == ShellFrame(Top.tab, lines)
  <1>1. /\ Runs("line") /\ HasNext(Top) /\ Upcoming(Top).kind = "shellex" /\ PushOver(Parsed(Top), f)
        /\ UNCHANGED <<settings, current, tokens, box, recorded, runs>>
    BY DEF ExShellex
  <1>2. Top.tab \in Open /\ lines \in Seq(AnyLine)
    BY <1>1, NextCommand DEF IsCommand
  <1>3. FrameOK(f, Open) /\ ~IsTyped(f)
    BY <1>2, NewFrames
  <1> HIDE DEF f
  <1>4. CallsOK(stack', Open)
    BY <1>1, <1>3, NestedCall
  <1> QED
    BY <1>1, <1>4, CallStep DEF Inv, StackOK, RecordsTyped

\* The command ":tabopen".
LEMMA TabopenStep ==
    ASSUME Inv, ExTabopen
    PROVE  StepOK
  <1>1. /\ Runs("line") /\ HasNext(Top)
        /\ UNCHANGED <<current, tokens, box, recorded, runs>>
    BY DEF ExTabopen
  <1>2. PICK t \in Tab \ Open : /\ SettingInit(t)
                                /\ PushOver(Parsed(Top), FileFrame(t, Config, "tabopen"))
    BY DEF ExTabopen
  <1> DEFINE tabs == Open \cup {t}
             f == FileFrame(t, Config, "tabopen")
  <1>3. Settled(tabs)
    BY <1>2, InitStep DEF Inv
  <1>4. FrameOK(f, tabs) /\ ~IsTyped(f)
    BY NewFrames, ExAssumption
  <1>5. current \in Tab /\ (tabs # {} => current \in tabs)
    BY <1>1, NextCommand DEF Inv, RestOK
  <1>6. Open \subseteq tabs /\ PushOver(Parsed(Top), f)
    BY <1>2
  <1> HIDE DEF tabs, f
  <1>7. CallsOK(stack', tabs)
    BY <1>1, <1>4, <1>6, NestedCall
  <1> QED
    BY <1>1, <1>3, <1>5, <1>7, StepParts DEF Inv, RestOK, StackOK, RecordsTyped

\* The next line of a file.
LEMMA FileLineStep ==
    ASSUME Inv, FileLine
    PROVE  StepOK
  <1> DEFINE g == [Top EXCEPT !.lines = Tail(@)]
             f == LineFrame(Top.tab, Head(Top.lines), FALSE)
  <1>1. /\ stack # <<>> /\ Top.kind = "file" /\ Top.lines # <<>> /\ PushOver(g, f)
        /\ UNCHANGED <<settings, current, tokens, box, recorded, runs>>
    BY DEF FileLine, Runs
  <1>2. FrameOK(Top, Open) /\ CallsOK(stack, Open) /\ Top.tab \in Open
    BY <1>1, TopCall
  <1>3. Top.lines \in Seq(AnyLine)
    BY <1>1, <1>2 DEF FrameOK
  <1>4. Head(Top.lines) \in AnyLine /\ Tail(Top.lines) \in Seq(AnyLine)
    BY <1>1, <1>3, HeadTailProperties
  <1>5. FrameOK(f, Open) /\ ~IsTyped(f)
    BY <1>2, <1>4, NewFrames
  <1>6. FrameOK(g, Open) /\ ~IsTyped(g)
    <2>1. /\ DOMAIN Top = {"kind", "tab", "lines", "caller", "res"}
          /\ Top.caller \in {"none", "source", "tabopen"}
      BY <1>1, <1>2 DEF FrameOK
    <2>2. /\ DOMAIN g = DOMAIN Top /\ g.kind = "file" /\ g.tab = Top.tab
          /\ g.caller = Top.caller /\ g.lines = Tail(Top.lines)
      BY <1>1, <2>1
    <2> HIDE DEF g
    <2> QED
      BY <1>2, <1>4, <2>1, <2>2 DEF FrameOK, IsTyped
  <1> HIDE DEF f, g
  <1>7. CallsOK(stack', Open)
    BY <1>1, <1>2, <1>5, <1>6, Called DEF PushOver
  <1> QED
    BY <1>1, <1>7, CallStep DEF Inv, StackOK, RecordsTyped

\* The file is over.
LEMMA FileEndStep ==
    ASSUME Inv, FileEnd
    PROVE  StepOK
  <1>1. /\ stack # <<>> /\ stack' = Tail(stack)
        /\ current' = IF Top.caller = "tabopen" THEN Top.tab ELSE current
        /\ UNCHANGED <<settings, tokens, box, recorded, runs>>
    BY DEF FileEnd, Runs, Pop
  <1>2. CallsOK(stack', Open) /\ Top.tab \in Open
    BY <1>1, TopCall
  <1> QED
    BY <1>1, <1>2, CallStep DEF Inv, StackOK, RecordsTyped

\* What an output reads as after it was freed are lines.
LEMMA FreedType ==
    ASSUME NEW lines \in Seq(AnyLine)
    PROVE  lines \in AfterFree(lines) /\ AfterFree(lines) \subseteq Seq(AnyLine)
  BY ExAssumption DEF AfterFree

\* The next line of what a shell command printed.
LEMMA ShellLineStep ==
    ASSUME Inv, ShellLine
    PROVE  StepOK
  <1> DEFINE rest == IF Top.first THEN Top.lines ELSE tokens
             g == [Top EXCEPT !.first = FALSE, !.lines = <<>>]
             f == LineFrame(Top.tab, Head(rest), FALSE)
  <1>1. /\ stack # <<>> /\ Top.kind = "shell"
        /\ UNCHANGED <<settings, current, box, recorded, runs>>
        /\ rest = <<>> => stack' = Tail(stack) /\ tokens' \in AfterFree(<<>>)
        /\ rest # <<>> => tokens' = Tail(rest) /\ PushOver(g, f)
    BY DEF ShellLine, Runs, Pop
  <1>2. FrameOK(Top, Open) /\ CallsOK(stack, Open) /\ CallsOK(Tail(stack), Open) /\ Top.tab \in Open
    BY <1>1, TopCall
  <1>3. Top.lines \in Seq(AnyLine) /\ tokens \in Seq(AnyLine)
    BY <1>1, <1>2 DEF FrameOK, Inv, StackOK
  <1>4. rest \in Seq(AnyLine)
    BY <1>3
  <1>5. FrameOK(g, Open) /\ ~IsTyped(g)
    <2>1. DOMAIN Top = {"kind", "tab", "lines", "first", "res"}
      BY <1>1, <1>2 DEF FrameOK
    <2>2. DOMAIN g = DOMAIN Top /\ g.kind = "shell" /\ g.tab = Top.tab /\ g.lines = <<>>
      BY <1>1, <2>1
    <2>3. <<>> \in Seq(AnyLine)
      BY EmptySeq
    <2> HIDE DEF g
    <2> QED
      BY <1>2, <2>1, <2>2, <2>3 DEF FrameOK, IsTyped
  <1>6. RecordsTyped /\ current' = current /\ box' = box
    BY <1>1 DEF RecordsTyped
  <1> HIDE DEF rest, g
  <1>7. CASE rest = <<>>
    <2>1. tokens' \in Seq(AnyLine)
      <3>1. <<>> \in Seq(AnyLine)
        BY EmptySeq
      <3> QED
        BY <1>1, <1>7, <3>1, FreedType
    <2> QED
      BY <1>1, <1>2, <1>6, <1>7, <2>1, CallStep
  <1>8. CASE rest # <<>>
    <2>1. Head(rest) \in AnyLine /\ Tail(rest) \in Seq(AnyLine)
      BY <1>4, <1>8, HeadTailProperties
    <2>2. FrameOK(f, Open) /\ ~IsTyped(f)
      BY <1>2, <2>1, NewFrames
    <2> HIDE DEF f
    <2>3. CallsOK(stack', Open)
      BY <1>1, <1>2, <1>5, <1>8, <2>2, Called DEF PushOver
    <2>4. tokens' \in Seq(AnyLine)
      BY <1>1, <1>8, <2>1
    <2> QED
      BY <1>1, <1>6, <2>3, <2>4, CallStep
  <1> QED
    BY <1>7, <1>8

\* A call takes what the one that it made has returned.
LEMMA TakeStep ==
    ASSUME Inv, TakeResult
    PROVE  StepOK
  <1>1. /\ stack # <<>> /\ UNCHANGED <<settings, current, box, runs>>
        /\ Top.kind \in {"line", "file", "shell"}
        /\ Top.kind = "line" => TakeInLine
        /\ Top.kind = "file" => TakeInFile
        /\ Top.kind = "shell" => TakeInShell
    BY TopCall DEF TakeResult, FrameOK
  <1>2. FrameOK(Top, Open) /\ CallsOK(stack, Open) /\ CallsOK(Tail(stack), Open)
    BY <1>1, TopCall
  <1>3. ASSUME NEW r
        PROVE  CallsOK(<<[Top EXCEPT !.res = r]>> \o Tail(stack), Open)
    <2> DEFINE g == [Top EXCEPT !.res = r]
    <2>1. FrameOK(g, Open) /\ (IsTyped(g) => IsTyped(stack[1]))
      BY <1>2, ResultFrame DEF Top
    <2> HIDE DEF g
    <2>2. CallsOK(<<g>> \o Tail(stack), Open)
      BY <1>1, <1>2, <2>1, Replaced
    <2> QED
      BY <2>2 DEF g
  <1>4. CallsOK(<<Top>> \o Tail(stack), Open)
    BY <1>1, <1>2, Replaced DEF Top
  <1>5. CallsOK(stack', Open) /\ RecordsTyped
    <2>1. CASE Top.kind = "line"
      <3> DEFINE f == [Top EXCEPT !.res = returned]
      <3>1. CASE Stops(returned)
        <4>1. RunStringEnds(f)
          BY <1>1, <2>1, <3>1 DEF TakeInLine
        <4>2. f.line = Top.line /\ f.typed = Top.typed
          BY <1>2, <2>1, ResultFrame
        <4>3. f.typed => IsTyped(Top)
          BY <2>1, <4>2 DEF IsTyped
        <4> HIDE DEF f
        <4> QED
          BY <1>1, <3>1, <4>1, <4>2, <4>3, RunEnds
      <3>2. CASE ~Stops(returned)
        <4>1. Replace(f) /\ UNCHANGED recorded
          BY <1>1, <2>1, <3>2 DEF TakeInLine
        <4> QED
          BY <1>3, <4>1 DEF Replace, RecordsTyped
      <3> QED
        BY <3>1, <3>2
    <2>2. CASE Top.kind = "file"
      <3>1. Replace(IF returned.ok THEN Top ELSE [Top EXCEPT !.res = Result(FALSE, TRUE)])
        BY <1>1, <2>2 DEF TakeInFile
      <3>2. CallsOK(stack', Open)
        BY <1>3, <1>4, <3>1 DEF Replace
      <3> QED
        BY <1>1, <2>2, <3>2 DEF TakeInFile, RecordsTyped
    <2>3. CASE Top.kind = "shell"
      <3>1. stack' = <<[Top EXCEPT !.res = returned]>> \o Tail(stack) \/ stack' = Tail(stack)
        BY <1>1, <2>3 DEF TakeInShell, Replace, Pop
      <3>2. CallsOK(stack', Open)
        BY <1>2, <1>3, <3>1
      <3> QED
        BY <1>1, <2>3, <3>2 DEF TakeInShell, RecordsTyped
    <2> QED
      BY <1>1, <2>1, <2>2, <2>3
  <1>6. tokens' \in Seq(AnyLine)
    <2>1. tokens \in Seq(AnyLine)
      BY DEF Inv, StackOK
    <2> QED
      BY <1>1, <2>1, FreedType DEF TakeInLine, TakeInFile, TakeInShell
  <1> QED
    BY <1>1, <1>5, <1>6, CallStep

\* The typed line is over.
LEMMA ActivatedStep ==
    ASSUME Inv, Activated
    PROVE  StepOK
  <1>1. UNCHANGED <<settings, current, stack, tokens, recorded, runs>> /\ box' \in {"empty", box}
    BY DEF Activated
  <1> QED
    BY <1>1, CallStep DEF Inv, StackOK, RecordsTyped

\* A step that changes nothing.
LEMMA Stutter ==
    ASSUME Inv, UNCHANGED vars
    PROVE  StepOK
  <1>1. UNCHANGED <<settings, current, stack, tokens, recorded, runs, box>>
    BY DEF vars, ex
  <1> QED
    BY <1>1, CallStep DEF Inv, StackOK, RecordsTyped

\* The first state.
LEMMA InitInv ==
    ASSUME Init
    PROVE  Inv /\ StoredIsInForce
  <1>1. Open = {}
    BY DEF Init, InitSettings, Open
  <1>2. SettingsOK /\ StoredIsInForce
    BY <1>1 DEF Init, InitSettings, SettingsOK, StoredIsInForce
  <1>3. StackOK
    BY EmptySeq DEF Init, StackOK, CallsOK
  <1>4. current \in Tab
    <2>1. \E t \in Tab : TRUE
      BY ExAssumption
    <2> QED
      BY <2>1, Zenon DEF Init
  <1>5. RestOK
    BY <1>1, <1>4, ExAssumption DEF Init, RestOK
  <1> QED
    BY <1>2, <1>3, <1>5 DEF Inv

\* Every step.
LEMMA NextStep ==
    ASSUME Inv, [Next]_vars
    PROVE  StepOK
  <1>1. CASE Start
    BY <1>1, StartStep
  <1>2. CASE \E line \in Lines : InputActivate(line)
    BY <1>2, ActivateStep
  <1>3. CASE ReloadConfig
    BY <1>3, ReloadStep
  <1>4. CASE \E t \in Tab : CloseTab(t)
    BY <1>4, CloseStep
  <1>5. CASE Run
    BY <1>5, LineEndStep, UnknownStep, SetStep, ExecuteStep, SourceStep, ShellexStep, TabopenStep,
       FileLineStep, FileEndStep, ShellLineStep, TakeStep, ActivatedStep DEF Run
  <1>6. CASE UNCHANGED vars
    BY <1>6, Stutter
  <1> QED
    BY <1>1, <1>2, <1>3, <1>4, <1>5, <1>6 DEF Next

-----------------------------------------------------------------------------
(* The theorems.                                                             *)

\* The calls are well formed, and only the outermost one can be a line that the
\* user typed.
THEOREM Invariance == Spec => []Inv
  <1>1. Init => Inv
    BY InitInv
  <1>2. Inv /\ [Next]_vars => Inv'
    BY NextStep DEF StepOK
  <1> QED
    BY <1>1, <1>2, PTL DEF Spec

\* Whatever lines are run, every value that a tab or the session holds has the
\* type of its setting, and every call belongs to an open tab.
THEOREM TypeCorrect == Spec => []TypeOK
  <1>1. Inv => TypeOK
    <2> SUFFICES ASSUME Inv
                 PROVE  TypeOK
      OBVIOUS
    <2>1. \A i \in DOMAIN stack : stack[i].tab \in Open
      <3>1. PICK S : stack \in Seq(S)
        BY DEF Inv, StackOK, CallsOK
      <3>2. DOMAIN stack = 1 .. Len(stack)
        BY <3>1
      <3> QED
        BY <3>2 DEF Inv, StackOK, CallsOK, FrameOK
    <2>2. \A t \in Open : /\ DOMAIN stored[t] = Name /\ DOMAIN view[t] = Of("view")
                          /\ \A n \in Name : Typed(Table[n].type, stored[t][n])
      BY DEF Inv, SettingsOK, TableOK
    <2> QED
      BY <2>1, <2>2 DEF TypeOK, Inv, SettingsOK, RestOK
  <1> QED
    BY <1>1, Invariance, PTL

\* What the tables say is what is in force, in every tab, whatever is set there,
\* refused, added or removed by lines, files and shell commands, however nested:
\* unless the memory that setting.c reads after it freed it has another text.
THEOREM SettingsAreInForce ==
    ASSUME Freed = {<<>>}
    PROVE  Spec => []SettingsHold
  <1>1. Init => StoredIsInForce
    BY InitInv
  <1>2. Inv /\ StoredIsInForce /\ [Next]_vars => StoredIsInForce'
    BY NextStep DEF StepOK
  <1>3. TypeOK /\ StoredIsInForce => SettingsHold
    BY DEF SettingsHold
  <1> QED
    BY <1>1, <1>2, <1>3, Invariance, TypeCorrect, PTL DEF Spec

\* However the lines nest: the history gets only what the user typed, and at its end.
THEOREM OnlyTypedLines == Spec => OnlyTypedIsRecorded
  <1>1. Inv /\ [Next]_vars
           => [recorded' # recorded
               => /\ Len(stack) = 1
                  /\ recorded' = Append(recorded, Top.line)
                  /\ returned = None \/ Stops(returned)]_vars
    BY NextStep DEF StepOK, RecordsTyped
  <1> QED
    BY <1>1, Invariance, PTL DEF Spec, OnlyTypedIsRecorded

-----------------------------------------------------------------------------
(* What the recursive definition of what a line does is worth.  A telling    *)
(* gives every task the outcomes it can have; TaskDoes makes a telling of    *)
(* another one and grows with it, so that it has a least fixed point: Does   *)
(* is well defined, also if files run themselves.                            *)

Tellings == [Tasks -> SUBSET Outcomes]

\* The results, and what is no result.
LEMMA ResultTypes ==
    /\ \A ok, keep \in BOOLEAN : Result(ok, keep) \in Results
    /\ None \notin Results /\ Result(TRUE, FALSE) # None
    /\ DOMAIN Outcome = {"quiet", "say", "fail"}
    /\ \A kind \in DOMAIN Outcome : Outcome[kind] \in Results
  <1>1. \A ok, keep \in BOOLEAN : Result(ok, keep) \in Results
    BY DEF Result, Results
  <1>2. None \notin Results
    <2>1. "none" \in DOMAIN None
      BY DEF None
    <2>2. \A r \in Results : DOMAIN r = {"ok", "keep"}
      BY DEF Results
    <2> QED
      BY <2>1, <2>2
  <1>3. Result(TRUE, FALSE) # None
    BY <1>1, <1>2
  <1>4. DOMAIN Outcome = {"quiet", "say", "fail"}
    BY DEF Outcome
  <1>5. \A kind \in DOMAIN Outcome : Outcome[kind] \in Results
    <2>1. /\ Outcome["quiet"] = Result(TRUE, FALSE) /\ Outcome["say"] = Result(TRUE, TRUE)
          /\ Outcome["fail"] = Result(FALSE, FALSE)
      BY DEF Outcome
    <2> QED
      BY <1>1, <1>4, <2>1
  <1> QED
    BY <1>1, <1>2, <1>3, <1>4, <1>5

\* What is left to do of a line, a file and an output.
LEMMA TaskTypes ==
    ASSUME NEW t \in Tab, NEW res \in Results
    PROVE  /\ \A commands \in Seq(AnyCommand), bang \in BOOLEAN : LineTask(t, commands, res, bang) \in Tasks
           /\ \A lines \in Seq(AnyLine) : /\ FileTask(t, lines, res) \in Tasks
                                          /\ ShellTask(t, lines, res) \in Tasks
  BY DEF LineTask, FileTask, ShellTask, Tasks

\* One outcome after the other.
LEMMA ThenType ==
    ASSUME NEW done \in Seq(Entries), NEW res, NEW left \in Seq(Seq(AnyLine)), NEW o \in Outcomes
    PROVE  /\ Then(Did(done, res, left), o) \in Outcomes
           /\ Then(Did(done, res, left), o) =
                 Did(done \o o.done, o.res, IF o.left = <<>> THEN left ELSE o.left)
  <1>1. o.done \in Seq(Entries) /\ o.res \in Results /\ o.left \in Seq(Seq(AnyLine))
    BY DEF Outcomes
  <1> DEFINE all == done \o o.done
             new == IF o.left = <<>> THEN left ELSE o.left
  <1>2. all \in Seq(Entries) /\ new \in Seq(Seq(AnyLine))
    BY <1>1, ConcatProperties
  <1>3. Then(Did(done, res, left), o) = Did(all, o.res, new)
    BY DEF Then, Did
  <1> HIDE DEF all, new
  <1>4. Did(all, o.res, new) \in Outcomes
    BY <1>1, <1>2 DEF Did, Outcomes
  <1> QED
    BY <1>3, <1>4 DEF all, new

\* The commands that run other lines.
Nested == {"source", "shellex", "tabopen"}
CommandKinds ==
    {"set", "quiet", "say", "fail"} \cup Nested

\* What they run is a task.
LEMMA CallTypes ==
    ASSUME NEW t \in Tab, NEW c \in AnyCommand, c.kind \in Nested
    PROVE  Calls(t, c) \subseteq Tasks
  <1>1. IsCommand(c) /\ Config \in Seq(AnyLine)
    BY ExAssumption
  <1>2. /\ c.kind = "source" => Files[c.file] \in Seq(AnyLine)
        /\ c.kind = "shellex" => c.output \in Seq(AnyLine)
    BY <1>1, ExAssumption DEF IsCommand
  <1>3. Result(TRUE, FALSE) \in Results
    BY ResultTypes
  <1> QED
    BY <1>1, <1>2, <1>3, TaskTypes DEF Calls, Nested

\* What a command does: it returns a result, or what its calls do.
LEMMA CommandParts ==
    ASSUME NEW does, NEW t, NEW c, NEW bang, c.kind \in CommandKinds
    PROVE  \A first : first \in CommandDoes(does, t, c, bang) <=>
              \/ c.kind = "set" /\ \E res \in Results : ~Stops(res) /\ first = RanOne(t, c, bang, res)
              \/ c.kind \in DOMAIN Outcome /\ first = RanOne(t, c, bang, Outcome[c.kind])
              \/ /\ c.kind \in Nested
                 /\ \E x \in Calls(t, c) : \E o \in does[x] :
                       first = Then(RanOne(t, c, bang, None), Did(o.done, Value(c, o.res), o.left))
  <1> DEFINE Both(o) == Then(RanOne(t, c, bang, None), Did(o.done, Value(c, o.res), o.left))
             all == UNION {does[call] : call \in Calls(t, c)}
  <1>1. DOMAIN Outcome = {"quiet", "say", "fail"}
    BY ResultTypes
  <1>2. CASE c.kind = "set"
    <2>1. CommandDoes(does, t, c, bang) = {RanOne(t, c, bang, res) : res \in {r \in Results : ~Stops(r)}}
      BY <1>1, <1>2 DEF CommandDoes
    <2> QED
      BY <1>1, <1>2, <2>1 DEF Nested
  <1>3. CASE c.kind \in DOMAIN Outcome
    <2>1. CommandDoes(does, t, c, bang) = {RanOne(t, c, bang, Outcome[c.kind])}
      BY <1>1, <1>3 DEF CommandDoes
    <2> QED
      BY <1>1, <1>3, <2>1 DEF Nested
  <1>4. CASE c.kind \in Nested
    <2>1. CommandDoes(does, t, c, bang) = {Both(o) : o \in all}
      BY <1>1, <1>4 DEF CommandDoes, Nested
    <2>2. \A first : first \in {Both(o) : o \in all}
                       <=> \E x \in Calls(t, c) : \E o \in does[x] : first = Both(o)
      <3> HIDE DEF Both
      <3> QED
        OBVIOUS
    <2> HIDE DEF Both, all
    <2>3. c.kind # "set" /\ c.kind \notin DOMAIN Outcome
      BY <1>1, <1>4 DEF Nested
    <2>4. \A first : first \in CommandDoes(does, t, c, bang)
                       <=> \E x \in Calls(t, c) : \E o \in does[x] : first = Both(o)
      BY <2>1, <2>2, Zenon
    <2> QED
      BY <1>4, <2>3, <2>4 DEF Both
  <1> QED
    BY <1>1, <1>2, <1>3, <1>4 DEF CommandKinds

\* If the calls do more, so does the command.
LEMMA CommandGrows ==
    ASSUME NEW d \in Tellings, NEW e \in Tellings, \A x \in Tasks : d[x] \subseteq e[x],
           NEW t \in Tab, NEW c \in AnyCommand, NEW bang, c.kind \in CommandKinds,
           NEW first \in CommandDoes(d, t, c, bang)
    PROVE  first \in CommandDoes(e, t, c, bang) /\ first.res \in Results
  <1> DEFINE Both(o) == Then(RanOne(t, c, bang, None), Did(o.done, Value(c, o.res), o.left))
             Leaf == \/ c.kind = "set" /\ \E res \in Results : ~Stops(res) /\ first = RanOne(t, c, bang, res)
                     \/ c.kind \in DOMAIN Outcome /\ first = RanOne(t, c, bang, Outcome[c.kind])
  <1>1. CASE Leaf
    <2>1. first \in CommandDoes(e, t, c, bang)
      BY <1>1, CommandParts
    <2>2. \E res \in Results : first = RanOne(t, c, bang, res)
      BY <1>1, ResultTypes
    <2> QED
      BY <2>1, <2>2 DEF RanOne, Did
  <1>2. CASE c.kind \in Nested /\ \E x \in Calls(t, c) : \E o \in d[x] : first = Both(o)
    <2>1. PICK x \in Calls(t, c) : \E o \in d[x] : first = Both(o)
      BY <1>2
    <2>2. PICK o \in d[x] : first = Both(o)
      BY <2>1
    <2>3. x \in Tasks
      BY <1>2, CallTypes
    <2>4. o \in e[x] /\ o \in Outcomes
      BY <2>3 DEF Tellings
    <2> HIDE DEF Both
    <2>5. \E y \in Calls(t, c) : \E p \in e[y] : first = Both(p)
      BY <2>2, <2>4
    <2>6. first \in CommandDoes(e, t, c, bang)
      BY <1>2, <2>5, CommandParts DEF Both
    <2>7. first.res \in Results
      BY <2>2, <2>4, ResultTypes DEF Both, Then, Did, Value, Outcomes
    <2> QED
      BY <2>6, <2>7
  <1> QED
    BY <1>1, <1>2, CommandParts

\* The commands of a line are of these kinds, or unknown.
LEMMA KindsOfCommands ==
    ASSUME NEW c \in AnyCommand
    PROVE  IsCommand(c) /\ c.kind \in CommandKinds \cup {"unknown"}
  BY ExAssumption DEF IsCommand, CommandKinds, Nested

\* If the tasks do more, so does what is made of them.
LEMMA TaskGrows ==
    ASSUME NEW d \in Tellings, NEW e \in Tellings, \A x \in Tasks : d[x] \subseteq e[x], NEW x \in Tasks
    PROVE  TaskDoes(d, x) \subseteq TaskDoes(e, x)
  <1> SUFFICES ASSUME x.items # <<>>
               PROVE  TaskDoes(d, x) \subseteq TaskDoes(e, x)
    BY DEF TaskDoes
  <1>0. /\ x.tab \in Tab /\ x.res \in Results /\ x.bang \in BOOLEAN
        /\ \/ x.kind = "line" /\ x.items \in Seq(AnyCommand)
           \/ x.kind \in {"file", "shell"} /\ x.items \in Seq(AnyLine)
    BY DEF Tasks
  <1> DEFINE first == Head(x.items)
             rest == Tail(x.items)
  <1>1. CASE x.kind = "line"
    <2>1. first \in AnyCommand /\ rest \in Seq(AnyCommand)
      BY <1>0, <1>1, HeadTailProperties
    <2> DEFINE bang == x.bang \/ first.bang
               On(does, one) == IF Stops(one.res) THEN {one}
                                ELSE {Then(one, o) : o \in does[LineTask(x.tab, rest, one.res, bang)]}
    <2>2. \A does : TaskDoes(does, x) = IF first.kind = "unknown" THEN {Did(<<>>, x.res, <<>>)}
                        ELSE UNION {On(does, one) : one \in CommandDoes(does, x.tab, first, bang)}
      BY <1>1 DEF TaskDoes, LineDoes
    <2> HIDE DEF first
    <2>3. ASSUME first.kind # "unknown", NEW one \in CommandDoes(d, x.tab, first, bang)
          PROVE  one \in CommandDoes(e, x.tab, first, bang) /\ On(d, one) \subseteq On(e, one)
      <3>1. first.kind \in CommandKinds
        BY <2>1, <2>3, KindsOfCommands
      <3>2. one \in CommandDoes(e, x.tab, first, bang) /\ one.res \in Results
        BY <1>0, <2>1, <2>3, <3>1, CommandGrows
      <3>3. bang \in BOOLEAN
        OBVIOUS
      <3> HIDE DEF bang, rest
      <3>4. LineTask(x.tab, rest, one.res, bang) \in Tasks
        BY <1>0, <2>1, <3>2, <3>3, TaskTypes
      <3> QED
        BY <3>2, <3>4
    <2> HIDE DEF On, bang, rest
    <2> QED
      BY <2>2, <2>3
  <1>2. CASE x.kind \in {"file", "shell"}
    <2>1. first \in AnyLine /\ rest \in Seq(AnyLine)
      BY <1>0, <1>2, HeadTailProperties
    <2>2. first.commands \in Seq(AnyCommand)
      BY <2>1, ExAssumption
    <2>3. NextLineDoes(d, x) \subseteq NextLineDoes(e, x) /\ NextLineDoes(d, x) \subseteq Outcomes
      <3> DEFINE line == LineTask(x.tab, Head(x.items).commands, Result(FALSE, TRUE), FALSE)
      <3>1. line \in Tasks
        BY <1>0, <2>2, ResultTypes, TaskTypes
      <3> QED
        BY <3>1 DEF NextLineDoes, Tellings
    <2>4. CASE x.kind = "file"
      <3> DEFINE res(line) == IF line.res.ok THEN x.res ELSE Result(FALSE, TRUE)
                 On(does, line) == {Then(line, o) : o \in does[FileTask(x.tab, rest, res(line))]}
      <3>1. \A does : TaskDoes(does, x) = UNION {On(does, line) : line \in NextLineDoes(does, x)}
        BY <2>4 DEF TaskDoes, FileDoes
      <3>2. ASSUME NEW line \in NextLineDoes(d, x)
            PROVE  On(d, line) \subseteq On(e, line)
        <4>1. res(line) \in Results
          BY <1>0, ResultTypes
        <4> HIDE DEF res, rest, first
        <4>2. FileTask(x.tab, rest, res(line)) \in Tasks
          BY <1>0, <2>1, <4>1, TaskTypes
        <4> QED
          BY <4>2
      <3> HIDE DEF On, first, rest
      <3> QED
        BY <2>3, <3>1, <3>2
    <2>5. CASE x.kind = "shell"
      <3> DEFINE Taken(line) == Then(Did(<<>>, x.res, <<rest>>), line)
                 Rest(does, line) == IF line.res.ok THEN does[ShellTask(x.tab, line.left[1], line.res)]
                                     ELSE OutputEnds(line.res, line.left[1])
                 On(does, line) == {Then(line, o) : o \in Rest(does, line)}
      <3>1. \A does : TaskDoes(does, x) = UNION {On(does, Taken(line)) : line \in NextLineDoes(does, x)}
        BY <2>5 DEF TaskDoes, ShellDoes
      <3>2. ASSUME NEW line \in NextLineDoes(d, x)
            PROVE  On(d, Taken(line)) \subseteq On(e, Taken(line))
        <4>1. line \in Outcomes
          BY <2>3
        <4>2. /\ Taken(line).res \in Results /\ Taken(line).left[1] \in Seq(AnyLine)
          BY <2>1, <4>1 DEF Then, Did, Outcomes
        <4> HIDE DEF Taken
        <4>3. ShellTask(x.tab, Taken(line).left[1], Taken(line).res) \in Tasks
          BY <1>0, <4>2, TaskTypes
        <4>4. Rest(d, Taken(line)) \subseteq Rest(e, Taken(line))
          BY <4>3
        <4> HIDE DEF Rest
        <4> QED
          BY <4>4
      <3> HIDE DEF On, Taken
      <3> QED
        BY <2>3, <3>1, <3>2
    <2> QED
      BY <1>2, <2>4, <2>5
  <1> QED
    BY <1>0, <1>1, <1>2

\* The recursive definition of what is done has a solution, whatever the files are,
\* also if they run each other: the least one is what all that obey it have in common.
LEMMA DoesIsSolution ==
    /\ Does \in Tellings
    /\ \A x \in Tasks : Does[x] = TaskDoes(Does, x) \cap Outcomes
  <1> DEFINE Closed(d) == \A x \in Tasks : TaskDoes(d, x) \cap Outcomes \subseteq d[x]
             least == [x \in Tasks |-> {o \in Outcomes : \A d \in Tellings : Closed(d) => o \in d[x]}]
             next == [x \in Tasks |-> TaskDoes(least, x) \cap Outcomes]
  <1>1. least \in Tellings /\ next \in Tellings
    BY DEF Tellings
  <1>2. \A d \in Tellings : Closed(d) => \A x \in Tasks : least[x] \subseteq d[x]
    OBVIOUS
  <1>3. \A x \in Tasks : \A o \in Outcomes : (\A d \in Tellings : Closed(d) => o \in d[x]) => o \in least[x]
    OBVIOUS
  <1>4. \A x \in Tasks : next[x] = TaskDoes(least, x) \cap Outcomes
    OBVIOUS
  <1> HIDE DEF least, next
  <1>5. ASSUME NEW x \in Tasks
        PROVE  next[x] \subseteq least[x]
    <2>1. ASSUME NEW o \in next[x], NEW d \in Tellings, Closed(d)
          PROVE  o \in d[x]
      <3>1. TaskDoes(least, x) \subseteq TaskDoes(d, x)
        BY <1>1, <1>2, <2>1, TaskGrows
      <3> QED
        BY <1>4, <2>1, <3>1
    <2> HIDE DEF Closed
    <2> QED
      BY <1>3, <1>4, <2>1
  <1>6. Closed(next)
    <2>1. \A x \in Tasks : TaskDoes(next, x) \subseteq TaskDoes(least, x)
      BY <1>1, <1>5, TaskGrows
    <2> QED
      BY <1>4, <2>1
  <1>7. \A x \in Tasks : least[x] = next[x]
    BY <1>1, <1>2, <1>5, <1>6
  <1>8. least = [x \in Tasks |-> TaskDoes(least, x) \cap Outcomes]
    <2>1. DOMAIN least = Tasks /\ least = [x \in Tasks |-> least[x]]
      BY <1>1 DEF Tellings
    <2> QED
      BY <1>4, <1>7, <2>1
  <1>9. \E d : d = [x \in Tasks |-> TaskDoes(d, x) \cap Outcomes]
    BY <1>8
  <1>10. Does = [x \in Tasks |-> TaskDoes(Does, x) \cap Outcomes]
    <2> DEFINE Solves(d) == d = [x \in Tasks |-> TaskDoes(d, x) \cap Outcomes]
    <2>1. Does = CHOOSE d : Solves(d)
      BY DEF Does
    <2>2. \E d : Solves(d)
      BY <1>9
    <2> HIDE DEF Solves
    <2>3. Solves(Does)
      BY <2>1, <2>2, Zenon
    <2> QED
      BY <2>3 DEF Solves
  <1> QED
    BY <1>10 DEF Tellings

-----------------------------------------------------------------------------
(* What the calls of a stack have still to do.  A moment is what was run so  *)
(* far, what was returned last, and the lines that strtok has still to give. *)

Moments == [done : Seq(Entries), res : Results, left : Seq(AnyLine)]

\* The moment after an outcome.
Later(done, lines, o) ==
    Did(done \o o.done, o.res, IF o.left = <<>> THEN lines ELSE o.left[1])

\* What a call has to do, and what its caller gets for the result of it.
TaskOf(f, lines) ==
    CASE f.kind = "line" ->
            LineTask(f.tab, SubSeq(f.line.commands, f.at, Len(f.line.commands)), f.res, f.bang)
      [] f.kind = "file" -> FileTask(f.tab, f.lines, f.res)
      [] f.kind = "shell" -> ShellTask(f.tab, IF f.first THEN f.lines ELSE lines, f.res)
IsNewTab(f) == f.kind = "file" /\ f.caller = "tabopen"
Gives(f, res) == IF IsNewTab(f) THEN Result(TRUE, FALSE) ELSE res
Given(f, o) == Did(o.done, Gives(f, o.res), o.left)

\* The moments at which a call can end that is about to do its next step, ...
Running(f, done, lines) == {Later(done, lines, Given(f, o)) : o \in Does[TaskOf(f, lines)]}

\* ... and those at which one can end that gets a result.
Resumed(f, m) ==
    CASE f.kind = "line" ->
            IF Stops(m.res) THEN {m} ELSE Running([f EXCEPT !.res = m.res], m.done, m.left)
      [] f.kind = "file" ->
            Running(IF m.res.ok THEN f ELSE [f EXCEPT !.res = Result(FALSE, TRUE)], m.done, m.left)
      [] f.kind = "shell" ->
            IF m.res.ok THEN Running([f EXCEPT !.res = m.res], m.done, m.left)
                        ELSE {Did(m.done, m.res, left) : left \in AfterFree(m.left)}

\* A call of a line that the user typed.
Sound(f) ==
    /\ f.tab \in Tab /\ f.res \in Results
    /\ \/ /\ f.kind = "line" /\ f.line \in AnyLine /\ f.at \in Nat /\ f.at >= 1 /\ f.bang \in BOOLEAN
          /\ DOMAIN f = {"kind", "tab", "line", "at", "bang", "nohist", "typed", "res"}
       \/ /\ f.kind = "file" /\ f.lines \in Seq(AnyLine) /\ f.caller \in {"source", "tabopen"}
          /\ DOMAIN f = {"kind", "tab", "lines", "caller", "res"}
       \/ /\ f.kind = "shell" /\ f.lines \in Seq(AnyLine) /\ f.first \in BOOLEAN
          /\ DOMAIN f = {"kind", "tab", "lines", "first", "res"}

\* What the calls are given is what they make of it, from the innermost one, which
\* gets a moment of Q, to the outermost one, which ends in W.
Fits(s, Q, W) ==
    \E P : /\ P[1] = Q /\ P[Len(s) + 1] \subseteq W
           /\ \A i \in 1 .. Len(s) : Sound(s[i]) /\ \A m \in P[i] : Resumed(s[i], m) \subseteq P[i + 1]

\* How a line can end, and that its calls bring it there.
Whole(t, line) ==
    {m \in Moments : \E o \in Does[LineTask(t, line.commands, Result(FALSE, TRUE), FALSE)] :
                        o.done = m.done /\ o.res = m.res}
Leads(s, done, res, lines, W) ==
    /\ \E S : s \in Seq(S)
    /\ done \in Seq(Entries) /\ lines \in Seq(AnyLine)
    /\ \/ /\ res = None /\ s # <<>> /\ Sound(s[1])
          /\ \E R : Fits(Tail(s), R, W) /\ Running(s[1], done, lines) \subseteq R
       \/ res \in Results /\ \E Q : Fits(s, Q, W) /\ Did(done, res, lines) \in Q

-----------------------------------------------------------------------------
\* One outcome behind the other.
LEMMA LaterThen ==
    ASSUME NEW done \in Seq(Entries), NEW lines,
           NEW first, first.done \in Seq(Entries), first.left \in Seq(Seq(AnyLine)), NEW o \in Outcomes,
           NEW m, m = Later(done, lines, first)
    PROVE  Later(m.done, m.left, o) = Later(done, lines, Then(first, o))
  <1> DEFINE both == Then(first, o)
  <1>1. o.done \in Seq(Entries) /\ o.left \in Seq(Seq(AnyLine))
    BY DEF Outcomes
  <1>2. /\ m.done = done \o first.done
        /\ m.left = IF first.left = <<>> THEN lines ELSE first.left[1]
    BY DEF Later, Did
  <1>3. /\ both.done = first.done \o o.done /\ both.res = o.res
        /\ both.left = IF o.left = <<>> THEN first.left ELSE o.left
    BY DEF Then, Did
  <1> HIDE DEF both
  <1>4. m.done \o o.done = done \o both.done
    <2> DEFINE a == first.done
               b == o.done
    <2>1. a \in Seq(Entries) /\ b \in Seq(Entries)
      BY <1>1
    <2> HIDE DEF a, b
    <2>2. (done \o a) \o b = done \o (a \o b)
      BY <2>1, ConcatAssociative
    <2> QED
      BY <1>2, <1>3, <2>2 DEF a, b
  <1>5. (IF o.left = <<>> THEN m.left ELSE o.left[1]) =
        (IF both.left = <<>> THEN lines ELSE both.left[1])
    BY <1>2, <1>3
  <1>6. Later(m.done, m.left, o) = Later(done, lines, both)
    BY <1>3, <1>4, <1>5 DEF Later
  <1> QED
    BY <1>6 DEF both

\* It is a moment again.
LEMMA LaterType ==
    ASSUME NEW done \in Seq(Entries), NEW lines \in Seq(AnyLine), NEW o \in Outcomes
    PROVE  Later(done, lines, o) \in Moments
  <1> DEFINE all == done \o o.done
             left == IF o.left = <<>> THEN lines ELSE o.left[1]
  <1>1. o.done \in Seq(Entries) /\ o.res \in Results /\ o.left \in Seq(Seq(AnyLine))
    BY DEF Outcomes
  <1>2. all \in Seq(Entries)
    BY <1>1, ConcatProperties
  <1>3. left \in Seq(AnyLine)
    <2>1. CASE o.left = <<>>
      BY <2>1
    <2>2. CASE o.left # <<>>
      <3>1. Len(o.left) >= 1 /\ Len(o.left) \in Nat
        BY <1>1, <2>2, EmptySeq
      <3>2. o.left[1] \in Seq(AnyLine)
        BY <1>1, <3>1, ElementOfSeq
      <3> QED
        BY <2>2, <3>2
    <2> QED
      BY <2>1, <2>2
  <1>4. Later(done, lines, o) = Did(all, o.res, left)
    BY DEF Later
  <1> HIDE DEF all, left
  <1> QED
    BY <1>1, <1>2, <1>3, <1>4 DEF Did, Moments

\* What a call has to do is a task, and it can be done.
LEMMA TaskOfCall ==
    ASSUME NEW f, Sound(f), NEW lines \in Seq(AnyLine)
    PROVE  /\ TaskOf(f, lines) \in Tasks
           /\ Does[TaskOf(f, lines)] \subseteq Outcomes
           /\ Does[TaskOf(f, lines)] = TaskDoes(Does, TaskOf(f, lines)) \cap Outcomes
           /\ \A o \in Does[TaskOf(f, lines)] : Given(f, o) \in Outcomes
  <1>1. TaskOf(f, lines) \in Tasks
    <2>1. CASE f.kind = "line"
      <3> DEFINE commands == f.line.commands
                 rest == SubSeq(commands, f.at, Len(commands))
      <3>1. commands \in Seq(AnyCommand) /\ Len(commands) \in Nat /\ f.at \in Nat /\ f.at >= 1
        BY <2>1, LineCommands DEF Sound
      <3>2. rest \in Seq(AnyCommand)
        <4> HIDE DEF commands
        <4>1. \A i \in f.at .. Len(commands) : commands[i] \in AnyCommand
          <5>1. \A i \in f.at .. Len(commands) : i \in 1 .. Len(commands)
            BY <3>1
          <5> QED
            BY <3>1, <5>1, ElementOfSeq
        <4> QED
          BY <3>1, <4>1, SubSeqProperties
      <3>3. TaskOf(f, lines) = LineTask(f.tab, rest, f.res, f.bang)
        BY <2>1 DEF TaskOf
      <3> HIDE DEF rest
      <3> QED
        BY <2>1, <3>2, <3>3, TaskTypes DEF Sound
    <2>2. CASE f.kind = "file"
      BY <2>2, TaskTypes DEF Sound, TaskOf
    <2>3. CASE f.kind = "shell"
      BY <2>3, TaskTypes DEF Sound, TaskOf
    <2> QED
      BY <2>1, <2>2, <2>3 DEF Sound
  <1>2. Does[TaskOf(f, lines)] \subseteq Outcomes
    BY <1>1, DoesIsSolution DEF Tellings
  <1>3. ASSUME NEW o \in Outcomes
        PROVE  Given(f, o) \in Outcomes
    BY ResultTypes DEF Given, Gives, Did, Outcomes
  <1> QED
    BY <1>1, <1>2, <1>3, DoesIsSolution

\* A call gives what it does, unless it is the configuration of a new tab.
LEMMA GivenSame ==
    ASSUME NEW f, ~IsNewTab(f), NEW o \in Outcomes
    PROVE  Given(f, o) = o
  BY DEF Given, Gives, Did, Outcomes

\* A task that has nothing to do.
LEMMA NothingLeft ==
    ASSUME NEW x \in Tasks, x.kind # "shell",
           x.items = <<>> \/ (x.kind = "line" /\ Head(x.items).kind = "unknown")
    PROVE  Did(<<>>, x.res, <<>>) \in Does[x]
  <1>1. Did(<<>>, x.res, <<>>) \in TaskDoes(Does, x)
    BY DEF TaskDoes, LineDoes
  <1>2. x.res \in Results
    BY DEF Tasks
  <1>3. <<>> \in Seq(Entries) /\ <<>> \in Seq(Seq(AnyLine))
    BY EmptySeq
  <1>4. Did(<<>>, x.res, <<>>) \in Outcomes
    BY <1>2, <1>3 DEF Did, Outcomes
  <1> QED
    BY <1>1, <1>4, DoesIsSolution

\* A call that has nothing to do can end at once.
LEMMA CallOver ==
    ASSUME NEW f, Sound(f), f.kind # "shell", NEW done \in Seq(Entries), NEW lines \in Seq(AnyLine),
           NEW x, x = TaskOf(f, lines),
           x.items = <<>> \/ (x.kind = "line" /\ Head(x.items).kind = "unknown")
    PROVE  Did(done, Gives(f, f.res), lines) \in Running(f, done, lines)
  <1> DEFINE o == Did(<<>>, x.res, <<>>)
  <1>1. x \in Tasks
    BY TaskOfCall
  <1>2. x.res = f.res /\ x.kind # "shell"
    BY DEF TaskOf, LineTask, FileTask, ShellTask, Sound
  <1>3. o \in Does[x]
    BY <1>1, <1>2, NothingLeft
  <1>4. Later(done, lines, Given(f, o)) = Did(done, Gives(f, f.res), lines)
    <2>1. done \o <<>> = done
      BY ConcatEmptySeq
    <2>2. Given(f, o) = Did(<<>>, Gives(f, f.res), <<>>)
      BY <1>2 DEF Given, Did
    <2>3. \A res : Later(done, lines, Did(<<>>, res, <<>>)) = Did(done \o <<>>, res, lines)
      BY DEF Later, Did
    <2> HIDE DEF o
    <2> QED
      BY <2>1, <2>2, <2>3
  <1> HIDE DEF o
  <1> QED
    BY <1>3, <1>4 DEF Running

\* What a frame is with another result, or with its next command taken.
LEMMA SoundFrames ==
    ASSUME NEW f, Sound(f), NEW res \in Results
    PROVE  LET g == [f EXCEPT !.res = res]
           IN  /\ Sound(g) /\ g.kind = f.kind /\ g.tab = f.tab /\ g.res = res
               /\ IsNewTab(g) <=> IsNewTab(f)
               /\ f.kind = "line" => g.line = f.line /\ g.at = f.at /\ g.bang = f.bang
               /\ f.kind = "file" => g.lines = f.lines
               /\ f.kind = "shell" => g.lines = f.lines /\ g.first = f.first
  <1> DEFINE g == [f EXCEPT !.res = res]
  <1>1. CASE f.kind = "line"
    <2>1. /\ DOMAIN g = DOMAIN f /\ g.kind = "line" /\ g.tab = f.tab /\ g.res = res
          /\ g.line = f.line /\ g.at = f.at /\ g.bang = f.bang
      BY <1>1 DEF Sound
    <2> HIDE DEF g
    <2>2. Sound(g) /\ ~IsNewTab(g) /\ ~IsNewTab(f)
      BY <1>1, <2>1 DEF Sound, IsNewTab
    <2> QED
      BY <1>1, <2>1, <2>2 DEF g
  <1>2. CASE f.kind = "file"
    <2>1. /\ DOMAIN g = DOMAIN f /\ g.kind = "file" /\ g.tab = f.tab /\ g.res = res
          /\ g.lines = f.lines /\ g.caller = f.caller
      BY <1>2 DEF Sound
    <2> HIDE DEF g
    <2>2. Sound(g) /\ (IsNewTab(g) <=> IsNewTab(f))
      BY <1>2, <2>1 DEF Sound, IsNewTab
    <2> QED
      BY <1>2, <2>1, <2>2 DEF g
  <1>3. CASE f.kind = "shell"
    <2>1. /\ DOMAIN g = DOMAIN f /\ g.kind = "shell" /\ g.tab = f.tab /\ g.res = res
          /\ g.lines = f.lines /\ g.first = f.first
      BY <1>3 DEF Sound
    <2> HIDE DEF g
    <2>2. Sound(g) /\ ~IsNewTab(g) /\ ~IsNewTab(f)
      BY <1>3, <2>1 DEF Sound, IsNewTab
    <2> QED
      BY <1>3, <2>1, <2>2 DEF g
  <1> QED
    BY <1>1, <1>2, <1>3 DEF Sound

\* A line with its next command taken.
LEMMA SoundParsed ==
    ASSUME NEW f, Sound(f), f.kind = "line"
    PROVE  /\ Sound(Parsed(f)) /\ Parsed(f).kind = "line" /\ Parsed(f).tab = f.tab
           /\ Parsed(f).line = f.line /\ Parsed(f).at = f.at + 1
           /\ Parsed(f).bang = (f.bang \/ Upcoming(f).bang) /\ Parsed(f).bang \in BOOLEAN
  <1> DEFINE g == Parsed(f)
             bang == f.bang \/ Upcoming(f).bang
  <1>0. bang \in BOOLEAN
    OBVIOUS
  <1> HIDE DEF bang
  <1>1. /\ DOMAIN g = DOMAIN f /\ g.kind = "line" /\ g.tab = f.tab /\ g.res = f.res
        /\ g.line = f.line /\ g.at = f.at + 1 /\ g.bang = bang
    BY DEF Sound, Parsed, bang
  <1> HIDE DEF g
  <1>2. Sound(g)
    BY <1>0, <1>1 DEF Sound
  <1> QED
    BY <1>0, <1>1, <1>2 DEF g, bang

\* The commands that a line has left: the next one and those behind it.
LEMMA CommandsLeft ==
    ASSUME NEW f, Sound(f), f.kind = "line", NEW rest,
           rest = SubSeq(f.line.commands, f.at, Len(f.line.commands))
    PROVE  /\ ~HasNext(f) => rest = <<>>
           /\ HasNext(f) => /\ rest # <<>> /\ Head(rest) = Upcoming(f) /\ Upcoming(f) \in AnyCommand
                            /\ Tail(rest) = SubSeq(f.line.commands, f.at + 1, Len(f.line.commands))
  <1> DEFINE s == f.line.commands
             n == Len(s)
             k == f.at
  <1>1. s \in Seq(AnyCommand) /\ n \in Nat /\ k \in Nat /\ k >= 1
    BY LineCommands DEF Sound
  <1>2. rest = SubSeq(s, k, n) /\ (HasNext(f) <=> k <= n) /\ Upcoming(f) = s[k] /\ n = Len(s)
    BY DEF HasNext, Upcoming
  <1>3. CASE ~(k <= n)
    <2> HIDE DEF s, n, k
    <2>1. SubSeq(s, k, n) = <<>>
      BY <1>1, <1>3, SubSeqEmpty
    <2> QED
      BY <1>2, <1>3, <2>1
  <1>4. CASE k <= n
    <2>1. SubSeq(s, k + 1, n) = SubSeq(f.line.commands, f.at + 1, Len(f.line.commands))
      OBVIOUS
    <2> HIDE DEF s, n, k
    <2>2. s[k] \in AnyCommand
      BY <1>1, <1>2, <1>4, ElementOfSeq
    <2>3. \A i \in k .. n : s[i] \in AnyCommand
      <3>1. \A i \in k .. n : i \in 1 .. Len(s)
        BY <1>1, <1>2
      <3> QED
        BY <1>1, <3>1, ElementOfSeq
    <2>4. /\ SubSeq(s, k, n) \in Seq(AnyCommand) /\ Len(SubSeq(s, k, n)) = n - k + 1
          /\ SubSeq(s, k, n)[1] = s[k]
      <3>1. /\ SubSeq(s, k, n) \in Seq(AnyCommand)
            /\ Len(SubSeq(s, k, n)) = IF k <= n THEN n - k + 1 ELSE 0
            /\ \A i \in 1 .. n - k + 1 : SubSeq(s, k, n)[i] = s[k + i - 1]
        BY <1>1, <2>3, SubSeqProperties
      <3>2. 1 \in 1 .. n - k + 1 /\ k + 1 - 1 = k
        BY <1>1, <1>4
      <3> QED
        BY <1>4, <3>1, <3>2
    <2>5. SubSeq(s, k, n) # <<>> /\ Head(SubSeq(s, k, n)) = s[k]
      <3> DEFINE u == SubSeq(s, k, n)
      <3>1. u \in Seq(AnyCommand) /\ Len(u) >= 1 /\ u[1] = s[k]
        BY <1>1, <1>4, <2>4
      <3> HIDE DEF u
      <3>2. u # <<>> /\ Head(u) = s[k]
        BY <3>1
      <3> QED
        BY <3>2 DEF u
    <2>6. Tail(SubSeq(s, k, n)) = SubSeq(s, k + 1, n)
      BY <1>1, <1>2, <1>4, HeadTailOfSubSeq
    <2> QED
      BY <1>2, <1>4, <2>1, <2>2, <2>5, <2>6
  <1> QED
    BY <1>3, <1>4

\* A line that has nothing left, or an unknown name before it.
LEMMA LineOver ==
    ASSUME NEW f, Sound(f), f.kind = "line", HasNext(f) => Upcoming(f).kind = "unknown",
           NEW done \in Seq(Entries), NEW lines \in Seq(AnyLine)
    PROVE  Did(done, f.res, lines) \in Running(f, done, lines)
  <1> DEFINE x == TaskOf(f, lines)
             rest == SubSeq(f.line.commands, f.at, Len(f.line.commands))
  <1>1. x.items = rest /\ x.kind = "line"
    BY DEF TaskOf, LineTask
  <1>2. rest = <<>> \/ Head(rest).kind = "unknown"
    BY CommandsLeft
  <1>3. Gives(f, f.res) = f.res
    BY DEF Gives, IsNewTab
  <1> HIDE DEF rest
  <1>4. x.items = <<>> \/ (x.kind = "line" /\ Head(x.items).kind = "unknown")
    BY <1>1, <1>2
  <1> HIDE DEF x
  <1>5. Did(done, Gives(f, f.res), lines) \in Running(f, done, lines)
    BY <1>4, CallOver DEF x
  <1> QED
    BY <1>3, <1>5

\* What a command does is an outcome.
LEMMA CommandType ==
    ASSUME NEW t \in Tab, NEW c \in AnyCommand, c.kind \in CommandKinds, NEW bang \in BOOLEAN,
           NEW first \in CommandDoes(Does, t, c, bang)
    PROVE  first \in Outcomes
  <1>0. Does \in Tellings
    BY DoesIsSolution
  <1>1. \A res \in Results \cup {None} : <<Entry(t, c, bang, res)>> \in Seq(Entries)
    <2>1. \A res \in Results \cup {None} : Entry(t, c, bang, res) \in Entries
      BY DEF Entry, Entries
    <2> QED
      BY <2>1
  <1>2. <<>> \in Seq(Seq(AnyLine))
    BY EmptySeq
  <1>3. CASE \E res \in Results : first = RanOne(t, c, bang, res)
    BY <1>1, <1>2, <1>3 DEF RanOne, Did, Outcomes
  <1>4. CASE /\ c.kind \in Nested
             /\ \E x \in Calls(t, c) : \E o \in Does[x] :
                   first = Then(RanOne(t, c, bang, None), Did(o.done, Value(c, o.res), o.left))
    <2>1. PICK x \in Calls(t, c) : \E o \in Does[x] :
                   first = Then(RanOne(t, c, bang, None), Did(o.done, Value(c, o.res), o.left))
      BY <1>4
    <2>2. PICK o \in Does[x] : first = Then(RanOne(t, c, bang, None), Did(o.done, Value(c, o.res), o.left))
      BY <2>1
    <2>3. o \in Outcomes
      BY <1>0, <1>4, CallTypes DEF Tellings
    <2> DEFINE next == Did(o.done, Value(c, o.res), o.left)
               done == <<Entry(t, c, bang, None)>>
    <2>4. next \in Outcomes
      BY <2>3, ResultTypes DEF Did, Value, Outcomes
    <2>5. done \in Seq(Entries) /\ first = Then(Did(done, None, <<>>), next)
      BY <1>1, <2>2 DEF RanOne
    <2> HIDE DEF next, done
    <2> QED
      BY <1>2, <2>4, <2>5, ThenType
  <1> QED
    BY <1>3, <1>4, CommandParts, ResultTypes

\* After its next command a line goes on to what it can come to before it.
LEMMA LineGoesOn ==
    ASSUME NEW f, Sound(f), f.kind = "line", HasNext(f), Upcoming(f).kind \in CommandKinds,
           NEW done \in Seq(Entries), NEW lines \in Seq(AnyLine),
           NEW first \in CommandDoes(Does, f.tab, Upcoming(f), Parsed(f).bang),
           NEW m, m = Later(done, lines, first)
    PROVE  Resumed(Parsed(f), m) \subseteq Running(f, done, lines)
  <1> DEFINE x == TaskOf(f, lines)
             c == Upcoming(f)
             g == Parsed(f)
             rest == SubSeq(f.line.commands, f.at + 1, Len(f.line.commands))
  <1>1. /\ Sound(g) /\ g.kind = "line" /\ g.tab = f.tab /\ g.line = f.line /\ g.at = f.at + 1
        /\ g.bang = (f.bang \/ c.bang) /\ g.bang \in BOOLEAN
    BY SoundParsed
  <1>2. /\ x.kind = "line" /\ x.tab = f.tab /\ x.bang = f.bang /\ x.items # <<>>
        /\ Head(x.items) = c /\ Tail(x.items) = rest /\ c \in AnyCommand
    BY CommandsLeft DEF TaskOf, LineTask
  <1>3. first \in Outcomes /\ f.tab \in Tab
    BY <1>1, <1>2, CommandType DEF Sound
  <1>4. m.res = first.res /\ first.done \in Seq(Entries) /\ first.left \in Seq(Seq(AnyLine))
    BY <1>3 DEF Later, Did, Outcomes
  <1>5. x \in Tasks
    BY TaskOfCall
  <1>6. ~IsNewTab(f) /\ c.kind # "unknown"
    BY DEF IsNewTab, CommandKinds, Nested
  <1> DEFINE On == IF Stops(first.res) THEN {first}
                   ELSE {Then(first, o) : o \in Does[LineTask(f.tab, rest, first.res, g.bang)]}
  <1> HIDE DEF x, c, g, rest
  <1>7. On \subseteq TaskDoes(Does, x)
    <2>1. first \in CommandDoes(Does, f.tab, c, g.bang)
      BY DEF c, g
    <2> DEFINE Rest(one) ==
                  IF Stops(one.res) THEN {one}
                  ELSE {Then(one, o) : o \in Does[LineTask(x.tab, Tail(x.items), one.res, x.bang \/ c.bang)]}
    <2>2. TaskDoes(Does, x) = UNION {Rest(one) : one \in CommandDoes(Does, x.tab, c, x.bang \/ c.bang)}
      BY <1>2, <1>6 DEF TaskDoes, LineDoes
    <2>3. Rest(first) = On
      BY <1>1, <1>2
    <2> HIDE DEF Rest, On
    <2>4. first \in CommandDoes(Does, x.tab, c, x.bang \/ c.bang)
      BY <1>1, <1>2, <2>1
    <2> QED
      BY <2>2, <2>3, <2>4
  <1>8. ASSUME NEW o \in On, o \in Outcomes
        PROVE  Later(done, lines, o) \in Running(f, done, lines)
    <2>1. o \in Does[x]
      BY <1>5, <1>7, <1>8, DoesIsSolution
    <2>2. Given(f, o) = o
      BY <1>6, <1>8, GivenSame
    <2> QED
      BY <2>1, <2>2 DEF Running, x
  <1>9. CASE Stops(first.res)
    <2>1. Resumed(g, m) = {m}
      BY <1>1, <1>4, <1>9 DEF Resumed
    <2> QED
      BY <1>3, <1>8, <1>9, <2>1 DEF g
  <1>10. CASE ~Stops(first.res)
    <2> DEFINE h == [g EXCEPT !.res = first.res]
               y == LineTask(f.tab, rest, first.res, g.bang)
    <2>1. Resumed(g, m) = Running(h, m.done, m.left)
      BY <1>1, <1>4, <1>10 DEF Resumed
    <2>2. first.res \in Results
      BY <1>3 DEF Outcomes
    <2>3. /\ Sound(h) /\ h.kind = "line" /\ h.tab = f.tab /\ h.res = first.res
          /\ h.line = f.line /\ h.at = f.at + 1 /\ h.bang = g.bang /\ ~IsNewTab(h)
      BY <1>1, <2>2, SoundFrames DEF IsNewTab
    <2> HIDE DEF h
    <2>4. TaskOf(h, m.left) = y
      BY <2>3 DEF TaskOf, rest
    <2>5. m \in Moments
      BY <1>3, LaterType
    <2>6. Does[y] \subseteq Outcomes
      BY <2>3, <2>4, <2>5, TaskOfCall DEF Moments
    <2>7. ASSUME NEW o \in Does[y]
          PROVE  Later(m.done, m.left, Given(h, o)) \in Running(f, done, lines)
      <3>1. Given(h, o) = o /\ o \in Outcomes
        BY <2>3, <2>6, <2>7, GivenSame
      <3>2. Later(m.done, m.left, o) = Later(done, lines, Then(first, o))
        BY <1>4, <3>1, LaterThen
      <3>3. Then(first, o) \in Outcomes
        <4>1. first = Did(first.done, first.res, first.left)
          BY <1>3 DEF Did, Outcomes
        <4> QED
          BY <1>4, <3>1, <4>1, ThenType
      <3>4. Then(first, o) \in On
        BY <1>10
      <3> QED
        BY <1>8, <3>1, <3>2, <3>3, <3>4
    <2> QED
      BY <2>1, <2>4, <2>7 DEF Running, g
  <1> QED
    BY <1>9, <1>10

\* The next line of a file or of an output, and what it comes to.
LEMMA NewLine ==
    ASSUME NEW t \in Tab, NEW line \in AnyLine, NEW typed \in BOOLEAN
    PROVE  LET f == LineFrame(t, line, typed)
           IN  /\ Sound(f) /\ ~IsNewTab(f)
               /\ \A lines : TaskOf(f, lines) = LineTask(t, line.commands, Result(FALSE, TRUE), FALSE)
  <1> DEFINE f == LineFrame(t, line, typed)
             commands == line.commands
  <1>1. Sound(f) /\ ~IsNewTab(f)
    <2>1. /\ f.kind = "line" /\ f.tab = t /\ f.line = line /\ f.at = 1 /\ f.bang = FALSE
          /\ f.res = Result(FALSE, TRUE)
          /\ DOMAIN f = {"kind", "tab", "line", "at", "bang", "nohist", "typed", "res"}
      BY DEF LineFrame
    <2> HIDE DEF f
    <2>2. 1 \in Nat /\ 1 >= 1
      OBVIOUS
    <2> QED
      BY <2>1, <2>2, ResultTypes DEF Sound, IsNewTab
  <1>2. commands \in Seq(AnyCommand)
    BY LineCommands
  <1>3. SubSeq(commands, 1, Len(commands)) = commands
    <2> HIDE DEF commands
    <2> QED
      BY <1>2, SubSeqFull
  <1>4. ASSUME NEW lines
        PROVE  TaskOf(f, lines) = LineTask(t, commands, Result(FALSE, TRUE), FALSE)
    BY <1>3 DEF TaskOf, LineFrame
  <1> QED
    BY <1>1, <1>4

\* A call that has a line left: what is run behind it is what the line comes to.
\* The line is given by what it returns, and by what it leaves of an output.
LEMMA BehindLine ==
    ASSUME NEW f, Sound(f), NEW done \in Seq(Entries), NEW lines \in Seq(AnyLine),
           NEW g, Sound(g), IsNewTab(g) <=> IsNewTab(f),
           NEW one \in Outcomes, NEW m, m = Later(done, lines, one),
           \A o \in Does[TaskOf(g, m.left)] : Then(one, o) \in TaskDoes(Does, TaskOf(f, lines))
    PROVE  Running(g, m.done, m.left) \subseteq Running(f, done, lines)
  <1> DEFINE x == TaskOf(f, lines)
             y == TaskOf(g, m.left)
  <1>1. m \in Moments
    BY LaterType
  <1>2. x \in Tasks /\ Does[x] = TaskDoes(Does, x) \cap Outcomes
    BY TaskOfCall
  <1>3. Does[y] \subseteq Outcomes /\ \A o \in Does[y] : Given(g, o) \in Outcomes
    BY <1>1, TaskOfCall DEF Moments
  <1>4. one.done \in Seq(Entries) /\ one.left \in Seq(Seq(AnyLine)) /\ one = Did(one.done, one.res, one.left)
    BY DEF Outcomes, Did
  <1> HIDE DEF x, y
  <1>5. ASSUME NEW o \in Does[y]
        PROVE  Later(m.done, m.left, Given(g, o)) \in Running(f, done, lines)
    <2>1. Later(m.done, m.left, Given(g, o)) = Later(done, lines, Then(one, Given(g, o)))
      BY <1>3, <1>4, LaterThen
    <2>2. Then(one, o) \in Does[x]
      <3>1. Then(one, o) \in Outcomes
        BY <1>3, <1>4, ThenType
      <3> QED
        BY <1>2, <3>1 DEF x, y
    <2>3. Then(one, Given(g, o)) = Given(f, Then(one, o))
      BY DEF Then, Given, Gives, Did
    <2> QED
      BY <2>1, <2>2, <2>3 DEF Running, x
  <1> QED
    BY <1>5 DEF Running, y

\* A file goes on behind a line of it, whether that failed or not.
LEMMA FileGoesOn ==
    ASSUME NEW f, Sound(f), f.kind = "file", f.lines # <<>>,
           NEW done \in Seq(Entries), NEW lines \in Seq(AnyLine),
           NEW m \in Running(LineFrame(f.tab, Head(f.lines), FALSE), done, lines)
    PROVE  Resumed([f EXCEPT !.lines = Tail(@)], m) \subseteq Running(f, done, lines)
  <1> DEFINE x == TaskOf(f, lines)
             g == [f EXCEPT !.lines = Tail(@)]
             line == LineFrame(f.tab, Head(f.lines), FALSE)
             task == LineTask(f.tab, Head(f.lines).commands, Result(FALSE, TRUE), FALSE)
  <1>1. f.lines \in Seq(AnyLine) /\ Head(f.lines) \in AnyLine /\ Tail(f.lines) \in Seq(AnyLine)
    BY HeadTailProperties DEF Sound
  <1>2. Sound(line) /\ ~IsNewTab(line) /\ TaskOf(line, lines) = task
    BY <1>1, NewLine DEF Sound
  <1>3. /\ Sound(g) /\ g.kind = "file" /\ g.tab = f.tab /\ g.res = f.res /\ g.lines = Tail(f.lines)
        /\ IsNewTab(g) <=> IsNewTab(f)
    <2>1. /\ DOMAIN g = DOMAIN f /\ g.kind = "file" /\ g.tab = f.tab /\ g.res = f.res
          /\ g.lines = Tail(f.lines) /\ g.caller = f.caller
      BY DEF Sound
    <2> HIDE DEF g
    <2> QED
      BY <1>1, <2>1 DEF Sound, IsNewTab
  <1>4. x = FileTask(f.tab, f.lines, f.res)
    BY DEF TaskOf
  <1>5. PICK one \in Does[task] : m = Later(done, lines, Given(line, one))
    BY <1>2 DEF Running
  <1> HIDE DEF line
  <1>6. one \in Outcomes /\ Given(line, one) = one
    BY <1>2, TaskOfCall, GivenSame
  <1>7. m = Later(done, lines, one) /\ m.res = one.res
    BY <1>5, <1>6 DEF Later, Did
  <1> DEFINE res == IF one.res.ok THEN f.res ELSE Result(FALSE, TRUE)
             h == IF one.res.ok THEN g ELSE [g EXCEPT !.res = Result(FALSE, TRUE)]
             On == {Then(one, o) : o \in Does[FileTask(f.tab, Tail(f.lines), res)]}
  <1>8. On \subseteq TaskDoes(Does, x)
    <2> DEFINE Rest(first) ==
                 {Then(first, o) : o \in Does[FileTask(x.tab, Tail(x.items),
                                                       IF first.res.ok THEN x.res ELSE Result(FALSE, TRUE))]}
    <2>1. /\ x.kind = "file" /\ x.tab = f.tab /\ x.items = f.lines /\ x.res = f.res
      BY <1>4 DEF FileTask
    <2> HIDE DEF x
    <2>2. TaskDoes(Does, x) = UNION {Rest(first) : first \in NextLineDoes(Does, x)}
      BY <2>1 DEF TaskDoes, FileDoes
    <2>3. Rest(one) = On
      BY <2>1
    <2>4. one \in NextLineDoes(Does, x)
      BY <1>5, <2>1 DEF NextLineDoes
    <2> HIDE DEF Rest, On
    <2> QED
      BY <2>2, <2>3, <2>4
  <1>9. /\ Sound(h) /\ (IsNewTab(h) <=> IsNewTab(f))
        /\ h.kind = "file" /\ h.tab = f.tab /\ h.lines = Tail(f.lines) /\ h.res = res
    <2>1. CASE one.res.ok
      BY <1>3, <2>1
    <2>2. CASE ~one.res.ok
      <3> DEFINE none == Result(FALSE, TRUE)
                 g2 == [g EXCEPT !.res = none]
      <3>1. none \in Results
        BY ResultTypes
      <3> HIDE DEF g, none
      <3>2. /\ Sound(g2) /\ (IsNewTab(g2) <=> IsNewTab(g))
            /\ g2.kind = g.kind /\ g2.tab = g.tab /\ g2.lines = g.lines /\ g2.res = none
        BY <1>3, <3>1, SoundFrames
      <3>3. h = g2 /\ res = none
        BY <2>2 DEF none
      <3> HIDE DEF h, g2, res
      <3> QED
        BY <1>3, <3>2, <3>3
    <2> QED
      BY <2>1, <2>2
  <1>10. Resumed(g, m) = Running(h, m.done, m.left)
    BY <1>3, <1>7 DEF Resumed
  <1> HIDE DEF h, g, res
  <1>11. TaskOf(h, m.left) = FileTask(f.tab, Tail(f.lines), res)
    BY <1>9 DEF TaskOf
  <1>12. Running(h, m.done, m.left) \subseteq Running(f, done, lines)
    <2>1. \A o \in Does[TaskOf(h, m.left)] : Then(one, o) \in TaskDoes(Does, TaskOf(f, lines))
      BY <1>8, <1>11
    <2> QED
      BY <1>6, <1>7, <1>9, <2>1, BehindLine
  <1> QED
    BY <1>10, <1>12 DEF g

\* A file that has no line left.
LEMMA FileOver ==
    ASSUME NEW f, Sound(f), f.kind = "file", f.lines = <<>>,
           NEW done \in Seq(Entries), NEW lines \in Seq(AnyLine)
    PROVE  Did(done, Gives(f, f.res), lines) \in Running(f, done, lines)
  <1> DEFINE x == TaskOf(f, lines)
  <1>1. x.items = <<>>
    BY DEF TaskOf, FileTask
  <1> HIDE DEF x
  <1> QED
    BY <1>1, CallOver DEF x

\* An output that has ended.
LEMMA OutputType ==
    ASSUME NEW res \in Results, NEW left \in Seq(AnyLine), NEW o, o = Did(<<>>, res, <<left>>)
    PROVE  o \in Outcomes /\ o.done = <<>> /\ o.res = res /\ o.left # <<>> /\ o.left[1] = left
  <1>1. <<>> \in Seq(Entries) /\ <<left>> \in Seq(Seq(AnyLine)) /\ <<left>> # <<>> /\ <<left>>[1] = left
    BY EmptySeq
  <1> QED
    BY <1>1 DEF Did, Outcomes

\* An output goes on behind a line of it that did not fail, with what that left.
LEMMA ShellGoesOn ==
    ASSUME NEW f, Sound(f), f.kind = "shell",
           NEW done \in Seq(Entries), NEW lines \in Seq(AnyLine),
           NEW items, items = (IF f.first THEN f.lines ELSE lines), items # <<>>,
           NEW m \in Running(LineFrame(f.tab, Head(items), FALSE), done, Tail(items))
    PROVE  Resumed([f EXCEPT !.first = FALSE, !.lines = <<>>], m) \subseteq Running(f, done, lines)
  <1> DEFINE x == TaskOf(f, lines)
             g == [f EXCEPT !.first = FALSE, !.lines = <<>>]
             line == LineFrame(f.tab, Head(items), FALSE)
             task == LineTask(f.tab, Head(items).commands, Result(FALSE, TRUE), FALSE)
  <1>1. items \in Seq(AnyLine) /\ Head(items) \in AnyLine /\ Tail(items) \in Seq(AnyLine)
    <2>1. items \in Seq(AnyLine)
      BY DEF Sound
    <2> QED
      BY <2>1, HeadTailProperties
  <1>2. Sound(line) /\ ~IsNewTab(line) /\ TaskOf(line, Tail(items)) = task
    BY <1>1, NewLine DEF Sound
  <1>3. /\ Sound(g) /\ g.kind = "shell" /\ g.tab = f.tab /\ g.res = f.res /\ g.first = FALSE
    <2>1. /\ DOMAIN g = DOMAIN f /\ g.kind = "shell" /\ g.tab = f.tab /\ g.res = f.res
          /\ g.lines = <<>> /\ g.first = FALSE
      BY DEF Sound
    <2>2. <<>> \in Seq(AnyLine)
      BY EmptySeq
    <2> HIDE DEF g
    <2> QED
      BY <2>1, <2>2 DEF Sound
  <1>4. x = ShellTask(f.tab, items, f.res)
    BY DEF TaskOf
  <1>5. PICK first \in Does[task] : m = Later(done, Tail(items), Given(line, first))
    BY <1>2 DEF Running
  <1> HIDE DEF line
  <1>6. first \in Outcomes /\ Given(line, first) = first
    BY <1>1, <1>2, TaskOfCall, GivenSame
  <1> DEFINE rest == Tail(items)
             one == Then(Did(<<>>, f.res, <<rest>>), first)
  <1>7. /\ one \in Outcomes /\ one.res = first.res
        /\ one.done = <<>> \o first.done /\ one.left # <<>>
        /\ one.left[1] = IF first.left = <<>> THEN rest ELSE first.left[1]
    <2>1. <<>> \in Seq(Entries) /\ <<rest>> \in Seq(Seq(AnyLine)) /\ <<rest>> # <<>> /\ <<rest>>[1] = rest
      BY <1>1, EmptySeq
    <2> HIDE DEF rest
    <2>2. /\ one \in Outcomes
          /\ one = Did(<<>> \o first.done, first.res, IF first.left = <<>> THEN <<rest>> ELSE first.left)
      BY <1>6, <2>1, ThenType
    <2> HIDE DEF one
    <2> QED
      BY <2>1, <2>2 DEF Did
  <1>8. m = Later(done, lines, one) /\ m.res = one.res /\ m.left = one.left[1]
    <2>1. <<>> \o first.done = first.done
      BY <1>6, ConcatEmptySeq DEF Outcomes
    <2>2. m = Did(done \o first.done, first.res, IF first.left = <<>> THEN rest ELSE first.left[1])
      BY <1>5, <1>6 DEF Later
    <2> HIDE DEF one, rest
    <2>3. Later(done, lines, one) = Did(done \o first.done, first.res, one.left[1])
      BY <1>7, <2>1 DEF Later
    <2> QED
      BY <1>7, <2>2, <2>3 DEF Did
  <1> DEFINE Behind == IF one.res.ok THEN Does[ShellTask(f.tab, one.left[1], one.res)]
                                     ELSE OutputEnds(one.res, one.left[1])
             On == {Then(one, o) : o \in Behind}
  <1>9. On \subseteq TaskDoes(Does, x)
    <2> DEFINE Taken(a) == Then(Did(<<>>, x.res, <<Tail(x.items)>>), a)
               Left(a) == IF a.res.ok THEN Does[ShellTask(x.tab, a.left[1], a.res)]
                                      ELSE OutputEnds(a.res, a.left[1])
               Rest(a) == {Then(a, o) : o \in Left(a)}
    <2>1. /\ x.kind = "shell" /\ x.tab = f.tab /\ x.items = items /\ x.res = f.res
      BY <1>4 DEF ShellTask
    <2> HIDE DEF x
    <2>2. TaskDoes(Does, x) = UNION {Rest(Taken(a)) : a \in NextLineDoes(Does, x)}
      BY <2>1 DEF TaskDoes, ShellDoes
    <2>3. Taken(first) = one
      BY <2>1
    <2> HIDE DEF one, Taken
    <2>4. Rest(one) = On
      BY <2>1
    <2>5. first \in NextLineDoes(Does, x)
      BY <1>5, <2>1 DEF NextLineDoes
    <2> HIDE DEF Rest, On
    <2> QED
      BY <2>2, <2>3, <2>4, <2>5
  <1> HIDE DEF g, one
  <1>10. CASE one.res.ok
    <2> DEFINE h == [g EXCEPT !.res = one.res]
    <2>1. Resumed(g, m) = Running(h, m.done, m.left)
      BY <1>3, <1>8, <1>10 DEF Resumed
    <2>2. one.res \in Results
      BY <1>7 DEF Outcomes
    <2>3. /\ Sound(h) /\ ~IsNewTab(h) /\ ~IsNewTab(f)
          /\ h.kind = "shell" /\ h.tab = f.tab /\ h.res = one.res /\ h.first = FALSE
      BY <1>3, <2>2, SoundFrames DEF IsNewTab
    <2> HIDE DEF h
    <2>4. TaskOf(h, m.left) = ShellTask(f.tab, one.left[1], one.res)
      BY <1>8, <2>3 DEF TaskOf
    <2>5. \A o \in Does[TaskOf(h, m.left)] : Then(one, o) \in TaskDoes(Does, TaskOf(f, lines))
      BY <1>9, <1>10, <2>4
    <2>6. Running(h, m.done, m.left) \subseteq Running(f, done, lines)
      BY <1>7, <1>8, <2>3, <2>5, BehindLine
    <2> QED
      BY <2>1, <2>6 DEF g
  <1>11. CASE ~one.res.ok
    <2>1. Resumed(g, m) = {Did(m.done, m.res, left) : left \in AfterFree(m.left)}
      BY <1>3, <1>11, <1>8 DEF Resumed
    <2>2. m.left \in Seq(AnyLine) /\ m.res \in Results /\ m.done \in Seq(Entries)
      BY <1>7, <1>8, LaterType DEF Moments
    <2>3. ASSUME NEW left \in AfterFree(m.left)
          PROVE  Did(m.done, m.res, left) \in Running(f, done, lines)
      <3> DEFINE o == Did(<<>>, one.res, <<left>>)
                 both == Then(one, o)
      <3>1. left \in Seq(AnyLine)
        BY <2>2, <2>3, FreedType
      <3>2. /\ o \in Outcomes /\ o.done = <<>> /\ o.res = one.res /\ o.left # <<>> /\ o.left[1] = left
        BY <1>8, <2>2, <3>1, OutputType
      <3>3. o \in Behind
        BY <1>8, <1>11, <2>3 DEF OutputEnds
      <3> HIDE DEF Behind, o
      <3>4. both \in On
        BY <3>3
      <3>5. both \in TaskDoes(Does, x)
        BY <1>9, <3>4
      <3>6. one.done \in Seq(Entries) /\ one.left \in Seq(Seq(AnyLine)) /\ one = Did(one.done, one.res, one.left)
        BY <1>7 DEF Outcomes, Did
      <3>7. both \in Outcomes
        BY <3>2, <3>6, ThenType
      <3>8. Later(m.done, m.left, o) = Later(done, lines, both)
        BY <1>8, <3>2, <3>6, LaterThen
      <3>9. Later(m.done, m.left, o) = Did(m.done, m.res, left)
        <4>1. m.done \o <<>> = m.done
          BY <2>2, ConcatEmptySeq
        <4> QED
          BY <1>8, <3>2, <4>1 DEF Later
      <3> HIDE DEF both
      <3>10. both \in Does[x] /\ Given(f, both) = both
        BY <3>5, <3>7, TaskOfCall, GivenSame DEF IsNewTab
      <3> QED
        BY <3>8, <3>9, <3>10 DEF Running
    <2> QED
      BY <2>1, <2>3 DEF g
  <1> QED
    BY <1>10, <1>11

\* An output that has no line left.
LEMMA ShellOver ==
    ASSUME NEW f, Sound(f), f.kind = "shell",
           NEW done \in Seq(Entries), NEW lines \in Seq(AnyLine),
           (IF f.first THEN f.lines ELSE lines) = <<>>, NEW left \in AfterFree(<<>>)
    PROVE  left \in Seq(AnyLine) /\ Did(done, f.res, left) \in Running(f, done, lines)
  <1> DEFINE x == TaskOf(f, lines)
             o == Did(<<>>, f.res, <<left>>)
  <1>1. x = ShellTask(f.tab, <<>>, f.res)
    BY DEF TaskOf
  <1>2. left \in Seq(AnyLine)
    <2>1. <<>> \in Seq(AnyLine)
      BY EmptySeq
    <2> QED
      BY <2>1, FreedType
  <1>3. o \in Outcomes /\ o.done = <<>> /\ o.res = f.res /\ o.left # <<>> /\ o.left[1] = left
    BY <1>2, OutputType DEF Sound
  <1>4. o \in TaskDoes(Does, x)
    BY <1>1 DEF TaskDoes, ShellTask, OutputEnds
  <1> HIDE DEF x, o
  <1>5. o \in Does[x] /\ Given(f, o) = o
    BY <1>3, <1>4, TaskOfCall, GivenSame DEF IsNewTab, x
  <1>6. Later(done, lines, o) = Did(done, f.res, left)
    <2>1. done \o <<>> = done
      BY ConcatEmptySeq
    <2> QED
      BY <1>3, <2>1 DEF Later
  <1> QED
    BY <1>2, <1>5, <1>6 DEF Running, x

\* A command that runs other lines: behind them its line goes on.
LEMMA CallGoesOn ==
    ASSUME NEW f, Sound(f), f.kind = "line", HasNext(f), Upcoming(f).kind \in Nested,
           NEW done \in Seq(Entries), NEW lines \in Seq(AnyLine),
           NEW call, Sound(call), TaskOf(call, lines) \in Calls(f.tab, Upcoming(f)),
           \A res : Gives(call, res) = Value(Upcoming(f), res),
           NEW done2, done2 = Append(done, Entry(f.tab, Upcoming(f), Parsed(f).bang, None)),
           NEW m \in Running(call, done2, lines)
    PROVE  Resumed(Parsed(f), m) \subseteq Running(f, done, lines)
  <1> DEFINE c == Upcoming(f)
             bang == Parsed(f).bang
             e == Entry(f.tab, c, bang, None)
             x == TaskOf(call, lines)
  <1>1. c \in AnyCommand /\ bang \in BOOLEAN /\ f.tab \in Tab
    BY CommandsLeft, SoundParsed DEF Sound
  <1>2. PICK o \in Does[x] : m = Later(done2, lines, Given(call, o))
    BY DEF Running
  <1> DEFINE next == Did(o.done, Value(c, o.res), o.left)
             first == Then(RanOne(f.tab, c, bang, None), next)
  <1>3. next = Given(call, o) /\ next \in Outcomes
    BY TaskOfCall DEF Given
  <1>4. e \in Entries
    BY <1>1 DEF Entry, Entries
  <1>5. c.kind \in CommandKinds
    BY DEF CommandKinds
  <1>6. first \in CommandDoes(Does, f.tab, c, bang)
    <2> HIDE DEF bang, c
    <2>1. x \in Calls(f.tab, c)
      BY DEF c
    <2>2. \E y \in Calls(f.tab, c) : \E p \in Does[y] :
             first = Then(RanOne(f.tab, c, bang, None), Did(p.done, Value(c, p.res), p.left))
      BY <1>2, <2>1
    <2>3. c.kind \in Nested
      BY DEF c
    <2> HIDE DEF first
    <2> QED
      BY <1>5, <2>2, <2>3, CommandParts
  <1>7. m = Later(done, lines, first)
    <2> DEFINE one == RanOne(f.tab, c, bang, None)
               m1 == Later(done, lines, one)
    <2>1. one.done = <<e>> /\ one.left = <<>>
      BY DEF RanOne, Did
    <2>2. <<e>> \in Seq(Entries) /\ <<>> \in Seq(Seq(AnyLine))
      BY <1>4, EmptySeq
    <2>3. m1.done = done \o <<e>> /\ m1.left = lines
      BY <2>1 DEF Later, Did
    <2>4. done2 = Append(done, e)
      OBVIOUS
    <2> HIDE DEF e, one, next, m1
    <2>5. Later(m1.done, m1.left, next) = Later(done, lines, Then(one, next))
      <3>1. one.done \in Seq(Entries) /\ one.left \in Seq(Seq(AnyLine)) /\ next \in Outcomes
        BY <1>3, <2>1, <2>2
      <3> HIDE DEF first
      <3> QED
        BY <3>1, LaterThen DEF m1
    <2>6. done2 = done \o <<e>>
      BY <1>4, <2>4, AppendIsConcat
    <2> QED
      BY <1>2, <1>3, <2>3, <2>5, <2>6 DEF one
  <1> HIDE DEF first
  <1> QED
    BY <1>5, <1>6, <1>7, LineGoesOn

-----------------------------------------------------------------------------
(* Stacks.                                                                   *)

\* A call on a stack.
LEMMA OnStack ==
    ASSUME NEW S, NEW s \in Seq(S), NEW f
    PROVE  LET u == <<f>> \o s
           IN  /\ u \in Seq(S \cup {f}) /\ u # <<>> /\ Len(s) \in Nat /\ Len(u) = Len(s) + 1 /\ u[1] = f
               /\ Tail(u) = s /\ \A i \in 1 .. Len(s) : u[i + 1] = s[i]
  <1> DEFINE u == <<f>> \o s
  <1>1. <<f>> \in Seq(S \cup {f}) /\ s \in Seq(S \cup {f})
    BY SeqMonotonic
  <1>2. /\ u \in Seq(S \cup {f}) /\ Len(u) = Len(s) + 1 /\ Len(s) \in Nat
        /\ u[1] = f
        /\ \A i \in 2 .. Len(u) : u[i] = s[i - 1]
    BY <1>1, ConcatProperties
  <1> HIDE DEF u
  <1>3. u # <<>>
    BY <1>2
  <1>4. \A i \in 1 .. Len(s) : u[i + 1] = s[i]
    <2>1. ASSUME NEW i \in 1 .. Len(s)
          PROVE  i + 1 \in 2 .. Len(u) /\ i + 1 - 1 = i
      BY <1>2
    <2> QED
      BY <1>2, <2>1
  <1>5. Tail(u) = s
    <2>1. /\ Tail(u) \in Seq(S \cup {f}) /\ Len(Tail(u)) = Len(u) - 1
          /\ \A i \in 1 .. Len(Tail(u)) : Tail(u)[i] = u[i + 1]
      BY <1>2, <1>3, HeadTailProperties
    <2> QED
      BY <1>1, <1>2, <1>4, <2>1, SeqEqual
  <1> QED
    BY <1>2, <1>3, <1>4, <1>5 DEF u

\* Two calls on a stack.
LEMMA TwoOnStack ==
    ASSUME NEW S, NEW s \in Seq(S), NEW f, NEW g
    PROVE  <<f, g>> \o s = <<f>> \o (<<g>> \o s)
  <1>1. <<f>> \in Seq(S \cup {f, g}) /\ <<g>> \in Seq(S \cup {f, g}) /\ s \in Seq(S \cup {f, g})
    BY SeqMonotonic
  <1>2. <<f>> \o (<<g>> \o s) = (<<f>> \o <<g>>) \o s
    BY <1>1, ConcatAssociative
  <1> QED
    BY <1>2, TwoCalls

\* The innermost call gets a moment of Q and gives those of R to the ones around it.
LEMMA FitsPop ==
    ASSUME NEW S, NEW s \in Seq(S), s # <<>>, NEW Q, NEW W, Fits(s, Q, W)
    PROVE  Sound(s[1]) /\ \E R : Fits(Tail(s), R, W) /\ \A m \in Q : Resumed(s[1], m) \subseteq R
  <1>1. PICK P : /\ P[1] = Q /\ P[Len(s) + 1] \subseteq W
                 /\ \A i \in 1 .. Len(s) : Sound(s[i]) /\ \A m \in P[i] : Resumed(s[i], m) \subseteq P[i + 1]
    BY DEF Fits
  <1> DEFINE rest == Tail(s)
             P2 == [i \in 1 .. Len(s) |-> P[i + 1]]
  <1>2. /\ Len(s) \in Nat /\ Len(s) >= 1 /\ Len(rest) = Len(s) - 1
        /\ \A i \in 1 .. Len(rest) : rest[i] = s[i + 1]
    BY HeadTailProperties
  <1> HIDE DEF rest
  <1>3. 1 \in 1 .. Len(s) /\ 1 + 1 = 2
    BY <1>2
  <1>4. P2[1] = P[2] /\ P2[Len(rest) + 1] \subseteq W
    <2>1. Len(rest) + 1 = Len(s) /\ Len(s) \in 1 .. Len(s)
      BY <1>2
    <2> QED
      BY <1>1, <1>3, <2>1
  <1>5. ASSUME NEW i \in 1 .. Len(rest)
        PROVE  Sound(rest[i]) /\ \A m \in P2[i] : Resumed(rest[i], m) \subseteq P2[i + 1]
    <2>1. i \in 1 .. Len(s) /\ i + 1 \in 1 .. Len(s)
      BY <1>2
    <2>2. P2[i] = P[i + 1] /\ P2[i + 1] = P[i + 1 + 1] /\ rest[i] = s[i + 1]
      BY <1>2, <2>1
    <2> HIDE DEF P2
    <2> QED
      BY <1>1, <2>1, <2>2
  <1> HIDE DEF P2
  <1>6. Fits(rest, P[2], W)
    BY <1>4, <1>5 DEF Fits
  <1>7. Sound(s[1]) /\ \A m \in Q : Resumed(s[1], m) \subseteq P[2]
    BY <1>1, <1>3
  <1> QED
    BY <1>6, <1>7 DEF rest

\* A call is put on a stack.
LEMMA FitsPush ==
    ASSUME NEW S, NEW s \in Seq(S), NEW R, NEW W, Fits(s, R, W), NEW f, Sound(f),
           NEW Q, \A m \in Q : Resumed(f, m) \subseteq R
    PROVE  Fits(<<f>> \o s, Q, W)
  <1>1. PICK P : /\ P[1] = R /\ P[Len(s) + 1] \subseteq W
                 /\ \A i \in 1 .. Len(s) : Sound(s[i]) /\ \A m \in P[i] : Resumed(s[i], m) \subseteq P[i + 1]
    BY DEF Fits
  <1> DEFINE u == <<f>> \o s
             P2 == [i \in 1 .. Len(s) + 2 |-> IF i = 1 THEN Q ELSE P[i - 1]]
  <1>2. /\ Len(s) \in Nat /\ Len(u) = Len(s) + 1 /\ u[1] = f
        /\ \A i \in 1 .. Len(s) : u[i + 1] = s[i]
    BY OnStack
  <1> HIDE DEF u
  <1>3. P2[1] = Q /\ \A i \in 1 .. Len(s) + 1 : P2[i + 1] = P[i]
    <2>1. 1 \in 1 .. Len(s) + 2
      BY <1>2
    <2>2. ASSUME NEW i \in 1 .. Len(s) + 1
          PROVE  i + 1 \in 1 .. Len(s) + 2 /\ i + 1 # 1 /\ i + 1 - 1 = i
      BY <1>2
    <2> QED
      BY <2>1, <2>2
  <1> HIDE DEF P2
  <1>4. P2[Len(u) + 1] \subseteq W
    <2>1. Len(s) + 1 \in 1 .. Len(s) + 1
      BY <1>2
    <2> QED
      BY <1>1, <1>2, <1>3, <2>1
  <1>5. ASSUME NEW i \in 1 .. Len(u)
        PROVE  Sound(u[i]) /\ \A m \in P2[i] : Resumed(u[i], m) \subseteq P2[i + 1]
    <2>1. CASE i = 1
      <3>1. 1 \in 1 .. Len(s) + 1
        BY <1>2
      <3> QED
        BY <1>1, <1>2, <1>3, <2>1, <3>1
    <2>2. CASE i # 1
      <3> DEFINE k == i - 1
      <3>1. k \in 1 .. Len(s) /\ k \in 1 .. Len(s) + 1 /\ k + 1 \in 1 .. Len(s) + 1 /\ i = k + 1
        BY <1>2, <2>2
      <3> HIDE DEF k
      <3>2. u[i] = s[k] /\ P2[i] = P[k] /\ P2[i + 1] = P[k + 1]
        BY <1>2, <1>3, <3>1
      <3> QED
        BY <1>1, <3>1, <3>2
    <2> QED
      BY <2>1, <2>2
  <1>6. Fits(u, Q, W)
    BY <1>3, <1>4, <1>5 DEF Fits
  <1> QED
    BY <1>6 DEF u

\* No call is left.
LEMMA FitsEmpty ==
    ASSUME NEW Q, NEW W
    PROVE  Fits(<<>>, Q, W) <=> Q \subseteq W
  <1>1. Len(<<>>) = 0 /\ 0 + 1 = 1 /\ 1 .. 0 = {}
    OBVIOUS
  <1>2. ASSUME Q \subseteq W
        PROVE  Fits(<<>>, Q, W)
    <2> DEFINE P == [i \in {1} |-> Q]
    <2>1. P[1] = Q
      OBVIOUS
    <2> HIDE DEF P
    <2> QED
      BY <1>1, <1>2, <2>1 DEF Fits
  <1>3. ASSUME Fits(<<>>, Q, W)
        PROVE  Q \subseteq W
    BY <1>1, <1>3 DEF Fits
  <1> QED
    BY <1>2, <1>3

-----------------------------------------------------------------------------
(* What a step does to where the calls lead.                                 *)

\* The innermost call ends.
LEMMA LeadsPop ==
    ASSUME NEW s, NEW done, NEW lines, NEW W, Leads(s, done, None, lines, W),
           NEW res \in Results, NEW left \in Seq(AnyLine), Did(done, res, left) \in Running(s[1], done, lines)
    PROVE  Leads(Tail(s), done, res, left, W)
  <1>1. PICK S : s \in Seq(S)
    BY DEF Leads
  <1>2. PICK R : Fits(Tail(s), R, W) /\ Running(s[1], done, lines) \subseteq R
    BY ResultTypes DEF Leads
  <1>3. s # <<>>
    BY ResultTypes DEF Leads
  <1>4. Tail(s) \in Seq(S)
    BY <1>1, <1>3, HeadTailProperties
  <1> QED
    BY <1>2, <1>4 DEF Leads

\* The innermost call has run a command, and has its result.
LEMMA LeadsOn ==
    ASSUME NEW s, NEW done, NEW lines, NEW W, Leads(s, done, None, lines, W),
           NEW g, Sound(g), NEW done2 \in Seq(Entries), NEW res \in Results,
           Resumed(g, Did(done2, res, lines)) \subseteq Running(s[1], done, lines)
    PROVE  Leads(<<g>> \o Tail(s), done2, res, lines, W)
  <1> DEFINE m == Did(done2, res, lines)
             rest == Tail(s)
  <1>1. PICK S : s \in Seq(S)
    BY DEF Leads
  <1>2. PICK R : Fits(rest, R, W) /\ Running(s[1], done, lines) \subseteq R
    BY ResultTypes DEF Leads
  <1>3. s # <<>> /\ lines \in Seq(AnyLine)
    BY ResultTypes DEF Leads
  <1>4. rest \in Seq(S)
    BY <1>1, <1>3, HeadTailProperties
  <1>5. \A n \in {m} : Resumed(g, n) \subseteq R
    BY <1>2
  <1> HIDE DEF m, rest
  <1>6. Fits(<<g>> \o rest, {m}, W)
    BY <1>2, <1>4, <1>5, FitsPush
  <1>7. \E T : <<g>> \o rest \in Seq(T)
    BY <1>4, OnStack
  <1> QED
    BY <1>3, <1>6, <1>7 DEF Leads, m, rest

\* The innermost call makes a call itself.
LEMMA LeadsCall ==
    ASSUME NEW s, NEW done, NEW lines, NEW W, Leads(s, done, None, lines, W),
           NEW f, Sound(f), NEW g, Sound(g), NEW done2 \in Seq(Entries), NEW lines2 \in Seq(AnyLine),
           \A m \in Running(f, done2, lines2) : Resumed(g, m) \subseteq Running(s[1], done, lines)
    PROVE  Leads(<<f, g>> \o Tail(s), done2, None, lines2, W)
  <1> DEFINE rest == Tail(s)
             Q == Running(f, done2, lines2)
             v == <<g>> \o rest
             u == <<f>> \o v
  <1>1. PICK S : s \in Seq(S)
    BY DEF Leads
  <1>2. PICK R : Fits(rest, R, W) /\ Running(s[1], done, lines) \subseteq R
    BY ResultTypes DEF Leads
  <1>3. s # <<>>
    BY ResultTypes DEF Leads
  <1>4. rest \in Seq(S)
    BY <1>1, <1>3, HeadTailProperties
  <1>5. \A m \in Q : Resumed(g, m) \subseteq R
    BY <1>2
  <1> HIDE DEF rest, Q
  <1>6. Fits(v, Q, W)
    BY <1>2, <1>4, <1>5, FitsPush
  <1>7. v \in Seq(S \cup {g})
    BY <1>4, OnStack
  <1>8. <<f, g>> \o rest = u
    BY <1>4, TwoOnStack
  <1> HIDE DEF v
  <1>9. u \in Seq((S \cup {g}) \cup {f}) /\ u # <<>> /\ u[1] = f /\ Tail(u) = v
    BY <1>7, OnStack
  <1> HIDE DEF u
  <1>10. Leads(u, done2, None, lines2, W)
    BY <1>6, <1>9 DEF Leads, Q
  <1> QED
    BY <1>8, <1>10 DEF rest

\* The innermost call gets a result.
LEMMA LeadsTake ==
    ASSUME NEW s, NEW done, NEW res, NEW lines, NEW W, Leads(s, done, res, lines, W), res # None, s # <<>>,
           NEW m, m = Did(done, res, lines)
    PROVE  /\ Sound(s[1]) /\ res \in Results
           /\ \A left \in Seq(AnyLine) : Did(done, res, left) \in Resumed(s[1], m)
                        => Leads(Tail(s), done, res, left, W)
           /\ \A h : Sound(h) /\ Resumed(s[1], m) = Running(h, done, lines)
                        => Leads(<<h>> \o Tail(s), done, None, lines, W)
  <1> DEFINE rest == Tail(s)
  <1>1. PICK S : s \in Seq(S)
    BY DEF Leads
  <1>2. PICK Q : Fits(s, Q, W) /\ m \in Q
    BY DEF Leads
  <1>3. res \in Results /\ done \in Seq(Entries) /\ lines \in Seq(AnyLine)
    BY DEF Leads
  <1>4. Sound(s[1])
    BY <1>1, <1>2, FitsPop
  <1>5. PICK R : Fits(rest, R, W) /\ Resumed(s[1], m) \subseteq R
    BY <1>1, <1>2, FitsPop
  <1>6. rest \in Seq(S)
    BY <1>1, HeadTailProperties
  <1> HIDE DEF rest
  <1>7. \A left \in Seq(AnyLine) : Did(done, res, left) \in Resumed(s[1], m)
                        => Leads(rest, done, res, left, W)
    BY <1>3, <1>5, <1>6 DEF Leads
  <1>8. ASSUME NEW h, Sound(h), Resumed(s[1], m) = Running(h, done, lines)
        PROVE  Leads(<<h>> \o rest, done, None, lines, W)
    <2> DEFINE u == <<h>> \o rest
    <2>1. u \in Seq(S \cup {h}) /\ u # <<>> /\ u[1] = h /\ Tail(u) = rest
      BY <1>6, OnStack
    <2> HIDE DEF u
    <2>2. Leads(u, done, None, lines, W)
      BY <1>3, <1>5, <1>8, <2>1 DEF Leads
    <2> QED
      BY <2>2 DEF u
  <1> QED
    BY <1>3, <1>4, <1>7, <1>8 DEF rest

-----------------------------------------------------------------------------
(* The invariant of the order.                                               *)

\* The line that is the outermost call, and the same call with more of it done.
Based(s, t, line) ==
    s # <<>> /\ s[Len(s)].kind = "line" /\ s[Len(s)].tab = t /\ s[Len(s)].line = line
SameCall(g, f) == g.kind = f.kind /\ g.tab = f.tab /\ (f.kind = "line" => g.line = f.line)

\* Where the calls lead, in every state: to what the outermost line can come to.
Order ==
    \A t, line : Based(stack, t, line) => Leads(stack, executed, returned, tokens, Whole(t, line))

\* What is shown of a step of a call.
Led == \A t, line : Based(stack, t, line) => Leads(stack', executed', returned', tokens', Whole(t, line))
SameBase == \A t, line : Based(stack', t, line) => Based(stack, t, line)

\* The outermost call is the same when the innermost one ends, goes on or makes a call.
LEMMA BaseOfTail ==
    ASSUME NEW S, NEW s \in Seq(S), s # <<>>, NEW t, NEW line, Based(Tail(s), t, line)
    PROVE  Based(s, t, line)
  <1> DEFINE rest == Tail(s)
  <1>1. /\ rest \in Seq(S) /\ Len(s) \in Nat /\ Len(rest) = Len(s) - 1
        /\ \A i \in 1 .. Len(rest) : rest[i] = s[i + 1]
    BY HeadTailProperties
  <1>2. rest # <<>>
    BY DEF Based
  <1> HIDE DEF rest
  <1>3. Len(rest) \in 1 .. Len(rest) /\ Len(rest) + 1 = Len(s)
    BY <1>1, <1>2
  <1>4. rest[Len(rest)] = s[Len(s)]
    BY <1>1, <1>3
  <1> QED
    BY <1>4 DEF Based, rest

\* What is below another call.
LEMMA BaseUnder ==
    ASSUME NEW S, NEW s \in Seq(S), NEW f, NEW t, NEW line, Based(<<f>> \o s, t, line), s # <<>>
    PROVE  Based(s, t, line)
  <1> DEFINE u == <<f>> \o s
  <1>1. /\ Len(s) \in Nat /\ Len(u) = Len(s) + 1 /\ \A i \in 1 .. Len(s) : u[i + 1] = s[i]
    BY OnStack
  <1>2. Len(s) \in 1 .. Len(s)
    BY <1>1
  <1> HIDE DEF u
  <1>3. u[Len(u)] = s[Len(s)]
    BY <1>1, <1>2
  <1> QED
    BY <1>3 DEF Based, u

\* What is under a call that is replaced by the same one, further on.
LEMMA BaseOfSame ==
    ASSUME NEW S, NEW s \in Seq(S), s # <<>>, NEW g, SameCall(g, s[1]),
           NEW t, NEW line, Based(<<g>> \o Tail(s), t, line)
    PROVE  Based(s, t, line)
  <1> DEFINE rest == Tail(s)
             u == <<g>> \o rest
  <1>1. rest \in Seq(S) /\ Len(s) \in Nat /\ Len(s) >= 1 /\ Len(rest) = Len(s) - 1
    BY HeadTailProperties
  <1> HIDE DEF rest
  <1>2. CASE rest # <<>>
    <2>1. Based(rest, t, line)
      BY <1>1, <1>2, BaseUnder DEF rest
    <2> QED
      BY <2>1, BaseOfTail DEF rest
  <1>3. CASE rest = <<>>
    <2>1. Len(u) = Len(rest) + 1 /\ u[1] = g
      BY <1>1, OnStack
    <2>2. Len(rest) = 0
      BY <1>3
    <2>3. Len(u) = 1 /\ Len(s) = 1
      BY <1>1, <2>1, <2>2
    <2>4. Based(u, t, line)
      BY DEF rest
    <2> HIDE DEF u
    <2> QED
      BY <2>1, <2>3, <2>4 DEF Based, SameCall
  <1> QED
    BY <1>2, <1>3

\* The stack is a sequence.
LEMMA StackType ==
    ASSUME Inv
    PROVE  \E S : stack \in Seq(S)
  BY DEF Inv, StackOK, CallsOK

\* The innermost call ends.
LEMMA PopLeads ==
    ASSUME Inv, Order, stack # <<>>, returned = None, stack' = Tail(stack),
           UNCHANGED executed,
           Sound(Top) /\ executed \in Seq(Entries) /\ tokens \in Seq(AnyLine)
              => /\ returned' \in Results /\ tokens' \in Seq(AnyLine)
                 /\ Did(executed, returned', tokens') \in Running(Top, executed, tokens)
    PROVE  Led /\ SameBase
  <1>1. PICK S : stack \in Seq(S)
    BY StackType
  <1>2. SameBase
    BY <1>1, BaseOfTail DEF SameBase
  <1>3. ASSUME NEW t, NEW line, Based(stack, t, line)
        PROVE  Leads(stack', executed', returned', tokens', Whole(t, line))
    <2>1. Leads(stack, executed, None, tokens, Whole(t, line))
      BY <1>3 DEF Order
    <2>2. Sound(stack[1]) /\ executed \in Seq(Entries) /\ tokens \in Seq(AnyLine)
      BY <2>1, ResultTypes DEF Leads
    <2>3. /\ returned' \in Results /\ tokens' \in Seq(AnyLine)
          /\ Did(executed, returned', tokens') \in Running(stack[1], executed, tokens)
      BY <2>2 DEF Top
    <2> QED
      BY <2>1, <2>3, LeadsPop
  <1> QED
    BY <1>2, <1>3 DEF Led

\* The innermost call, a line, has run a command.
LEMMA OnLeads ==
    ASSUME Inv, Order, Runs("line"), Replace(Parsed(Top)), UNCHANGED tokens,
           Sound(Top) /\ executed \in Seq(Entries) /\ tokens \in Seq(AnyLine)
              => /\ executed' \in Seq(Entries) /\ returned' \in Results
                 /\ Resumed(Parsed(Top), Did(executed', returned', tokens))
                       \subseteq Running(Top, executed, tokens)
    PROVE  Led /\ SameBase
  <1>1. PICK S : stack \in Seq(S)
    BY StackType
  <1>2. stack # <<>> /\ returned = None /\ stack' = <<Parsed(Top)>> \o Tail(stack)
    BY DEF Runs, Replace
  <1>3. SameCall(Parsed(Top), stack[1])
    <2>1. FrameOK(Top, Open) /\ Top.kind = "line"
      BY <1>2, TopCall DEF Runs
    <2> QED
      BY <2>1 DEF FrameOK, Parsed, SameCall, Top
  <1>4. SameBase
    BY <1>1, <1>2, <1>3, BaseOfSame DEF SameBase
  <1>5. ASSUME NEW t, NEW line, Based(stack, t, line)
        PROVE  Leads(stack', executed', returned', tokens', Whole(t, line))
    <2>1. Leads(stack, executed, None, tokens, Whole(t, line))
      BY <1>2, <1>5 DEF Order
    <2>2. Sound(stack[1]) /\ executed \in Seq(Entries) /\ tokens \in Seq(AnyLine)
      BY <2>1, ResultTypes DEF Leads
    <2>3. /\ executed' \in Seq(Entries) /\ returned' \in Results
          /\ Resumed(Parsed(Top), Did(executed', returned', tokens))
                \subseteq Running(stack[1], executed, tokens)
      BY <2>2 DEF Top
    <2>4. Sound(Parsed(Top))
      BY <2>2, SoundParsed DEF Runs, Top
    <2> HIDE DEF Top
    <2> QED
      BY <1>2, <2>1, <2>3, <2>4, LeadsOn
  <1> QED
    BY <1>4, <1>5 DEF Led

\* The innermost call makes a call.
LEMMA CallLeads ==
    ASSUME Inv, Order, stack # <<>>, returned = None, UNCHANGED returned,
           NEW f, NEW g, PushOver(g, f), SameCall(g, Top),
           Sound(Top) /\ executed \in Seq(Entries) /\ tokens \in Seq(AnyLine)
              => /\ executed' \in Seq(Entries) /\ tokens' \in Seq(AnyLine) /\ Sound(f) /\ Sound(g)
                 /\ \A m \in Running(f, executed', tokens') :
                       Resumed(g, m) \subseteq Running(Top, executed, tokens)
    PROVE  Led /\ SameBase
  <1>1. PICK S : stack \in Seq(S)
    BY StackType
  <1> DEFINE rest == Tail(stack)
             v == <<g>> \o rest
  <1>2. stack' = <<f, g>> \o rest /\ rest \in Seq(S)
    BY <1>1, HeadTailProperties DEF PushOver
  <1>3. ASSUME NEW t, NEW line, Based(stack', t, line)
        PROVE  Based(stack, t, line)
    <2> HIDE DEF rest
    <2>1. v \in Seq(S \cup {g}) /\ v # <<>> /\ stack' = <<f>> \o v
      BY <1>2, OnStack, TwoOnStack
    <2> HIDE DEF v
    <2>2. Based(v, t, line)
      BY <1>3, <2>1, BaseUnder
    <2> QED
      BY <1>1, <2>2, BaseOfSame DEF v, rest, Top
  <1>4. ASSUME NEW t, NEW line, Based(stack, t, line)
        PROVE  Leads(stack', executed', returned', tokens', Whole(t, line))
    <2>1. Leads(stack, executed, None, tokens, Whole(t, line))
      BY <1>4 DEF Order
    <2>2. Sound(stack[1]) /\ executed \in Seq(Entries) /\ tokens \in Seq(AnyLine)
      BY <2>1, ResultTypes DEF Leads
    <2>3. /\ executed' \in Seq(Entries) /\ tokens' \in Seq(AnyLine) /\ Sound(f) /\ Sound(g)
          /\ \A m \in Running(f, executed', tokens') :
                Resumed(g, m) \subseteq Running(stack[1], executed, tokens)
      BY <2>2 DEF Top
    <2> QED
      BY <1>2, <2>1, <2>3, LeadsCall
  <1> QED
    BY <1>3, <1>4 DEF Led, SameBase

-----------------------------------------------------------------------------
(* The steps of the calls.                                                   *)

\* A line that has no command left.
LEMMA LineEndLeads ==
    ASSUME Inv, Order, LineEnd
    PROVE  Led /\ SameBase
  <1>1. /\ stack # <<>> /\ returned = None /\ Top.kind = "line" /\ ~HasNext(Top)
        /\ stack' = Tail(stack) /\ returned' = Top.res /\ UNCHANGED <<executed, tokens>>
    BY DEF LineEnd, Runs, RunStringEnds, Pop
  <1>2. ASSUME Sound(Top), executed \in Seq(Entries), tokens \in Seq(AnyLine)
        PROVE  Top.res \in Results /\ Did(executed, Top.res, tokens) \in Running(Top, executed, tokens)
    BY <1>1, <1>2, LineOver DEF Sound
  <1> QED
    BY <1>1, <1>2, PopLeads

\* A line that ends at an unknown name.
LEMMA UnknownLeads ==
    ASSUME Inv, Order, Unknown
    PROVE  Led /\ SameBase
  <1>1. /\ stack # <<>> /\ returned = None /\ Top.kind = "line" /\ Upcoming(Top).kind = "unknown"
        /\ stack' = Tail(stack) /\ returned' = [Top EXCEPT !.nohist = Parsed(Top).nohist].res
        /\ UNCHANGED <<executed, tokens>>
    BY DEF Unknown, Runs, RunStringEnds, Pop
  <1>2. ASSUME Sound(Top), executed \in Seq(Entries), tokens \in Seq(AnyLine)
        PROVE  returned' \in Results /\ Did(executed, returned', tokens) \in Running(Top, executed, tokens)
    <2>1. returned' = Top.res
      BY <1>1, <1>2 DEF Sound
    <2> QED
      BY <1>1, <1>2, <2>1, LineOver DEF Sound
  <1> QED
    BY <1>1, <1>2, PopLeads

\* A command that runs no lines.
LEMMA CommandDone ==
    ASSUME NEW f, Sound(f), f.kind = "line", HasNext(f),
           NEW done \in Seq(Entries), NEW lines \in Seq(AnyLine), NEW res \in Results,
           \/ Upcoming(f).kind = "set" /\ ~Stops(res)
           \/ Upcoming(f).kind \in DOMAIN Outcome /\ res = Outcome[Upcoming(f).kind],
           NEW done2, done2 = Append(done, Entry(f.tab, Upcoming(f), Parsed(f).bang, res))
    PROVE  /\ done2 \in Seq(Entries)
           /\ Resumed(Parsed(f), Did(done2, res, lines)) \subseteq Running(f, done, lines)
  <1> DEFINE c == Upcoming(f)
             bang == Parsed(f).bang
             e == Entry(f.tab, c, bang, res)
             first == RanOne(f.tab, c, bang, res)
  <1>1. c \in AnyCommand /\ bang \in BOOLEAN /\ f.tab \in Tab
    BY CommandsLeft, SoundParsed DEF Sound
  <1>2. e \in Entries
    BY <1>1 DEF Entry, Entries
  <1>3. done2 = Append(done, e) /\ first = Did(<<e>>, res, <<>>)
    BY DEF RanOne
  <1>4. c.kind \in CommandKinds
    BY ResultTypes DEF CommandKinds
  <1> HIDE DEF c, bang, e
  <1>5. done2 \in Seq(Entries) /\ done2 = done \o <<e>>
    BY <1>2, <1>3, AppendIsConcat
  <1>6. Later(done, lines, first) = Did(done2, res, lines)
    BY <1>3, <1>5 DEF Later, Did
  <1>7. first \in CommandDoes(Does, f.tab, c, bang)
    BY <1>4, CommandParts DEF c
  <1> HIDE DEF first
  <1> QED
    BY <1>4, <1>5, <1>6, <1>7, LineGoesOn DEF c, bang

\* What ":set" returns: it never fails without a message.
LEMMA SettingResultType ==
    ASSUME NEW t, NEW c
    PROVE  SettingResult(t, c) \in Results /\ ~Stops(SettingResult(t, c))
  <1> DEFINE yes == Accepted(c.name, Asked(t, c))
  <1>1. yes \in BOOLEAN
    BY Zenon DEF Accepted
  <1> HIDE DEF yes
  <1>2. [ok |-> yes, keep |-> ~yes] \in {Result(TRUE, FALSE), Result(FALSE, TRUE)}
    <2>1. CASE yes = TRUE
      BY <2>1 DEF Result
    <2>2. CASE yes = FALSE
      BY <2>2 DEF Result
    <2> QED
      BY <1>1, <2>1, <2>2
  <1>3. SettingResult(t, c) \in {Result(FALSE, TRUE), Result(TRUE, TRUE), [ok |-> yes, keep |-> ~yes]}
    BY DEF SettingResult, Result, yes
  <1>4. SettingResult(t, c) \in {Result(FALSE, TRUE), Result(TRUE, FALSE), Result(TRUE, TRUE)}
    BY <1>2, <1>3
  <1>5. ~Stops(Result(FALSE, TRUE)) /\ ~Stops(Result(TRUE, FALSE)) /\ ~Stops(Result(TRUE, TRUE))
    BY DEF Stops, Result
  <1> QED
    BY <1>4, <1>5, ResultTypes, Zenon

\* The command ":set".
LEMMA SetLeads ==
    ASSUME Inv, Order, ExSet
    PROVE  Led /\ SameBase
  <1> DEFINE res == SettingResult(Top.tab, Upcoming(Top))
  <1>1. /\ Runs("line") /\ HasNext(Top) /\ Upcoming(Top).kind = "set"
        /\ returned' = res /\ Ran(Top, res) /\ Replace(Parsed(Top)) /\ UNCHANGED tokens
    BY DEF ExSet
  <1>2. res \in Results /\ ~Stops(res)
    BY SettingResultType
  <1> HIDE DEF res
  <1>3. ASSUME Sound(Top), executed \in Seq(Entries), tokens \in Seq(AnyLine)
        PROVE  /\ executed' \in Seq(Entries)
               /\ Resumed(Parsed(Top), Did(executed', res, tokens)) \subseteq Running(Top, executed, tokens)
    BY <1>1, <1>2, <1>3, CommandDone DEF Ran, Runs
  <1> QED
    BY <1>1, <1>2, <1>3, OnLeads

\* A command that returns what it always does.
LEMMA ExecuteLeads ==
    ASSUME Inv, Order, Execute
    PROVE  Led /\ SameBase
  <1> DEFINE res == Outcome[Upcoming(Top).kind]
  <1>1. /\ Runs("line") /\ HasNext(Top) /\ Upcoming(Top).kind \in DOMAIN Outcome
        /\ returned' = res /\ Ran(Top, res) /\ Replace(Parsed(Top)) /\ UNCHANGED tokens
    BY DEF Execute
  <1>2. res \in Results
    BY <1>1, ResultTypes
  <1>3. ASSUME Sound(Top), executed \in Seq(Entries), tokens \in Seq(AnyLine)
        PROVE  /\ executed' \in Seq(Entries)
               /\ Resumed(Parsed(Top), Did(executed', res, tokens)) \subseteq Running(Top, executed, tokens)
    BY <1>1, <1>2, <1>3, CommandDone DEF Ran, Runs
  <1> HIDE DEF res
  <1> QED
    BY <1>1, <1>2, <1>3, OnLeads

\* A command that runs lines.
LEMMA NestedLeads ==
    ASSUME Inv, Order, Runs("line"), HasNext(Top), Upcoming(Top).kind \in Nested, Ran(Top, None),
           NEW f, PushOver(Parsed(Top), f), UNCHANGED <<tokens, returned>>,
           Sound(Top) => /\ Sound(f) /\ \A res : Gives(f, res) = Value(Upcoming(Top), res)
                         /\ TaskOf(f, tokens) \in Calls(Top.tab, Upcoming(Top))
    PROVE  Led /\ SameBase
  <1>1. stack # <<>> /\ returned = None /\ Top.kind = "line"
    BY DEF Runs
  <1>2. SameCall(Parsed(Top), Top)
    <2>1. FrameOK(Top, Open)
      BY <1>1, TopCall
    <2> QED
      BY <1>1, <2>1 DEF FrameOK, Parsed, SameCall
  <1> DEFINE e == Entry(Top.tab, Upcoming(Top), Parsed(Top).bang, None)
  <1>3. executed' = Append(executed, e)
    BY DEF Ran
  <1>4. ASSUME Sound(Top), executed \in Seq(Entries), tokens \in Seq(AnyLine)
        PROVE  /\ executed' \in Seq(Entries) /\ tokens' \in Seq(AnyLine) /\ Sound(f) /\ Sound(Parsed(Top))
               /\ \A m \in Running(f, executed', tokens') :
                     Resumed(Parsed(Top), m) \subseteq Running(Top, executed, tokens)
    <2>1. /\ Sound(Parsed(Top)) /\ Parsed(Top).bang \in BOOLEAN
          /\ Upcoming(Top) \in AnyCommand /\ Top.tab \in Tab
      BY <1>1, <1>4, SoundParsed, CommandsLeft DEF Sound
    <2>2. e \in Entries
      BY <2>1 DEF Entry, Entries
    <2>3. executed' \in Seq(Entries)
      <3> HIDE DEF e
      <3> QED
        BY <1>3, <1>4, <2>2
    <2>4. tokens' = tokens
      OBVIOUS
    <2>5. \A m \in Running(f, executed', tokens) :
             Resumed(Parsed(Top), m) \subseteq Running(Top, executed, tokens)
      BY <1>1, <1>3, <1>4, CallGoesOn
    <2> QED
      BY <1>4, <2>1, <2>3, <2>4, <2>5
  <1> QED
    BY <1>1, <1>2, <1>4, CallLeads

\* The command ":source".
LEMMA SourceLeads ==
    ASSUME Inv, Order, ExSource
    PROVE  Led /\ SameBase
  <1> DEFINE lines == Files[Upcoming(Top).file]
             f == FileFrame(Top.tab, lines, "source")
  <1>1. /\ Runs("line") /\ HasNext(Top) /\ Upcoming(Top).kind = "source" /\ Ran(Top, None)
        /\ PushOver(Parsed(Top), f) /\ UNCHANGED <<tokens, returned>>
    BY DEF ExSource
  <1>2. lines \in Seq(AnyLine)
    BY <1>1, NextCommand, ExAssumption DEF IsCommand
  <1>3. ASSUME Sound(Top)
        PROVE  /\ Sound(f) /\ \A res : Gives(f, res) = Value(Upcoming(Top), res)
               /\ TaskOf(f, tokens) \in Calls(Top.tab, Upcoming(Top))
    <2>1. /\ f.kind = "file" /\ f.tab = Top.tab /\ f.lines = lines /\ f.caller = "source"
          /\ f.res = Result(TRUE, FALSE) /\ DOMAIN f = {"kind", "tab", "lines", "caller", "res"}
      BY DEF FileFrame
    <2> HIDE DEF f, lines
    <2>2. Sound(f)
      BY <1>2, <1>3, <2>1, ResultTypes DEF Sound
    <2>3. \A res : Gives(f, res) = Value(Upcoming(Top), res)
      BY <1>1, <2>1 DEF Gives, IsNewTab, Value
    <2>4. TaskOf(f, tokens) \in Calls(Top.tab, Upcoming(Top))
      BY <1>1, <2>1 DEF TaskOf, Calls, lines
    <2> QED
      BY <2>2, <2>3, <2>4
  <1> HIDE DEF f
  <1> QED
    BY <1>1, <1>3, NestedLeads DEF Nested

\* The command ":shellex".
LEMMA ShellexLeads ==
    ASSUME Inv, Order, ExShellex
    PROVE  Led /\ SameBase
  <1> DEFINE lines == Upcoming(Top).output
             f == ShellFrame(Top.tab, lines)
  <1>1. /\ Runs("line") /\ HasNext(Top) /\ Upcoming(Top).kind = "shellex" /\ Ran(Top, None)
        /\ PushOver(Parsed(Top), f) /\ UNCHANGED <<tokens, returned>>
    BY DEF ExShellex
  <1>2. lines \in Seq(AnyLine)
    BY <1>1, NextCommand DEF IsCommand
  <1>3. ASSUME Sound(Top)
        PROVE  /\ Sound(f) /\ \A res : Gives(f, res) = Value(Upcoming(Top), res)
               /\ TaskOf(f, tokens) \in Calls(Top.tab, Upcoming(Top))
    <2>1. /\ f.kind = "shell" /\ f.tab = Top.tab /\ f.lines = lines /\ f.first = TRUE
          /\ f.res = Result(TRUE, FALSE) /\ DOMAIN f = {"kind", "tab", "lines", "first", "res"}
      BY DEF ShellFrame
    <2> HIDE DEF f, lines
    <2>2. Sound(f)
      BY <1>2, <1>3, <2>1, ResultTypes DEF Sound
    <2>3. \A res : Gives(f, res) = Value(Upcoming(Top), res)
      BY <1>1, <2>1 DEF Gives, IsNewTab, Value
    <2>4. TaskOf(f, tokens) \in Calls(Top.tab, Upcoming(Top))
      BY <1>1, <2>1 DEF TaskOf, Calls, lines
    <2> QED
      BY <2>2, <2>3, <2>4
  <1> HIDE DEF f
  <1> QED
    BY <1>1, <1>3, NestedLeads DEF Nested

\* The command ":tabopen".
LEMMA TabopenLeads ==
    ASSUME Inv, Order, ExTabopen
    PROVE  Led /\ SameBase
  <1>1. /\ Runs("line") /\ HasNext(Top) /\ Upcoming(Top).kind = "tabopen" /\ Ran(Top, None)
        /\ UNCHANGED <<tokens, returned>>
    BY DEF ExTabopen
  <1>2. PICK t \in Tab \ Open : PushOver(Parsed(Top), FileFrame(t, Config, "tabopen"))
    BY DEF ExTabopen
  <1> DEFINE f == FileFrame(t, Config, "tabopen")
  <1>3. ASSUME Sound(Top)
        PROVE  /\ Sound(f) /\ \A res : Gives(f, res) = Value(Upcoming(Top), res)
               /\ TaskOf(f, tokens) \in Calls(Top.tab, Upcoming(Top))
    <2>1. /\ f.kind = "file" /\ f.tab = t /\ f.lines = Config /\ f.caller = "tabopen"
          /\ f.res = Result(TRUE, FALSE) /\ DOMAIN f = {"kind", "tab", "lines", "caller", "res"}
      BY DEF FileFrame
    <2> HIDE DEF f
    <2>2. Sound(f)
      BY <1>2, <2>1, ResultTypes, ExAssumption DEF Sound
    <2>3. \A res : Gives(f, res) = Value(Upcoming(Top), res)
      BY <1>1, <2>1 DEF Gives, IsNewTab, Value
    <2>4. TaskOf(f, tokens) \in Calls(Top.tab, Upcoming(Top))
      BY <1>1, <1>2, <2>1 DEF TaskOf, Calls
    <2> QED
      BY <2>2, <2>3, <2>4
  <1>4. PushOver(Parsed(Top), f)
    BY <1>2
  <1> HIDE DEF f
  <1> QED
    BY <1>1, <1>3, <1>4, NestedLeads DEF Nested

\* A file that has a line left.
LEMMA FileLineLeads ==
    ASSUME Inv, Order, FileLine
    PROVE  Led /\ SameBase
  <1> DEFINE g == [Top EXCEPT !.lines = Tail(@)]
             f == LineFrame(Top.tab, Head(Top.lines), FALSE)
  <1>1. /\ stack # <<>> /\ returned = None /\ Top.kind = "file" /\ Top.lines # <<>> /\ PushOver(g, f)
        /\ UNCHANGED <<executed, tokens, returned>>
    BY DEF FileLine, Runs
  <1>2. SameCall(g, Top)
    <2>1. FrameOK(Top, Open)
      BY <1>1, TopCall
    <2> QED
      BY <1>1, <2>1 DEF FrameOK, SameCall
  <1>3. ASSUME Sound(Top), executed \in Seq(Entries), tokens \in Seq(AnyLine)
        PROVE  /\ executed' \in Seq(Entries) /\ tokens' \in Seq(AnyLine) /\ Sound(f) /\ Sound(g)
               /\ \A m \in Running(f, executed', tokens') :
                     Resumed(g, m) \subseteq Running(Top, executed, tokens)
    <2>1. /\ Top.lines \in Seq(AnyLine) /\ Head(Top.lines) \in AnyLine
          /\ Tail(Top.lines) \in Seq(AnyLine) /\ Top.tab \in Tab
      BY <1>1, <1>3, HeadTailProperties DEF Sound
    <2>2. Sound(f)
      BY <2>1, NewLine
    <2>3. Sound(g)
      <3>1. /\ DOMAIN g = DOMAIN Top /\ g.kind = "file" /\ g.tab = Top.tab /\ g.res = Top.res
            /\ g.lines = Tail(Top.lines) /\ g.caller = Top.caller
        BY <1>1, <1>3 DEF Sound
      <3> HIDE DEF g
      <3> QED
        BY <1>1, <1>3, <2>1, <3>1 DEF Sound
    <2>4. \A m \in Running(f, executed, tokens) : Resumed(g, m) \subseteq Running(Top, executed, tokens)
      BY <1>1, <1>3, FileGoesOn
    <2> HIDE DEF f, g
    <2> QED
      BY <1>1, <1>3, <2>2, <2>3, <2>4
  <1> HIDE DEF f, g
  <1> QED
    BY <1>1, <1>2, <1>3, CallLeads

\* A file that has no line left.
LEMMA FileEndLeads ==
    ASSUME Inv, Order, FileEnd
    PROVE  Led /\ SameBase
  <1>1. /\ stack # <<>> /\ returned = None /\ Top.kind = "file" /\ Top.lines = <<>>
        /\ stack' = Tail(stack) /\ UNCHANGED <<executed, tokens>>
        /\ returned' = CASE Top.caller = "source" -> Top.res
                         [] Top.caller = "tabopen" -> Result(TRUE, FALSE)
                         [] Top.caller = "none" -> None
    BY DEF FileEnd, Runs, Pop
  <1>2. ASSUME Sound(Top), executed \in Seq(Entries), tokens \in Seq(AnyLine)
        PROVE  returned' \in Results /\ Did(executed, returned', tokens) \in Running(Top, executed, tokens)
    <2>1. returned' = Gives(Top, Top.res)
      BY <1>1, <1>2 DEF Gives, IsNewTab, Sound
    <2>2. Gives(Top, Top.res) \in Results
      BY <1>2, ResultTypes DEF Gives, Sound
    <2> QED
      BY <1>1, <1>2, <2>1, <2>2, FileOver
  <1> QED
    BY <1>1, <1>2, PopLeads

\* An output that has a line left, or none.
LEMMA ShellLineLeads ==
    ASSUME Inv, Order, ShellLine
    PROVE  Led /\ SameBase
  <1> DEFINE rest == IF Top.first THEN Top.lines ELSE tokens
             g == [Top EXCEPT !.first = FALSE, !.lines = <<>>]
             f == LineFrame(Top.tab, Head(rest), FALSE)
  <1>1. /\ stack # <<>> /\ returned = None /\ Top.kind = "shell" /\ UNCHANGED executed
        /\ rest = <<>> => stack' = Tail(stack) /\ returned' = Top.res /\ tokens' \in AfterFree(<<>>)
        /\ rest # <<>> => tokens' = Tail(rest) /\ PushOver(g, f) /\ returned' = returned
    BY DEF ShellLine, Runs, Pop
  <1>2. CASE rest = <<>>
    <2>1. ASSUME Sound(Top), executed \in Seq(Entries), tokens \in Seq(AnyLine)
          PROVE  /\ Top.res \in Results /\ tokens' \in Seq(AnyLine)
                 /\ Did(executed, Top.res, tokens') \in Running(Top, executed, tokens)
      BY <1>1, <1>2, <2>1, ShellOver DEF Sound
    <2> HIDE DEF rest, g, f
    <2> QED
      BY <1>1, <1>2, <2>1, PopLeads
  <1>3. CASE rest # <<>>
    <2>1. SameCall(g, Top)
      <3>1. FrameOK(Top, Open)
        BY <1>1, TopCall
      <3> QED
        BY <1>1, <3>1 DEF FrameOK, SameCall
    <2>2. ASSUME Sound(Top), executed \in Seq(Entries), tokens \in Seq(AnyLine)
          PROVE  /\ executed' \in Seq(Entries) /\ tokens' \in Seq(AnyLine) /\ Sound(f) /\ Sound(g)
                 /\ \A m \in Running(f, executed', tokens') :
                       Resumed(g, m) \subseteq Running(Top, executed, tokens)
      <3>1. rest \in Seq(AnyLine) /\ Top.tab \in Tab
        BY <1>1, <2>2 DEF Sound
      <3>2. Head(rest) \in AnyLine /\ Tail(rest) \in Seq(AnyLine)
        <4> HIDE DEF rest
        <4> QED
          BY <1>3, <3>1, HeadTailProperties
      <3>3. \A m \in Running(f, executed, Tail(rest)) : Resumed(g, m) \subseteq Running(Top, executed, tokens)
        BY <1>1, <1>3, <2>2, ShellGoesOn
      <3> HIDE DEF rest
      <3>4. Sound(f)
        BY <3>1, <3>2, NewLine
      <3>5. Sound(g)
        <4>1. /\ DOMAIN g = DOMAIN Top /\ g.kind = "shell" /\ g.tab = Top.tab /\ g.res = Top.res
              /\ g.lines = <<>> /\ g.first = FALSE
          BY <1>1, <2>2 DEF Sound
        <4>2. <<>> \in Seq(AnyLine)
          BY EmptySeq
        <4> HIDE DEF g
        <4> QED
          BY <1>1, <2>2, <4>1, <4>2 DEF Sound
      <3> HIDE DEF f, g
      <3> QED
        BY <1>1, <1>3, <2>2, <3>2, <3>3, <3>4, <3>5
    <2> HIDE DEF rest, g, f
    <2> QED
      BY <1>1, <1>3, <2>1, <2>2, CallLeads
  <1> QED
    BY <1>2, <1>3

\* A call gets a result: it goes on, as what it is then, or it ends with it.
LEMMA TakeLeads ==
    ASSUME Inv, Order, TakeResult
    PROVE  Led /\ SameBase
  <1>1. /\ stack # <<>> /\ returned # None /\ UNCHANGED executed
        /\ Top.kind \in {"line", "file", "shell"}
        /\ Top.kind = "line" => TakeInLine
        /\ Top.kind = "file" => TakeInFile
        /\ Top.kind = "shell" => TakeInShell
    BY TopCall DEF TakeResult, FrameOK
  <1>2. PICK S : stack \in Seq(S)
    BY StackType
  <1>3. FrameOK(Top, Open)
    BY <1>1, TopCall
  <1> DEFINE h == [Top EXCEPT !.res = returned]
             failed == [Top EXCEPT !.res = Result(FALSE, TRUE)]
             next == CASE Top.kind = "line" -> h
                       [] Top.kind = "file" -> IF returned.ok THEN Top ELSE failed
                       [] Top.kind = "shell" -> h
             ends == CASE Top.kind = "line" -> Stops(returned)
                       [] Top.kind = "file" -> FALSE
                       [] Top.kind = "shell" -> ~returned.ok
  <1>4. /\ ends => /\ stack' = Tail(stack) /\ returned' = returned
                   /\ IF Top.kind = "shell" THEN tokens' \in AfterFree(tokens) ELSE tokens' = tokens
        /\ ~ends => stack' = <<next>> \o Tail(stack) /\ returned' = None /\ tokens' = tokens
    <2>1. CASE Top.kind = "line"
      <3>1. Stops(returned) => stack' = Tail(stack) /\ returned' = h.res
        BY <1>1, <2>1 DEF TakeInLine, RunStringEnds, Pop
      <3>2. h.res = returned
        BY <1>3, <2>1 DEF FrameOK
      <3>3. /\ ~Stops(returned) => stack' = <<h>> \o Tail(stack) /\ returned' = None
            /\ tokens' = tokens
        BY <1>1, <2>1 DEF TakeInLine, Replace
      <3> HIDE DEF h
      <3> QED
        BY <2>1, <3>1, <3>2, <3>3
    <2>2. CASE Top.kind = "file"
      BY <1>1, <2>2 DEF TakeInFile, Replace
    <2>3. CASE Top.kind = "shell"
      BY <1>1, <2>3 DEF TakeInShell, Replace, Pop
    <2> QED
      BY <1>1, <2>1, <2>2, <2>3
  <1>5. SameCall(next, Top)
    <2>1. SameCall(h, Top) /\ SameCall(failed, Top) /\ SameCall(Top, Top)
      BY <1>3 DEF FrameOK, SameCall
    <2> HIDE DEF h, failed
    <2> QED
      BY <1>1, <2>1
  <1>6. ASSUME NEW m, m = Did(executed, returned, tokens), Sound(Top), returned \in Results,
               tokens \in Seq(AnyLine)
        PROVE  /\ ends => tokens' \in Seq(AnyLine) /\ Did(executed, returned, tokens') \in Resumed(Top, m)
               /\ ~ends => Sound(next) /\ Resumed(Top, m) = Running(next, executed, tokens)
    <2>1. m.done = executed /\ m.res = returned /\ m.left = tokens
      BY <1>6 DEF Did
    <2>2. Sound(h) /\ Sound(failed)
      BY <1>6, ResultTypes, SoundFrames
    <2> HIDE DEF h, failed
    <2>3. CASE Top.kind = "line"
      BY <1>4, <1>6, <2>1, <2>2, <2>3 DEF Resumed, h
    <2>4. CASE Top.kind = "file"
      BY <1>6, <2>1, <2>2, <2>4 DEF Resumed, failed
    <2>5. CASE Top.kind = "shell"
      <3>1. CASE ends
        <4>1. tokens' \in AfterFree(tokens) /\ ~returned.ok
          BY <1>4, <2>5, <3>1
        <4>2. Resumed(Top, m) = {Did(m.done, m.res, left) : left \in AfterFree(m.left)}
          BY <2>1, <2>5, <4>1 DEF Resumed
        <4>3. tokens' \in Seq(AnyLine)
          BY <1>6, <4>1, FreedType
        <4> HIDE DEF ends
        <4> QED
          BY <2>1, <3>1, <4>1, <4>2, <4>3
      <3>2. CASE ~ends
        BY <1>6, <2>1, <2>2, <2>5, <3>2 DEF Resumed, h
      <3> QED
        BY <3>1, <3>2
    <2> QED
      BY <1>1, <2>3, <2>4, <2>5
  <1> HIDE DEF next, ends
  <1>7. SameBase
    BY <1>1, <1>2, <1>4, <1>5, BaseOfTail, BaseOfSame DEF SameBase, Top
  <1>8. ASSUME NEW t, NEW line, Based(stack, t, line)
        PROVE  Leads(stack', executed', returned', tokens', Whole(t, line))
    <2> DEFINE m == Did(executed, returned, tokens)
    <2>1. Leads(stack, executed, returned, tokens, Whole(t, line))
      BY <1>8 DEF Order
    <2>2. /\ Sound(stack[1]) /\ returned \in Results
          /\ \A left \in Seq(AnyLine) : Did(executed, returned, left) \in Resumed(stack[1], m)
                       => Leads(Tail(stack), executed, returned, left, Whole(t, line))
          /\ \A f : Sound(f) /\ Resumed(stack[1], m) = Running(f, executed, tokens)
                       => Leads(<<f>> \o Tail(stack), executed, None, tokens, Whole(t, line))
      BY <1>1, <2>1, LeadsTake
    <2>3. tokens \in Seq(AnyLine)
      BY <2>1 DEF Leads
    <2> HIDE DEF m
    <2>4. /\ ends => tokens' \in Seq(AnyLine) /\ Did(executed, returned, tokens') \in Resumed(stack[1], m)
          /\ ~ends => Sound(next) /\ Resumed(stack[1], m) = Running(next, executed, tokens)
      BY <1>6, <2>2, <2>3 DEF Top, m
    <2> QED
      BY <1>1, <1>4, <2>2, <2>4
  <1> QED
    BY <1>7, <1>8 DEF Led

-----------------------------------------------------------------------------
(* All steps.                                                                *)

\* A step of a call.
LEMMA CallLed ==
    ASSUME Inv, Order, Run, ~Activated
    PROVE  Led /\ SameBase
  BY LineEndLeads, UnknownLeads, SetLeads, ExecuteLeads, SourceLeads, ShellexLeads, TabopenLeads,
     FileLineLeads, FileEndLeads, ShellLineLeads, TakeLeads DEF Run

\* A stack of one call.
LEMMA OneCall ==
    ASSUME NEW f
    PROVE  /\ <<f>> \o <<>> = <<f>> /\ Len(<<f>>) = 1 /\ <<f>>[1] = f /\ Tail(<<f>>) = <<>>
           /\ \E S : <<f>> \in Seq(S)
  <1>1. <<f>> \in Seq({f}) /\ Len(<<f>>) = 1 /\ <<f>>[1] = f /\ Tail(<<f>>) = <<>>
    OBVIOUS
  <1>2. <<f>> \o <<>> = <<f>>
    BY <1>1, ConcatEmptySeq
  <1> QED
    BY <1>1, <1>2

\* The user ends a line: what it does from its start is what it can come to.
LEMMA ActivateOrder ==
    ASSUME Inv, NEW line \in Lines, InputActivate(line)
    PROVE  Order'
  <1> DEFINE f == LineFrame(current, line, TRUE)
             task == LineTask(current, line.commands, Result(FALSE, TRUE), FALSE)
             W == Whole(current, line)
  <1>1. /\ stack = <<>> /\ returned' = None /\ stack' = <<f>> \o <<>> /\ executed' = <<>> /\ tokens' = tokens
    BY DEF InputActivate, Idle, Push
  <1>2. current \in Tab /\ line \in AnyLine /\ tokens \in Seq(AnyLine)
    BY ExAssumption DEF Inv, RestOK, StackOK
  <1>3. Sound(f) /\ ~IsNewTab(f) /\ TaskOf(f, tokens) = task
    BY <1>2, NewLine
  <1>4. f.kind = "line" /\ f.tab = current /\ f.line = line
    BY DEF LineFrame
  <1> HIDE DEF f
  <1>5. stack' = <<f>> /\ Len(stack') = 1 /\ stack'[1] = f /\ Tail(stack') = <<>> /\ \E S : stack' \in Seq(S)
    BY <1>1, OneCall
  <1>6. <<>> \in Seq(Entries)
    BY EmptySeq
  <1>7. Running(f, <<>>, tokens) \subseteq W
    <2>1. ASSUME NEW o \in Does[task]
          PROVE  Later(<<>>, tokens, Given(f, o)) \in W
      <3>1. o \in Outcomes /\ Given(f, o) = o
        BY <1>2, <1>3, <2>1, TaskOfCall, GivenSame
      <3>2. <<>> \o o.done = o.done
        BY <3>1, ConcatEmptySeq DEF Outcomes
      <3>3. Later(<<>>, tokens, o) \in Moments
        BY <1>2, <1>6, <3>1, LaterType
      <3>4. Later(<<>>, tokens, o).done = o.done /\ Later(<<>>, tokens, o).res = o.res
        BY <3>2 DEF Later, Did
      <3> QED
        BY <3>1, <3>3, <3>4 DEF Whole
    <2> HIDE DEF W
    <2> QED
      BY <1>3, <2>1 DEF Running
  <1>8. Fits(<<>>, W, W)
    BY FitsEmpty
  <1>9. Leads(stack', executed', returned', tokens', W)
    <2> HIDE DEF W
    <2>1. stack' # <<>>
      BY <1>5
    <2> QED
      BY <1>1, <1>2, <1>3, <1>5, <1>6, <1>7, <1>8, <2>1 DEF Leads
  <1>10. ASSUME NEW t, NEW l, Based(stack', t, l)
         PROVE  Leads(stack', executed', returned', tokens', Whole(t, l))
    <2>1. t = current /\ l = line
      BY <1>4, <1>5, <1>10 DEF Based
    <2> QED
      BY <1>9, <2>1
  <1> QED
    BY <1>10 DEF Order

\* A stack without a line that was typed leads nowhere.
LEMMA NoLineOrder ==
    ASSUME \A t, line : ~Based(stack', t, line)
    PROVE  Order'
  BY DEF Order

\* The first tab runs a file.
LEMMA StartOrder ==
    ASSUME Inv, Start
    PROVE  stack = <<>> /\ Order'
  <1> DEFINE f == FileFrame(current, Config, "none")
  <1>1. Open = {} /\ stack' = <<f>> \o stack
    BY DEF Start, Push
  <1>2. stack = <<>>
    <2>1. ASSUME stack # <<>>
          PROVE  FALSE
      BY <1>1, <2>1, TopCall
    <2> QED
      BY <2>1
  <1>3. f.kind = "file"
    BY DEF FileFrame
  <1> HIDE DEF f
  <1>4. Len(stack') = 1 /\ stack'[1] = f
    BY <1>1, <1>2, OneCall
  <1> QED
    BY <1>2, <1>3, <1>4, NoLineOrder DEF Based

\* A reload runs a file in every tab.
LEMMA ReloadOrder ==
    ASSUME Inv, ReloadConfig
    PROVE  Order'
  <1> DEFINE tabs == SetToSeq(Open)
  <1>1. stack' = [i \in DOMAIN tabs |-> FileFrame(tabs[i], Config, "none")]
    BY DEF ReloadConfig
  <1>2. tabs \in Seq(Open)
    <2>1. IsFiniteSet(Open)
      BY ExAssumption, FS_Subset DEF Open
    <2> QED
      BY <2>1, ListOfSet
  <1> HIDE DEF tabs
  <1>3. Len(stack') = Len(tabs) /\ DOMAIN stack' = 1 .. Len(tabs) /\ Len(tabs) \in Nat
    BY <1>1, <1>2
  <1>4. \A i \in 1 .. Len(stack') : stack'[i].kind = "file"
    BY <1>1, <1>3 DEF FileFrame
  <1>5. ASSUME NEW t, NEW line, Based(stack', t, line)
        PROVE  FALSE
    <2>1. Len(stack') # 0
      <3>1. stack' = <<>> \/ Len(tabs) # 0
        BY <1>1, <1>2, <1>3
      <3> QED
        BY <1>3, <1>5, <3>1 DEF Based
    <2>2. Len(stack') \in 1 .. Len(stack')
      BY <1>3, <2>1
    <2> QED
      BY <1>4, <1>5, <2>2 DEF Based
  <1> QED
    BY <1>5, NoLineOrder

\* What a step of the program shows of a typed line that ends in it.
EndsInOrder ==
    (Len(stack) = 1 /\ Top.kind = "line" /\ stack' = <<>>)
        => \E o \in Does[LineTask(Top.tab, Top.line.commands, Result(FALSE, TRUE), FALSE)] :
              o.done = executed' /\ o.res = returned'

\* A line that ends has come to what it can come to.
LEMMA LedEnds ==
    ASSUME Inv, Led
    PROVE  EndsInOrder
  <1> SUFFICES ASSUME Len(stack) = 1, Top.kind = "line", stack' = <<>>
               PROVE  \E o \in Does[LineTask(Top.tab, Top.line.commands, Result(FALSE, TRUE), FALSE)] :
                         o.done = executed' /\ o.res = returned'
    BY DEF EndsInOrder
  <1> DEFINE W == Whole(Top.tab, Top.line)
  <1>1. stack # <<>>
    OBVIOUS
  <1>2. Based(stack, Top.tab, Top.line)
    BY <1>1 DEF Based, Top
  <1>3. Leads(<<>>, executed', returned', tokens', W)
    BY <1>2 DEF Led
  <1> HIDE DEF W
  <1>4. PICK Q : Fits(<<>>, Q, W) /\ Did(executed', returned', tokens') \in Q
    BY <1>3 DEF Leads
  <1>5. Did(executed', returned', tokens') \in W
    BY <1>4, FitsEmpty
  <1> QED
    BY <1>5 DEF W, Whole, Did

\* Every step of the program.
LEMMA OrderStep ==
    ASSUME Inv, Order, [Next]_vars
    PROVE  Order' /\ EndsInOrder
  <1>1. CASE Run /\ ~Activated
    <2>1. Led /\ SameBase
      BY <1>1, CallLed
    <2> QED
      BY <2>1, LedEnds DEF Led, SameBase, Order
  <1>2. CASE Activated
    <2>1. stack = <<>> /\ stack' = <<>>
      BY <1>2 DEF Activated
    <2>2. Order'
      BY <2>1, NoLineOrder DEF Based
    <2> QED
      BY <2>1, <2>2 DEF EndsInOrder
  <1>3. CASE Start
    <2>1. stack = <<>> /\ Order'
      BY <1>3, StartOrder
    <2> QED
      BY <2>1 DEF EndsInOrder
  <1>4. CASE \E line \in Lines : InputActivate(line)
    <2>1. stack = <<>>
      BY <1>4 DEF InputActivate, Idle
    <2> QED
      BY <1>4, <2>1, ActivateOrder DEF EndsInOrder
  <1>5. CASE ReloadConfig
    <2>1. stack = <<>>
      BY <1>5 DEF ReloadConfig, Idle
    <2> QED
      BY <1>5, <2>1, ReloadOrder DEF EndsInOrder
  <1>6. CASE \E t \in Tab : CloseTab(t)
    <2>1. stack = <<>> /\ stack' = <<>>
      BY <1>6 DEF CloseTab, Idle
    <2>2. Order'
      BY <2>1, NoLineOrder DEF Based
    <2> QED
      BY <2>1, <2>2 DEF EndsInOrder
  <1>7. CASE UNCHANGED vars
    <2>1. UNCHANGED <<stack, executed, returned, tokens>>
      BY <1>7 DEF vars, ex
    <2>2. Order'
      BY <2>1 DEF Order
    <2>3. EndsInOrder
      <3>1. Len(stack) = 1 => stack # <<>>
        OBVIOUS
      <3> QED
        BY <2>1, <3>1 DEF EndsInOrder
    <2> QED
      BY <2>2, <2>3
  <1> QED
    BY <1>1, <1>2, <1>3, <1>4, <1>5, <1>6, <1>7 DEF Next

\* Whatever lines, files and shell commands there are, and whatever they run in
\* turn: a line that the user typed runs the commands that it is made of, in their
\* order and each in its tab, up to where a failure ends it, and returns what the
\* last of them is worth; and it alone is remembered.
THEOREM CommandsRunInOrder == Spec => LinesAreRun
  <1>1. Init => Order
    BY DEF Init, Order, Based
  <1>2. Inv /\ Order /\ [Next]_vars => Order'
    BY OrderStep
  <1>3. Inv /\ Order /\ [Next]_vars
           => [(Len(stack) = 1 /\ Top.kind = "line" /\ stack' = <<>>)
               => \E o \in Does[LineTask(Top.tab, Top.line.commands, Result(FALSE, TRUE), FALSE)] :
                     o.done = executed' /\ o.res = returned']_vars
    BY OrderStep DEF EndsInOrder
  <1> QED
    BY <1>1, <1>2, <1>3, Invariance, OnlyTypedLines, PTL DEF Spec, LinesAreRun, RunsInOrder

-----------------------------------------------------------------------------
(* Lists of settings, of any length.                                         *)

\* A set that has 0 and with each number the next one has all numbers.
LEMMA AllNumbers ==
    ASSUME NEW S, 0 \in S, \A n \in Nat : n \in S => n + 1 \in S
    PROVE  Nat \subseteq S
  <1> DEFINE T == Nat \ S
  <1> SUFFICES ASSUME T # {} PROVE FALSE
    OBVIOUS
  <1>1. T \subseteq Nat
    OBVIOUS
  <1> HIDE DEF T
  <1>2. PICK x \in T : \A y \in T : x <= y
    BY <1>1, LeastNumber
  <1>3. x \in Nat /\ x # 0
    BY <1>1 DEF T
  <1>4. x - 1 \in Nat /\ (x - 1) + 1 = x /\ ~ (x <= x - 1)
    BY <1>3
  <1>5. x - 1 \in T
    BY <1>3, <1>4 DEF T
  <1> QED
    BY <1>2, <1>4, <1>5

(* n steps from a, each with its function of G.                             *)
Iterates(S, a, n, G) ==
    \E f \in [0 .. n -> S] : f[0] = a /\ \A i \in 1 .. n : f[i] = G[i][f[i - 1]]

\* A function whose values are made one from the other exists.
LEMMA Iterate ==
    ASSUME NEW S, NEW a \in S, NEW n \in Nat, NEW G \in [1 .. n -> [S -> S]]
    PROVE  Iterates(S, a, n, G)
  <1> DEFINE Good == {k \in Nat : k <= n => \E f \in [0 .. k -> S] :
                         f[0] = a /\ \A i \in 1 .. k : f[i] = G[i][f[i - 1]]}
  <1>1. 0 \in Good
    <2> DEFINE f == [i \in 0 .. 0 |-> a]
    <2>1. f \in [0 .. 0 -> S] /\ f[0] = a /\ 1 .. 0 = {}
      OBVIOUS
    <2> QED
      BY <2>1
  <1>2. ASSUME NEW k \in Nat, k \in Good PROVE k + 1 \in Good
    <2> SUFFICES ASSUME k + 1 <= n
                 PROVE  \E f \in [0 .. k + 1 -> S] :
                            f[0] = a /\ \A i \in 1 .. k + 1 : f[i] = G[i][f[i - 1]]
      OBVIOUS
    <2>1. PICK f \in [0 .. k -> S] : f[0] = a /\ \A i \in 1 .. k : f[i] = G[i][f[i - 1]]
      BY <1>2
    <2> DEFINE g == [i \in 0 .. k + 1 |-> IF i = k + 1 THEN G[k + 1][f[k]] ELSE f[i]]
    <2>2. f[k] \in S /\ G[k + 1] \in [S -> S]
      OBVIOUS
    <2>3. g \in [0 .. k + 1 -> S]
      BY <2>2
    <2>4. g[0] = a
      BY <2>1
    <2>5. ASSUME NEW i \in 1 .. k + 1 PROVE g[i] = G[i][g[i - 1]]
      <3>1. CASE i = k + 1
        <4>1. i \in 0 .. k + 1 /\ k \in 0 .. k + 1 /\ i - 1 = k /\ k # k + 1
          BY <3>1
        <4>2. g[k + 1] = G[k + 1][f[k]]
          BY <3>1, <4>1, Zenon
        <4>3. g[k] = f[k]
          BY <4>1, Zenon
        <4> QED
          BY <3>1, <4>1, <4>2, <4>3, Zenon
      <3>2. CASE i # k + 1
        <4>1. i \in 1 .. k /\ i - 1 \in 0 .. k + 1 /\ i - 1 # k + 1
          BY <3>2
        <4> QED
          BY <2>1, <4>1
      <3> QED
        BY <3>1, <3>2
    <2> HIDE DEF g
    <2> QED
      BY <2>3, <2>4, <2>5
  <1> HIDE DEF Good
  <1>3. n \in Good
    BY <1>1, <1>2, AllNumbers
  <1> QED
    BY <1>3 DEF Good, Iterates

\* What is made step by step stays in a set that the steps do not leave.
LEMMA StaysIn ==
    ASSUME NEW T, NEW n \in Nat, NEW F, F[0] \in T,
           \A i \in 1 .. n : F[i - 1] \in T => F[i] \in T
    PROVE  \A i \in 0 .. n : F[i] \in T
  <1> DEFINE Good == {k \in Nat : k <= n => F[k] \in T}
  <1>1. 0 \in Good
    OBVIOUS
  <1>2. ASSUME NEW k \in Nat, k \in Good PROVE k + 1 \in Good
    <2> SUFFICES ASSUME k + 1 <= n PROVE F[k + 1] \in T
      OBVIOUS
    <2>1. F[k] \in T /\ k + 1 \in 1 .. n /\ (k + 1) - 1 = k
      BY <1>2
    <2> QED
      BY <2>1
  <1> HIDE DEF Good
  <1>3. Nat \subseteq Good
    BY <1>1, <1>2, AllNumbers
  <1> QED
    BY <1>3 DEF Good

\* What holds of the empty text, and with a text of the one with a character more,
\* holds of all texts.
LEMMA AllTexts ==
    ASSUME NEW S, NEW Good, <<>> \in Good,
           \A s \in Seq(S) : s \in Good => \A c \in S : Append(s, c) \in Good
    PROVE  Seq(S) \subseteq Good
  <1> DEFINE Short == {n \in Nat : \A s \in Seq(S) : Len(s) = n => s \in Good}
  <1>1. 0 \in Short
    <2>1. \A s \in Seq(S) : Len(s) = 0 => s = <<>>
      BY EmptySeq
    <2> QED
      BY <2>1
  <1>2. ASSUME NEW n \in Nat, n \in Short
        PROVE  n + 1 \in Short
    <2>1. ASSUME NEW s \in Seq(S), Len(s) = n + 1
          PROVE  s \in Good
      <3>1. s # <<>>
        BY <1>2, <2>1
      <3>2. PICK t \in Seq(S), c \in S : s = Append(t, c)
        BY <3>1, SequenceEmptyOrAppend
      <3>3. Len(t) \in Nat /\ Len(s) = Len(t) + 1
        BY <3>2, AppendProperties
      <3>4. Len(t) = n
        BY <1>2, <2>1, <3>3
      <3> QED
        BY <1>2, <3>2, <3>4
    <2> QED
      BY <1>2, <2>1
  <1> HIDE DEF Short
  <1>3. Nat \subseteq Short
    BY <1>1, <1>2, AllNumbers
  <1>4. \A s \in Seq(S) : Len(s) \in Nat
    BY LenProperties
  <1> QED
    BY <1>3, <1>4 DEF Short

-----------------------------------------------------------------------------
(* The items of a list.                                                      *)

Lists(S) == {items \in Seq(Seq(S)) : items # <<>>}

\* A character more.
LEMMA CutType ==
    ASSUME NEW S, NEW items \in Lists(S), NEW c \in S
    PROVE  /\ Cut(items, c) \in Lists(S)
           /\ Len(items) \in Nat /\ Len(items) >= 1 /\ items[Len(items)] \in Seq(S)
  <1> DEFINE k == Len(items)
  <1>1. items \in Seq(Seq(S)) /\ items # <<>>
    BY DEF Lists
  <1>2. k \in Nat /\ k >= 1
    BY <1>1, EmptySeq
  <1>3. k \in 1 .. k
    BY <1>2
  <1>4. items[k] \in Seq(S)
    BY <1>1, <1>3, ElementOfSeq
  <1>5. CASE c = Sep
    <2>1. <<>> \in Seq(S)
      BY EmptySeq
    <2>2. Append(items, <<>>) \in Seq(Seq(S)) /\ Append(items, <<>>) # <<>>
      BY <1>1, <2>1, AppendProperties
    <2> QED
      BY <1>2, <1>4, <1>5, <2>2 DEF Cut, Lists
  <1>6. CASE c # Sep
    <2> DEFINE last == Append(items[k], c)
               new == [items EXCEPT ![k] = last]
    <2>1. last \in Seq(S)
      BY <1>4, AppendProperties
    <2>2. Cut(items, c) = new
      BY <1>6 DEF Cut
    <2> HIDE DEF last
    <2>3. new \in Seq(Seq(S)) /\ Len(new) = k
      BY <1>1, <1>3, <2>1, ExceptSeq
    <2> HIDE DEF new
    <2>4. new # <<>>
      BY <1>2, <2>3
    <2> QED
      BY <1>2, <1>4, <2>2, <2>3, <2>4 DEF Lists
  <1> QED
    BY <1>5, <1>6

\* The recursive definition of the pieces has a solution.
LEMMA PiecesSteps ==
    ASSUME NEW S, NEW s \in Seq(S)
    PROVE  \E F : /\ F[0] = <<<<>>>> /\ F[Len(s)] = Pieces(s)
                  /\ \A i \in 1 .. Len(s) : F[i] = Cut(F[i - 1], s[i])
                  /\ \A i \in 0 .. Len(s) : F[i] \in Lists(S)
  <1> DEFINE none == <<<<>>>>
             n == Len(s)
             T == Lists(S)
             Step(i, t) == Cut(t, s[i])
             P(F) == F = [i \in 0 .. n |-> IF i = 0 THEN none ELSE Step(i, F[i - 1])]
             G == [i \in 1 .. n |-> [t \in T |-> Step(i, t)]]
  <1>1. n \in Nat /\ none \in T
    <2>1. <<>> \in Seq(S)
      BY EmptySeq
    <2>2. <<<<>>>> \in Seq(Seq(S)) /\ <<<<>>>> # <<>>
      BY <2>1
    <2> QED
      BY <2>2 DEF Lists
  <1>2. \A i \in 1 .. n, t \in T : Step(i, t) \in T
    <2>1. ASSUME NEW i \in 1 .. n, NEW t \in T PROVE Step(i, t) \in T
      <3>1. s[i] \in S
        BY ElementOfSeq
      <3> QED
        BY <3>1, CutType
    <2> QED
      BY <2>1
  <1> HIDE DEF T, n, Step, none
  <1>3. G \in [1 .. n -> [T -> T]]
    BY <1>2
  <1>13. \A i \in 1 .. n, t \in T : G[i][t] = Step(i, t)
    BY <1>2
  <1> HIDE DEF G, P
  <1>4. PICK f \in [0 .. n -> T] : f[0] = none /\ \A i \in 1 .. n : f[i] = G[i][f[i - 1]]
    <2>1. Iterates(T, none, n, G)
      BY <1>1, <1>3, Iterate
    <2> QED
      BY <2>1 DEF Iterates
  <1>5. \A i \in 1 .. n : f[i] = Step(i, f[i - 1])
    <2>1. \A i \in 1 .. n : i - 1 \in 0 .. n
      BY <1>1
    <2>2. \A i \in 1 .. n : f[i - 1] \in T
      BY <1>4, <2>1
    <2> QED
      BY <1>13, <1>4, <2>2
  <1>6. P(f)
    <2>1. \A i \in 0 .. n : f[i] = IF i = 0 THEN none ELSE Step(i, f[i - 1])
      BY <1>1, <1>4, <1>5
    <2>2. f = [i \in 0 .. n |-> f[i]]
      BY <1>4
    <2> QED
      BY <2>1, <2>2, Zenon DEF P
  <1> DEFINE F == CHOOSE g : P(g)
  <1>7. P(F)
    BY <1>6, Zenon
  <1>8. Pieces(s) = F[n]
    BY DEF Pieces, P, Step, n, none
  <1> HIDE DEF F
  <1>9. \A i \in 0 .. n : F[i] = IF i = 0 THEN none ELSE Step(i, F[i - 1])
    <2>1. F = [i \in 0 .. n |-> IF i = 0 THEN none ELSE Step(i, F[i - 1])]
      BY <1>7, Zenon DEF P
    <2> QED
      BY <2>1, Zenon
  <1>10. F[0] = none /\ \A i \in 1 .. n : F[i] = Step(i, F[i - 1])
    BY <1>1, <1>9
  <1>11. \A i \in 1 .. n : F[i - 1] \in T => F[i] \in T
    BY <1>2, <1>10
  <1>12. \A i \in 0 .. n : F[i] \in T
    BY <1>1, <1>10, <1>11, StaysIn
  <1> QED
    BY <1>8, <1>10, <1>12 DEF n, none, T, Step

\* The pieces of a text, made of those of the text without its last character.
LEMMA PiecesGrow ==
    ASSUME NEW S
    PROVE  /\ Pieces(<<>>) = <<<<>>>>
           /\ \A s \in Seq(S) : Pieces(s) \in Lists(S)
           /\ \A s \in Seq(S), c \in S : Pieces(Append(s, c)) = Cut(Pieces(s), c)
  <1>1. Pieces(<<>>) = <<<<>>>>
    <2>1. <<>> \in Seq(S) /\ Len(<<>>) = 0
      BY EmptySeq
    <2> QED
      BY <2>1, PiecesSteps
  <1>2. ASSUME NEW s \in Seq(S)
        PROVE  Pieces(s) \in Lists(S)
    <2>1. Len(s) \in Nat /\ Len(s) \in 0 .. Len(s)
      BY LenProperties
    <2> QED
      BY <2>1, PiecesSteps
  <1>3. ASSUME NEW s \in Seq(S), NEW c \in S
        PROVE  Pieces(Append(s, c)) = Cut(Pieces(s), c)
    <2> DEFINE t == Append(s, c)
               n == Len(s)
    <2>1. /\ t \in Seq(S) /\ n \in Nat /\ Len(t) = n + 1 /\ t[n + 1] = c
          /\ \A i \in 1 .. n : t[i] = s[i]
      BY AppendProperties, LenProperties
    <2> HIDE DEF t
    <2>2. PICK F : /\ F[0] = <<<<>>>> /\ F[Len(s)] = Pieces(s)
                   /\ \A i \in 1 .. Len(s) : F[i] = Cut(F[i - 1], s[i])
      BY PiecesSteps
    <2>3. PICK G : /\ G[0] = <<<<>>>> /\ G[Len(t)] = Pieces(t)
                   /\ \A i \in 1 .. Len(t) : G[i] = Cut(G[i - 1], t[i])
      BY <2>1, PiecesSteps
    <2> HIDE DEF n
    <2> DEFINE Same == {i \in Nat : i <= n => F[i] = G[i]}
    <2>4. 0 \in Same
      BY <2>2, <2>3
    <2>5. ASSUME NEW i \in Nat, i \in Same
          PROVE  i + 1 \in Same
      <3>1. CASE i + 1 <= n
        <4>1. i + 1 \in 1 .. n /\ i + 1 \in 1 .. n + 1 /\ i + 1 - 1 = i /\ i <= n
          BY <2>1, <3>1
        <4>2. F[i + 1] = Cut(F[i], s[i + 1]) /\ G[i + 1] = Cut(G[i], t[i + 1]) /\ t[i + 1] = s[i + 1]
          BY <2>1, <2>2, <2>3, <4>1 DEF n
        <4>3. F[i] = G[i]
          BY <2>5, <4>1
        <4> QED
          BY <4>2, <4>3
      <3>2. CASE ~(i + 1 <= n)
        BY <3>2
      <3> QED
        BY <3>1, <3>2
    <2> HIDE DEF Same
    <2>6. Nat \subseteq Same
      BY <2>4, <2>5, AllNumbers
    <2>7. F[n] = G[n]
      BY <2>1, <2>6 DEF Same
    <2>8. n + 1 \in 1 .. n + 1 /\ n + 1 - 1 = n
      BY <2>1
    <2>9. G[n + 1] = Cut(G[n], c)
      BY <2>1, <2>3, <2>8
    <2> QED
      BY <2>1, <2>2, <2>3, <2>7, <2>9 DEF n, t
  <1> QED
    BY <1>1, <1>2, <1>3

-----------------------------------------------------------------------------
(* Two texts with a character or with a comma between them.                 *)
Around(a, c, b) == a \o <<c>> \o b
Comma(a, b) == Around(a, Sep, b)

(* Three texts may be joined in either order.                               *)
Joins(a, b, c) == (a \o b) \o c = a \o (b \o c)

\* Joining is associative.
LEMMA JoinsInOrder ==
    ASSUME NEW S, NEW a \in Seq(S), NEW b \in Seq(S), NEW c \in Seq(S)
    PROVE  Joins(a, b, c)
  BY ConcatAssociative DEF Joins

\* What stands where in two texts with a character between them.
LEMMA AroundFacts ==
    ASSUME NEW S, NEW a \in Seq(S), NEW b \in Seq(S), NEW c \in S
    PROVE  /\ Around(a, c, b) \in Seq(S)
           /\ Len(a) \in Nat /\ Len(b) \in Nat /\ Len(Around(a, c, b)) = Len(a) + 1 + Len(b)
           /\ \A i \in 1 .. Len(a) : Around(a, c, b)[i] = a[i]
           /\ Around(a, c, b)[Len(a) + 1] = c
           /\ \A i \in 1 .. Len(b) : Around(a, c, b)[Len(a) + 1 + i] = b[i]
  <1> DEFINE t == Append(a, c)
             m == Len(a)
             n == Len(b)
             u == t \o b
  <1>1. /\ t \in Seq(S) /\ Len(t) = m + 1 /\ t[m + 1] = c
        /\ \A i \in 1 .. m : t[i] = a[i]
    BY AppendProperties
  <1>2. Around(a, c, b) = u
    BY AppendIsConcat DEF Around
  <1>3. m \in Nat /\ n \in Nat
    BY LenProperties
  <1> HIDE DEF t
  <1>4. /\ u \in Seq(S) /\ Len(u) = m + 1 + n
        /\ \A i \in 1 .. m + 1 + n : u[i] = IF i <= m + 1 THEN t[i] ELSE b[i - (m + 1)]
    <2>1. /\ u \in Seq(S) /\ Len(u) = Len(t) + Len(b)
          /\ \A i \in 1 .. Len(t) + Len(b) : u[i] = IF i <= Len(t) THEN t[i] ELSE b[i - Len(t)]
      BY <1>1, ConcatProperties
    <2> QED
      BY <1>1, <2>1
  <1> HIDE DEF u, m, n
  <1>5. \A i \in 1 .. m : u[i] = a[i]
    BY <1>1, <1>3, <1>4
  <1>6. u[m + 1] = c
    BY <1>1, <1>3, <1>4
  <1>7. ASSUME NEW i \in 1 .. n PROVE u[m + 1 + i] = b[i]
    <2>1. m + 1 + i \in 1 .. m + 1 + n /\ ~(m + 1 + i <= m + 1) /\ (m + 1 + i) - (m + 1) = i
      BY <1>3
    <2> QED
      BY <1>4, <2>1
  <1> QED
    BY <1>2, <1>3, <1>4, <1>5, <1>6, <1>7 DEF m, n

\* What stands where in two texts with a comma between them.
LEMMA CommaFacts ==
    ASSUME NEW S, Sep \in S, NEW a \in Seq(S), NEW b \in Seq(S)
    PROVE  /\ Comma(a, b) \in Seq(S)
           /\ Len(a) \in Nat /\ Len(b) \in Nat /\ Len(Comma(a, b)) = Len(a) + 1 + Len(b)
           /\ \A i \in 1 .. Len(a) : Comma(a, b)[i] = a[i]
           /\ Comma(a, b)[Len(a) + 1] = Sep
           /\ \A i \in 1 .. Len(b) : Comma(a, b)[Len(a) + 1 + i] = b[i]
  <1>1. Comma(a, b) = Around(a, Sep, b)
    BY DEF Comma
  <1>2. /\ Around(a, Sep, b) \in Seq(S)
        /\ Len(a) \in Nat /\ Len(b) \in Nat /\ Len(Around(a, Sep, b)) = Len(a) + 1 + Len(b)
        /\ Around(a, Sep, b)[Len(a) + 1] = Sep
    BY AroundFacts
  <1>3. \A i \in 1 .. Len(a) : Around(a, Sep, b)[i] = a[i]
    BY AroundFacts
  <1>4. \A i \in 1 .. Len(b) : Around(a, Sep, b)[Len(a) + 1 + i] = b[i]
    BY AroundFacts
  <1> QED
    BY <1>1, <1>2, <1>3, <1>4

\* A comma, and a character behind one; and two commas.
LEMMA CommaGrows ==
    ASSUME NEW S, Sep \in S, NEW a \in Seq(S), NEW b \in Seq(S), NEW c \in S, NEW d \in Seq(S)
    PROVE  /\ Append(a, Sep) = Comma(a, <<>>)
           /\ Append(Comma(a, b), c) = Comma(a, Append(b, c))
           /\ Comma(Comma(a, b), d) = Comma(a, Comma(b, d))
  <1> DEFINE t == Append(a, Sep)
  <1>1. t \in Seq(S) /\ Comma(a, <<>>) = t \o <<>> /\ Comma(a, b) = t \o b
    BY AppendProperties, AppendIsConcat DEF Comma, Around
  <1>2. Comma(a, Append(b, c)) = t \o Append(b, c) /\ Comma(a, Comma(b, d)) = t \o Comma(b, d)
    BY AppendIsConcat DEF Comma, Around
  <1> HIDE DEF t
  <1>3. t \o <<>> = t
    BY <1>1, ConcatEmptySeq
  <1>4. Append(t \o b, c) = t \o Append(b, c)
    <2> DEFINE one == <<c>>
    <2>1. t \o b \in Seq(S) /\ one \in Seq(S)
      BY <1>1, ConcatProperties
    <2>2. Append(t \o b, c) = (t \o b) \o one
      BY <2>1, AppendIsConcat
    <2>3. Append(b, c) = b \o one
      BY AppendIsConcat
    <2> HIDE DEF one
    <2>4. Joins(t, b, one)
      BY <1>1, <2>1, JoinsInOrder
    <2> QED
      BY <2>2, <2>3, <2>4 DEF Joins
  <1>5. Comma(t \o b, d) = t \o Comma(b, d)
    <2> DEFINE one == <<Sep>>
    <2>1. one \in Seq(S) /\ t \o b \in Seq(S) /\ b \o one \in Seq(S)
      BY <1>1, ConcatProperties
    <2>2. Comma(t \o b, d) = ((t \o b) \o one) \o d /\ Comma(b, d) = (b \o one) \o d
      BY DEF Comma, Around
    <2> HIDE DEF one
    <2>3. Joins(t, b, one)
      BY <1>1, <2>1, JoinsInOrder
    <2>4. Joins(t, b \o one, d)
      <3> DEFINE w == b \o one
      <3>1. w \in Seq(S)
        BY <2>1
      <3> HIDE DEF w
      <3>2. Joins(t, w, d)
        BY <1>1, <3>1, JoinsInOrder
      <3> QED
        BY <3>2 DEF w
    <2> QED
      BY <2>2, <2>3, <2>4 DEF Joins
  <1> QED
    BY <1>1, <1>2, <1>3, <1>4, <1>5 DEF t

\* The character belongs to the second text.
LEMMA AroundInFront ==
    ASSUME NEW S, NEW a \in Seq(S), NEW b \in Seq(S), NEW c \in S
    PROVE  /\ Around(a, c, b) = a \o (<<c>> \o b)
           /\ <<c>> \o b \in Seq(S) /\ Len(<<c>> \o b) = 1 + Len(b) /\ Len(b) \in Nat
  <1> DEFINE one == <<c>>
  <1>1. one \in Seq(S) /\ Len(one) = 1 /\ Around(a, c, b) = (a \o one) \o b
    BY DEF Around
  <1> HIDE DEF one
  <1>2. Joins(a, one, b)
    BY <1>1, JoinsInOrder
  <1>3. one \o b \in Seq(S) /\ Len(one \o b) = Len(one) + Len(b) /\ Len(b) \in Nat
    BY <1>1, ConcatProperties, LenProperties
  <1> QED
    BY <1>1, <1>2, <1>3 DEF one, Joins

\* The comma belongs to the second text.
LEMMA CommaInFront ==
    ASSUME NEW S, Sep \in S, NEW a \in Seq(S), NEW b \in Seq(S)
    PROVE  /\ Comma(a, b) = a \o (<<Sep>> \o b)
           /\ <<Sep>> \o b \in Seq(S) /\ Len(<<Sep>> \o b) = 1 + Len(b) /\ Len(b) \in Nat
  BY AroundInFront DEF Comma

(* A text without a comma.                                                   *)
Plain(v) == \A i \in 1 .. Len(v) : v[i] # Sep

\* A text without a comma stays one with a character more that is none.
LEMMA PlainGrows ==
    ASSUME NEW S, NEW s \in Seq(S), NEW c \in S
    PROVE  /\ Plain(Append(s, c)) <=> Plain(s) /\ c # Sep
           /\ Plain(<<>>)
  <1> DEFINE t == Append(s, c)
             n == Len(s)
  <1>1. /\ t \in Seq(S) /\ Len(t) = n + 1 /\ t[n + 1] = c /\ n \in Nat
        /\ \A i \in 1 .. n : t[i] = s[i]
    BY AppendProperties, LenProperties
  <1>2. Plain(s) <=> \A i \in 1 .. n : s[i] # Sep
    BY DEF Plain
  <1> HIDE DEF t, n
  <1>3. 1 .. n + 1 = (1 .. n) \cup {n + 1}
    BY <1>1
  <1>4. Plain(t) <=> Plain(s) /\ c # Sep
    BY <1>1, <1>2, <1>3 DEF Plain
  <1>5. Plain(<<>>)
    BY DEF Plain
  <1> QED
    BY <1>4, <1>5 DEF t

\* What holds of the texts without a comma, and with a text of the one with a comma
\* and a text without one behind it, holds of all.
LEMMA AllLists ==
    ASSUME NEW S, Sep \in S, NEW Good,
           \A s \in Seq(S) : Plain(s) => s \in Good,
           \A a \in Seq(S), b \in Seq(S) : a \in Good /\ Plain(b) => Comma(a, b) \in Good
    PROVE  Seq(S) \subseteq Good
  <1> DEFINE More == {s \in Good : s \in Seq(S) /\
                        (Plain(s) \/ \E a \in Seq(S), b \in Seq(S) : a \in Good /\ Plain(b) /\ s = Comma(a, b))}
  <1>1. <<>> \in More
    <2>1. <<>> \in Seq(S) /\ Plain(<<>>)
      BY EmptySeq DEF Plain
    <2> QED
      BY <2>1
  <1>2. ASSUME NEW s \in Seq(S), s \in More, NEW c \in S
        PROVE  Append(s, c) \in More
    <2>1. Append(s, c) \in Seq(S) /\ <<>> \in Seq(S) /\ Plain(<<>>)
      BY AppendProperties, EmptySeq DEF Plain
    <2>2. CASE c = Sep
      <3>1. Append(s, c) = Comma(s, <<>>)
        BY <2>1, <2>2, CommaGrows
      <3> QED
        BY <1>2, <2>1, <3>1
    <2>3. CASE c # Sep /\ Plain(s)
      <3>1. Plain(Append(s, c))
        BY <2>3, PlainGrows
      <3> QED
        BY <2>1, <3>1
    <2>4. ASSUME c # Sep, NEW a \in Seq(S), NEW b \in Seq(S), a \in Good, Plain(b), s = Comma(a, b)
          PROVE  Append(s, c) \in More
      <3>1. Append(s, c) = Comma(a, Append(b, c))
        BY <2>4, CommaGrows
      <3>2. Append(b, c) \in Seq(S) /\ Plain(Append(b, c))
        BY <2>4, PlainGrows, AppendProperties
      <3> QED
        BY <2>1, <2>4, <3>1, <3>2
    <2> QED
      BY <1>2, <2>2, <2>3, <2>4
  <1> HIDE DEF More
  <1>3. \A s \in Seq(S) : s \in More => \A c \in S : Append(s, c) \in More
    BY <1>2
  <1>4. Seq(S) \subseteq More
    BY <1>1, <1>3, AllTexts
  <1> QED
    BY <1>4 DEF More

\* A text without a comma is one piece.
LEMMA OnePiece ==
    ASSUME NEW S, NEW v \in Seq(S), Plain(v)
    PROVE  Pieces(v) = <<v>>
  <1> DEFINE Good == {s \in Seq(S) : Plain(s) => Pieces(s) = <<s>>}
  <1>1. <<>> \in Good
    BY PiecesGrow, EmptySeq
  <1>2. ASSUME NEW s \in Seq(S), s \in Good, NEW c \in S
        PROVE  Append(s, c) \in Good
    <2> DEFINE t == Append(s, c)
    <2>1. t \in Seq(S) /\ (Plain(t) => Plain(s) /\ c # Sep)
      BY PlainGrows, AppendProperties
    <2>2. Pieces(t) = Cut(Pieces(s), c)
      BY PiecesGrow
    <2> HIDE DEF t
    <2>3. ASSUME Plain(t) PROVE Pieces(t) = <<t>>
      <3>1. Pieces(s) = <<s>> /\ c # Sep
        BY <1>2, <2>1, <2>3
      <3> DEFINE one == <<s>>
      <3>2. Len(one) = 1 /\ one[1] = s /\ one \in Seq(Seq(S)) /\ [one EXCEPT ![1] = t] = <<t>>
        OBVIOUS
      <3>3. Cut(one, c) = [one EXCEPT ![Len(one)] = Append(one[Len(one)], c)]
        BY <3>1 DEF Cut
      <3> HIDE DEF one
      <3>4. Cut(one, c) = [one EXCEPT ![1] = t]
        BY <3>2, <3>3 DEF t
      <3> QED
        BY <2>2, <3>1, <3>2, <3>4 DEF one
    <2> QED
      BY <2>1, <2>3 DEF t
  <1> HIDE DEF Good
  <1>3. v \in Good
    BY <1>1, <1>2, AllTexts
  <1> QED
    BY <1>3 DEF Good

\* The last of two lists of pieces that stand behind each other is cut.
LEMMA CutBehind ==
    ASSUME NEW S, NEW items \in Lists(S), NEW more \in Lists(S), NEW c \in S
    PROVE  Cut(items \o more, c) = items \o Cut(more, c)
  <1> DEFINE all == items \o more
  <1>0. items \in Seq(Seq(S)) /\ more \in Seq(Seq(S)) /\ more # <<>>
    BY DEF Lists
  <1> DEFINE m == Len(items)
             n == Len(more)
  <1>1. /\ m \in Nat /\ n \in Nat /\ n >= 1 /\ all \in Seq(Seq(S)) /\ Len(all) = m + n
        /\ \A i \in 1 .. m + n : all[i] = IF i <= m THEN items[i] ELSE more[i - m]
    BY <1>0, ConcatProperties, LenProperties, EmptySeq
  <1>2. CASE c = Sep
    <2> DEFINE none == <<>>
    <2>1. none \in Seq(S) /\ <<none>> \in Seq(Seq(S))
      BY EmptySeq
    <2>2. Cut(all, c) = Append(all, none) /\ Cut(more, c) = Append(more, none)
      BY <1>2 DEF Cut
    <2> HIDE DEF none
    <2>3. Joins(items, more, <<none>>)
      BY <1>0, <2>1, JoinsInOrder
    <2>4. Append(all, none) = all \o <<none>> /\ Append(more, none) = more \o <<none>>
      BY <1>0, <1>1, <2>1, AppendIsConcat
    <2> QED
      BY <2>2, <2>3, <2>4 DEF Joins
  <1>3. CASE c # Sep
    <2>1. more[n] \in Seq(S) /\ n \in 1 .. n /\ m + n \in 1 .. m + n
      BY <1>0, <1>1, ElementOfSeq
    <2>2. all[m + n] = more[n]
      BY <1>1, <2>1
    <2> DEFINE last == Append(more[n], c)
               new == [more EXCEPT ![n] = last]
               both == [all EXCEPT ![m + n] = last]
    <2>3. last \in Seq(S) /\ Cut(more, c) = new
      BY <1>3, <2>1, AppendProperties DEF Cut
    <2>4. Cut(all, c) = both
      <3>1. Cut(all, c) = [all EXCEPT ![Len(all)] = Append(all[Len(all)], c)]
        BY <1>3 DEF Cut
      <3> HIDE DEF all, m, n
      <3> QED
        BY <1>1, <2>2, <3>1
    <2> HIDE DEF last, all
    <2>5. /\ new \in Seq(Seq(S)) /\ Len(new) = n
          /\ \A j \in 1 .. n : new[j] = IF j = n THEN last ELSE more[j]
      BY <1>0, <2>1, <2>3, ExceptSeq
    <2>6. /\ both \in Seq(Seq(S)) /\ Len(both) = m + n
          /\ \A j \in 1 .. m + n : both[j] = IF j = m + n THEN last ELSE all[j]
      <3>1. m + n \in 1 .. Len(all)
        BY <1>1, <2>1
      <3> HIDE DEF m, n
      <3>2. /\ both \in Seq(Seq(S)) /\ Len(both) = Len(all)
            /\ \A j \in 1 .. Len(all) : both[j] = IF j = m + n THEN last ELSE all[j]
        BY <1>1, <2>3, <3>1, ExceptSeq
      <3> QED
        BY <1>1, <3>2
    <2> HIDE DEF new, both
    <2> DEFINE u == items \o new
    <2>7. /\ u \in Seq(Seq(S)) /\ Len(u) = m + n
          /\ \A i \in 1 .. m + n : u[i] = IF i <= m THEN items[i] ELSE new[i - m]
      <3>1. /\ u \in Seq(Seq(S)) /\ Len(u) = m + Len(new)
            /\ \A i \in 1 .. m + Len(new) : u[i] = IF i <= m THEN items[i] ELSE new[i - m]
        BY <1>0, <2>5, ConcatProperties
      <3> HIDE DEF u
      <3> QED
        BY <2>5, <3>1
    <2> HIDE DEF u, m, n
    <2>8. ASSUME NEW i \in 1 .. m + n
          PROVE  both[i] = u[i]
      <3>1. CASE i <= m
        <4>1. i # m + n
          BY <1>1, <3>1
        <4> QED
          BY <1>1, <2>6, <2>7, <3>1, <4>1
      <3>2. CASE i > m
        <4>1. i - m \in 1 .. n /\ (i - m = n <=> i = m + n) /\ ~(i <= m)
          BY <1>1, <3>2
        <4> QED
          BY <1>1, <2>5, <2>6, <2>7, <4>1
      <3> QED
        BY <1>1, <3>1, <3>2
    <2>9. both = u
      BY <2>6, <2>7, <2>8, SeqEqual
    <2> QED
      BY <2>3, <2>4, <2>9 DEF u, all
  <1> QED
    BY <1>2, <1>3

\* The pieces of two texts with a comma between them.
LEMMA PiecesOfComma ==
    ASSUME NEW S, Sep \in S, NEW a \in Seq(S), NEW b \in Seq(S)
    PROVE  Pieces(Comma(a, b)) = Pieces(a) \o Pieces(b)
  <1> DEFINE Good == {s \in Seq(S) : Pieces(Comma(a, s)) = Pieces(a) \o Pieces(s)}
             p == Pieces(a)
  <1>0. p \in Lists(S) /\ p \in Seq(Seq(S))
    BY PiecesGrow DEF Lists
  <1>1. <<>> \in Good
    <2> DEFINE none == <<>>
    <2>1. none \in Seq(S) /\ Pieces(none) = <<none>>
      BY PiecesGrow, EmptySeq
    <2>2. Comma(a, none) = Append(a, Sep)
      BY CommaGrows
    <2>3. Pieces(Append(a, Sep)) = Cut(p, Sep) /\ Cut(p, Sep) = Append(p, none)
      BY PiecesGrow DEF Cut
    <2> HIDE DEF none, p
    <2>4. Append(p, none) = p \o <<none>>
      BY <1>0, <2>1, AppendIsConcat
    <2> QED
      BY <2>1, <2>2, <2>3, <2>4 DEF none, p
  <1>2. ASSUME NEW s \in Seq(S), s \in Good, NEW c \in S
        PROVE  Append(s, c) \in Good
    <2>1. Append(s, c) \in Seq(S) /\ Comma(a, s) \in Seq(S) /\ Pieces(s) \in Lists(S)
      BY AppendProperties, CommaFacts, PiecesGrow
    <2>2. Comma(a, Append(s, c)) = Append(Comma(a, s), c)
      BY CommaGrows
    <2>3. Pieces(Append(Comma(a, s), c)) = Cut(Pieces(Comma(a, s)), c) /\ Pieces(Append(s, c)) = Cut(Pieces(s), c)
      BY <2>1, PiecesGrow
    <2>4. Cut(p \o Pieces(s), c) = p \o Cut(Pieces(s), c)
      BY <1>0, <2>1, CutBehind
    <2> QED
      BY <1>2, <2>1, <2>2, <2>3, <2>4
  <1> HIDE DEF Good
  <1>3. b \in Good
    BY <1>1, <1>2, AllTexts
  <1> QED
    BY <1>3 DEF Good

-----------------------------------------------------------------------------
(* Where an item stands.                                                     *)

(* The characters of an item from i on, between ends or commas.             *)
ItemAt(v, s, i) ==
    /\ i + Len(v) <= Len(s) + 1
    /\ \A j \in 1 .. Len(v) : s[i + j - 1] = v[j]
    /\ i = 1 \/ s[i - 1] = Sep
    /\ i + Len(v) = Len(s) + 1 \/ s[i + Len(v)] = Sep

\* An item stands where its characters are, between ends or commas.
LEMMA Standing ==
    ASSUME NEW S, NEW v \in Seq(S), NEW s \in Seq(S), NEW i \in 1 .. Len(s), v # <<>>
    PROVE  StandsAt(v, s, i, TRUE) <=> ItemAt(v, s, i)
  <1> DEFINE m == Len(v)
             n == Len(s)
             w == SubSeq(s, i, n)
             x == SubSeq(w, 1, m)
  <1>1. m \in Nat /\ m >= 1 /\ n \in Nat /\ i \in Nat /\ i >= 1 /\ i <= n /\ DOMAIN s = 1 .. n
    BY EmptySeq, LenProperties
  <1>2. SubSeq(v, 1, m) = v
    BY SubSeqFull
  <1>3. w \in Seq(S) /\ Len(w) = n - i + 1 /\ \A j \in 1 .. n - i + 1 : w[j] = s[i + j - 1]
    <2>1. \A j \in i .. n : s[j] \in S
      BY <1>1, ElementOfSeq
    <2> HIDE DEF n
    <2> QED
      BY <1>1, <2>1, SubSeqProperties
  <1> HIDE DEF w
  <1>4. IsPrefix(v, w) <=> m <= n - i + 1 /\ x = v
    BY <1>2, <1>3 DEF IsPrefix
  <1>5. ASSUME m <= n - i + 1
        PROVE  x \in Seq(S) /\ Len(x) = m /\ \A j \in 1 .. m : x[j] = s[i + j - 1]
    <2> HIDE DEF m, n
    <2>1. \A j \in 1 .. m : j \in 1 .. n - i + 1
      BY <1>1, <1>5
    <2>2. \A j \in 1 .. m : w[j] \in S
      BY <1>3, <2>1, ElementOfSeq
    <2>3. /\ x \in Seq(S) /\ Len(x) = IF 1 <= m THEN m - 1 + 1 ELSE 0
          /\ \A j \in 1 .. m - 1 + 1 : x[j] = w[1 + j - 1]
      BY <1>1, <2>2, SubSeqProperties
    <2> HIDE DEF x
    <2>4. m - 1 + 1 = m /\ \A j \in 1 .. m : 1 + j - 1 = j
      BY <1>1
    <2>5. x \in Seq(S) /\ Len(x) = m /\ \A j \in 1 .. m : x[j] = w[j]
      BY <1>1, <2>3, <2>4
    <2> QED
      BY <1>3, <2>1, <2>5
  <1> HIDE DEF x
  <1>6. ASSUME m <= n - i + 1
        PROVE  x = v <=> \A j \in 1 .. m : s[i + j - 1] = v[j]
    <2>1. ASSUME \A j \in 1 .. m : s[i + j - 1] = v[j] PROVE x = v
      <3>1. Len(x) = Len(v) /\ \A j \in 1 .. Len(x) : x[j] = v[j]
        BY <1>5, <1>6, <2>1
      <3>2. x \in Seq(S)
        BY <1>5, <1>6
      <3> QED
        BY <3>1, <3>2, SeqEqual
    <2>2. ASSUME x = v PROVE \A j \in 1 .. m : s[i + j - 1] = v[j]
      BY <1>5, <1>6, <2>2
    <2> QED
      BY <2>1, <2>2
  <1> DEFINE Behind == i + m \in {n + 1} \cup {j \in DOMAIN s : s[j] = Sep}
             Chars == \A j \in 1 .. m : s[i + j - 1] = v[j]
             Ahead == i = 1 \/ s[i - 1] = Sep
  <1>7. StandsAt(v, s, i, TRUE) <=> IsPrefix(v, w) /\ Ahead /\ Behind
    BY DEF StandsAt, w
  <1> HIDE DEF Chars, Ahead
  <1>8. m <= n - i + 1 => (Behind <=> (i + m = n + 1 \/ s[i + m] = Sep))
    <2> HIDE DEF m, n
    <2>1. m <= n - i + 1 => i + m = n + 1 \/ i + m \in 1 .. n
      BY <1>1
    <2>2. i + m = n + 1 => i + m \notin 1 .. n
      BY <1>1
    <2> QED
      BY <1>1, <2>1, <2>2
  <1>9. m <= n - i + 1 <=> i + m <= n + 1
    <2> HIDE DEF m, n
    <2> QED
      BY <1>1
  <1> HIDE DEF Behind
  <1>10. m <= n - i + 1 => (x = v <=> Chars)
    BY <1>6 DEF Chars
  <1>11. StandsAt(v, s, i, TRUE) <=> i + m <= n + 1 /\ Chars /\ Ahead /\ (i + m = n + 1 \/ s[i + m] = Sep)
    <2> HIDE DEF m, n
    <2> QED
      BY <1>4, <1>7, <1>8, <1>9, <1>10
  <1> QED
    BY <1>11 DEF Chars, Ahead, ItemAt

\* What stands in a text stands in it with more behind a comma.
LEMMA StandsInFront ==
    ASSUME NEW S, Sep \in S, NEW v \in Seq(S), NEW a \in Seq(S), NEW b \in Seq(S), NEW i \in 1 .. Len(a),
           v # <<>>, StandsAt(v, a, i, TRUE)
    PROVE  i \in 1 .. Len(Comma(a, b)) /\ StandsAt(v, Comma(a, b), i, TRUE)
  <1> DEFINE s == Comma(a, b)
             k == Len(v)
             m == Len(a)
             n == Len(b)
  <1>1. /\ s \in Seq(S) /\ m \in Nat /\ n \in Nat /\ Len(s) = m + 1 + n
        /\ \A j \in 1 .. m : s[j] = a[j]
        /\ s[m + 1] = Sep
    BY CommaFacts
  <1>2. k \in Nat /\ k >= 1 /\ i \in 1 .. m
    BY EmptySeq
  <1>3. /\ i + k <= m + 1 /\ \A j \in 1 .. k : a[i + j - 1] = v[j]
        /\ i = 1 \/ a[i - 1] = Sep
        /\ i + k = m + 1 \/ a[i + k] = Sep
    <2>1. ItemAt(v, a, i)
      BY Standing
    <2> QED
      BY <2>1 DEF ItemAt
  <1> HIDE DEF s, k, m, n
  <1>4. i \in 1 .. Len(s)
    BY <1>1, <1>2
  <1>5. \A j \in 1 .. k : s[i + j - 1] = v[j]
    <2>1. \A j \in 1 .. k : i + j - 1 \in 1 .. m
      BY <1>1, <1>2, <1>3
    <2> QED
      BY <1>1, <1>3, <2>1
  <1>6. i = 1 \/ s[i - 1] = Sep
    <2>1. i = 1 \/ i - 1 \in 1 .. m
      BY <1>1, <1>2
    <2> QED
      BY <1>1, <1>3, <2>1
  <1>7. s[i + k] = Sep
    <2>1. i + k = m + 1 \/ i + k \in 1 .. m
      BY <1>1, <1>2, <1>3
    <2> QED
      BY <1>1, <1>3, <2>1
  <1>8. i + k <= Len(s) + 1
    BY <1>1, <1>2, <1>3
  <1>9. StandsAt(v, s, i, TRUE)
    <2>1. ItemAt(v, s, i)
      BY <1>5, <1>6, <1>7, <1>8 DEF k, ItemAt
    <2> QED
      BY <1>1, <1>4, <2>1, Standing
  <1> QED
    BY <1>4, <1>9 DEF s

\* A text stands in itself, and as the last item of a list.
LEMMA StandsBehind ==
    ASSUME NEW S, Sep \in S, NEW v \in Seq(S), NEW a \in Seq(S), v # <<>>
    PROVE  /\ 1 \in 1 .. Len(v) /\ StandsAt(v, v, 1, TRUE)
           /\ Len(a) + 2 \in 1 .. Len(Comma(a, v)) /\ StandsAt(v, Comma(a, v), Len(a) + 2, TRUE)
  <1> DEFINE s == Comma(a, v)
             k == Len(v)
             m == Len(a)
  <1>1. /\ s \in Seq(S) /\ m \in Nat /\ Len(s) = m + 1 + k
        /\ s[m + 1] = Sep
        /\ \A j \in 1 .. k : s[m + 1 + j] = v[j]
    BY CommaFacts
  <1>2. k \in Nat /\ k >= 1
    BY EmptySeq
  <1> HIDE DEF s, k, m
  <1>3. m + 2 \in 1 .. Len(s) /\ 1 \in 1 .. k /\ (m + 2) - 1 = m + 1
    BY <1>1, <1>2
  <1>4. \A j \in 1 .. k : s[(m + 2) + j - 1] = v[j] /\ v[1 + j - 1] = v[j]
    <2>1. \A j \in 1 .. k : (m + 2) + j - 1 = m + 1 + j /\ 1 + j - 1 = j
      BY <1>1
    <2> QED
      BY <1>1, <2>1
  <1>5. (m + 2) + k = Len(s) + 1 /\ 1 + k = k + 1
    BY <1>1, <1>2
  <1>6. StandsAt(v, s, m + 2, TRUE)
    <2>1. (m + 2) + k <= Len(s) + 1 /\ s[(m + 2) - 1] = Sep
      BY <1>1, <1>2, <1>3, <1>5
    <2> QED
      <3>1. ItemAt(v, s, m + 2)
        BY <1>4, <1>5, <2>1 DEF k, ItemAt
      <3> QED
        BY <1>1, <1>3, <3>1, Standing
  <1>7. StandsAt(v, v, 1, TRUE)
    <2>1. 1 + k <= k + 1
      BY <1>2
    <2> QED
      <3>1. ItemAt(v, v, 1) /\ 1 \in 1 .. Len(v)
        BY <1>3, <1>4, <1>5, <2>1 DEF k, ItemAt
      <3> QED
        BY <3>1, Standing
  <1> QED
    BY <1>3, <1>6, <1>7 DEF s, k, m

\* Every item of a list stands in it.
LEMMA ItemStands ==
    ASSUME NEW S, Sep \in S, NEW v \in Seq(S), NEW s \in Seq(S), v # <<>>,
           NEW k \in 1 .. Len(Pieces(s)), Pieces(s)[k] = v
    PROVE  \E i \in 1 .. Len(s) : StandsAt(v, s, i, TRUE)
  <1> DEFINE Good == {t \in Seq(S) : (\E j \in 1 .. Len(Pieces(t)) : Pieces(t)[j] = v)
                                        => \E i \in 1 .. Len(t) : StandsAt(v, t, i, TRUE)}
  <1>1. ASSUME NEW t \in Seq(S), Plain(t)
        PROVE  t \in Good
    <2>1. Pieces(t) = <<t>>
      BY <1>1, OnePiece
    <2>2. (\E j \in 1 .. Len(Pieces(t)) : Pieces(t)[j] = v) => t = v
      BY <2>1
    <2>3. \E i \in 1 .. Len(v) : StandsAt(v, v, i, TRUE)
      BY StandsBehind
    <2> QED
      BY <2>2, <2>3
  <1>2. ASSUME NEW a \in Seq(S), NEW b \in Seq(S), a \in Good, Plain(b)
        PROVE  Comma(a, b) \in Good
    <2>1. Comma(a, b) \in Seq(S) /\ Pieces(b) = <<b>> /\ Pieces(Comma(a, b)) = Pieces(a) \o Pieces(b)
      BY <1>2, OnePiece, PiecesOfComma, CommaFacts
    <2> DEFINE p == Pieces(a)
               q == Pieces(Comma(a, b))
    <2>2. p \in Seq(Seq(S))
      BY PiecesGrow DEF Lists
    <2>3. q = Append(p, b)
      <3> HIDE DEF p
      <3> QED
        BY <2>1, <2>2, AppendIsConcat DEF p
    <2> HIDE DEF p, q
    <2>4. Len(q) = Len(p) + 1 /\ q[Len(p) + 1] = b /\ Len(p) \in Nat /\ \A j \in 1 .. Len(p) : q[j] = p[j]
      BY <2>2, <2>3, AppendProperties, LenProperties
    <2>5. ASSUME NEW j \in 1 .. Len(q), q[j] = v
          PROVE  \E i \in 1 .. Len(Comma(a, b)) : StandsAt(v, Comma(a, b), i, TRUE)
      <3>1. CASE j \in 1 .. Len(p)
        <4>1. p[j] = v
          BY <2>4, <2>5, <3>1
        <4>2. PICK i \in 1 .. Len(a) : StandsAt(v, a, i, TRUE)
          BY <1>2, <3>1, <4>1 DEF p
        <4> QED
          BY <4>2, StandsInFront
      <3>2. CASE j = Len(p) + 1
        <4>1. b = v
          BY <2>4, <2>5, <3>2
        <4> QED
          BY <4>1, StandsBehind
      <3>3. j \in 1 .. Len(p) \/ j = Len(p) + 1
        BY <2>4
      <3> QED
        BY <3>1, <3>2, <3>3
    <2> QED
      BY <2>1, <2>5 DEF q
  <1> HIDE DEF Good
  <1>3. \A t \in Seq(S) : Plain(t) => t \in Good
    BY <1>1
  <1>4. \A a \in Seq(S), b \in Seq(S) : a \in Good /\ Plain(b) => Comma(a, b) \in Good
    BY <1>2
  <1>5. s \in Good
    BY <1>3, <1>4, AllLists
  <1> QED
    BY <1>5 DEF Good

\* What is in front of a character and what is behind it.
LEMMA AroundParts ==
    ASSUME NEW S, NEW a \in Seq(S), NEW b \in Seq(S), NEW c \in S
    PROVE  /\ SubSeq(Around(a, c, b), 1, Len(a)) = a
           /\ SubSeq(Around(a, c, b), Len(a) + 2, Len(Around(a, c, b))) = b
  <1> DEFINE s == Around(a, c, b)
             m == Len(a)
             n == Len(b)
             x == SubSeq(s, 1, m)
             y == SubSeq(s, m + 2, m + 1 + n)
  <1>1. /\ s \in Seq(S) /\ m \in Nat /\ n \in Nat /\ Len(s) = m + 1 + n
        /\ \A j \in 1 .. m : s[j] = a[j]
        /\ \A j \in 1 .. n : s[m + 1 + j] = b[j]
    <2>1. /\ Around(a, c, b) \in Seq(S)
          /\ Len(a) \in Nat /\ Len(b) \in Nat /\ Len(Around(a, c, b)) = Len(a) + 1 + Len(b)
          /\ Around(a, c, b)[Len(a) + 1] = c
      BY AroundFacts
    <2>2. \A j \in 1 .. Len(a) : Around(a, c, b)[j] = a[j]
      BY AroundFacts
    <2>3. \A j \in 1 .. Len(b) : Around(a, c, b)[Len(a) + 1 + j] = b[j]
      BY AroundFacts
    <2> QED
      BY <2>1, <2>2, <2>3
  <1> HIDE DEF s, m, n
  <1>2. \A j \in 1 .. m + 1 + n : s[j] \in S
    BY <1>1, ElementOfSeq
  <1>3. x \in Seq(S) /\ Len(x) = m /\ \A j \in 1 .. m : x[j] = s[j]
    <2>1. \A j \in 1 .. m : s[j] \in S
      BY <1>1, <1>2
    <2>2. /\ x \in Seq(S) /\ Len(x) = IF 1 <= m THEN m - 1 + 1 ELSE 0
          /\ \A j \in 1 .. m - 1 + 1 : x[j] = s[1 + j - 1]
      BY <1>1, <2>1, SubSeqProperties
    <2> HIDE DEF x
    <2>3. m - 1 + 1 = m /\ (m = 0 \/ 1 <= m) /\ \A j \in 1 .. m : 1 + j - 1 = j
      BY <1>1
    <2> QED
      BY <1>1, <2>2, <2>3
  <1>4. y \in Seq(S) /\ Len(y) = n /\ \A j \in 1 .. n : y[j] = s[m + 1 + j]
    <2>1. \A j \in m + 2 .. m + 1 + n : s[j] \in S
      BY <1>1, <1>2
    <2>2. m + 2 \in Int /\ m + 1 + n \in Int
      BY <1>1
    <2>3. /\ y \in Seq(S) /\ Len(y) = IF m + 2 <= m + 1 + n THEN (m + 1 + n) - (m + 2) + 1 ELSE 0
          /\ \A j \in 1 .. (m + 1 + n) - (m + 2) + 1 : y[j] = s[m + 2 + j - 1]
      BY <2>1, <2>2, SubSeqProperties
    <2> HIDE DEF y
    <2>4. /\ (m + 1 + n) - (m + 2) + 1 = n /\ (n = 0 \/ m + 2 <= m + 1 + n)
          /\ \A j \in 1 .. n : m + 2 + j - 1 = m + 1 + j
      BY <1>1
    <2> QED
      BY <1>1, <2>3, <2>4
  <1> HIDE DEF x, y
  <1>5. x = a
    BY <1>1, <1>3, SeqEqual DEF m
  <1>6. y = b
    BY <1>1, <1>4, SeqEqual DEF n
  <1> QED
    BY <1>1, <1>5, <1>6 DEF x, y, s, m

\* What is in front of a comma and what is behind it.
LEMMA CommaParts ==
    ASSUME NEW S, Sep \in S, NEW a \in Seq(S), NEW b \in Seq(S)
    PROVE  /\ SubSeq(Comma(a, b), 1, Len(a)) = a
           /\ SubSeq(Comma(a, b), Len(a) + 2, Len(Comma(a, b))) = b
  BY AroundParts DEF Comma

\* A comma divides a text.
LEMMA CommaDivides ==
    ASSUME NEW S, Sep \in S, NEW s \in Seq(S), NEW k \in 1 .. Len(s), s[k] = Sep
    PROVE  \E a \in Seq(S), b \in Seq(S) : s = Comma(a, b) /\ Len(a) = k - 1
  <1> DEFINE n == Len(s)
             a == SubSeq(s, 1, k - 1)
             b == SubSeq(s, k + 1, n)
             t == Comma(a, b)
  <1>1. n \in Nat /\ k \in Int /\ 1 <= k /\ k <= n /\ \A j \in 1 .. n : s[j] \in S
    BY ElementOfSeq, LenProperties
  <1> HIDE DEF n
  <1>2. a \in Seq(S) /\ Len(a) = k - 1 /\ \A j \in 1 .. k - 1 : a[j] = s[j]
    <2>1. (\A j \in 1 .. k - 1 : s[j] \in S) /\ k - 1 \in Int
      BY <1>1
    <2>2. /\ a \in Seq(S) /\ Len(a) = IF 1 <= k - 1 THEN (k - 1) - 1 + 1 ELSE 0
          /\ \A j \in 1 .. (k - 1) - 1 + 1 : a[j] = s[1 + j - 1]
      BY <2>1, SubSeqProperties
    <2> HIDE DEF a
    <2>3. (k - 1) - 1 + 1 = k - 1 /\ (k - 1 = 0 \/ 1 <= k - 1) /\ \A j \in 1 .. k - 1 : 1 + j - 1 = j
      BY <1>1
    <2> QED
      BY <1>1, <2>2, <2>3
  <1>3. b \in Seq(S) /\ Len(b) = n - k /\ \A j \in 1 .. n - k : b[j] = s[k + j]
    <2>1. (\A j \in k + 1 .. n : s[j] \in S) /\ k + 1 \in Int /\ n \in Int
      BY <1>1
    <2>2. /\ b \in Seq(S) /\ Len(b) = IF k + 1 <= n THEN n - (k + 1) + 1 ELSE 0
          /\ \A j \in 1 .. n - (k + 1) + 1 : b[j] = s[k + 1 + j - 1]
      BY <2>1, SubSeqProperties
    <2> HIDE DEF b
    <2>3. /\ n - (k + 1) + 1 = n - k /\ (n - k = 0 \/ k + 1 <= n)
          /\ \A j \in 1 .. n - k : k + 1 + j - 1 = k + j
      BY <1>1
    <2> QED
      BY <1>1, <2>2, <2>3
  <1> HIDE DEF a, b
  <1>4. /\ t \in Seq(S) /\ Len(t) = Len(a) + 1 + Len(b)
        /\ \A j \in 1 .. Len(a) : t[j] = a[j]
        /\ t[Len(a) + 1] = Sep
        /\ \A j \in 1 .. Len(b) : t[Len(a) + 1 + j] = b[j]
    <2>0. a \in Seq(S) /\ b \in Seq(S)
      BY <1>2, <1>3
    <2>1. /\ Comma(a, b) \in Seq(S)
          /\ Len(a) \in Nat /\ Len(b) \in Nat /\ Len(Comma(a, b)) = Len(a) + 1 + Len(b)
          /\ Comma(a, b)[Len(a) + 1] = Sep
      BY <2>0, CommaFacts
    <2>2. \A j \in 1 .. Len(a) : Comma(a, b)[j] = a[j]
      BY <2>0, CommaFacts
    <2>3. \A j \in 1 .. Len(b) : Comma(a, b)[Len(a) + 1 + j] = b[j]
      BY <2>0, CommaFacts
    <2> QED
      BY <2>1, <2>2, <2>3
  <1> HIDE DEF t
  <1>5. Len(t) = n
    BY <1>1, <1>2, <1>3, <1>4
  <1>6. ASSUME NEW j \in 1 .. n
        PROVE  t[j] = s[j]
    <2>1. CASE j < k
      <3>1. j \in 1 .. k - 1
        BY <1>1, <2>1
      <3> QED
        BY <1>2, <1>4, <3>1
    <2>2. CASE j = k
      <3>1. Len(a) + 1 = k
        BY <1>1, <1>2
      <3> QED
        BY <1>4, <2>2, <3>1
    <2>3. CASE j > k
      <3>1. j - k \in 1 .. n - k /\ Len(a) + 1 + (j - k) = j /\ k + (j - k) = j
        BY <1>1, <1>2, <2>3
      <3> QED
        BY <1>3, <1>4, <3>1
    <2> QED
      BY <1>1, <2>1, <2>2, <2>3
  <1>7. t = s
    BY <1>4, <1>5, <1>6, SeqEqual DEF n
  <1> QED
    BY <1>2, <1>3, <1>7 DEF t

\* What is at the beginning of a list is all of it, or ends at a comma.
LEMMA FirstItem ==
    ASSUME NEW S, Sep \in S, NEW v \in Seq(S), NEW s \in Seq(S), v # <<>>,
           1 \in 1 .. Len(s), StandsAt(v, s, 1, TRUE)
    PROVE  s = v \/ \E b \in Seq(S) : s = Comma(v, b)
  <1> DEFINE k == Len(v)
             n == Len(s)
  <1>1. k \in Nat /\ n \in Nat /\ k >= 1
    BY EmptySeq
  <1>2. 1 + k <= n + 1 /\ (\A j \in 1 .. k : s[1 + j - 1] = v[j]) /\ (1 + k = n + 1 \/ s[1 + k] = Sep)
    <2>1. ItemAt(v, s, 1)
      BY Standing
    <2> QED
      BY <2>1 DEF ItemAt
  <1> HIDE DEF k, n
  <1>3. \A j \in 1 .. k : s[j] = v[j]
    <2>1. \A j \in 1 .. k : 1 + j - 1 = j
      BY <1>1
    <2> QED
      BY <1>2, <2>1
  <1>4. CASE 1 + k = n + 1
    <2>1. k = n
      BY <1>1, <1>4
    <2> QED
      BY <1>3, <2>1, SeqEqual DEF k, n
  <1>5. CASE 1 + k # n + 1 /\ s[1 + k] = Sep
    <2>1. 1 + k \in 1 .. n /\ (1 + k) - 1 = k
      BY <1>1, <1>2, <1>5
    <2>2. PICK a \in Seq(S), b \in Seq(S) : s = Comma(a, b) /\ Len(a) = k
      <3>1. \E a \in Seq(S), b \in Seq(S) : s = Comma(a, b) /\ Len(a) = (1 + k) - 1
        BY <1>5, <2>1, CommaDivides DEF n
      <3> QED
        BY <2>1, <3>1
    <2>3. \A j \in 1 .. k : s[j] = a[j]
      BY <2>2, CommaFacts
    <2>4. a = v
      BY <1>3, <2>2, <2>3, SeqEqual DEF k
    <2> QED
      BY <2>2, <2>4
  <1> QED
    BY <1>2, <1>4, <1>5

(* What is before an item at i, and behind it.                               *)
Divides(S, s, v, i) ==
    \/ i = 1 /\ s = v
    \/ i = 1 /\ \E b \in Seq(S) : s = Comma(v, b)
    \/ \E a \in Seq(S) : s = Comma(a, v) /\ i = Len(a) + 2
    \/ \E a \in Seq(S), b \in Seq(S) : s = Comma(a, Comma(v, b)) /\ i = Len(a) + 2

\* Where an item stands a list is divided into what is before it, the item and
\* what is behind it.
LEMMA ItemDivides ==
    ASSUME NEW S, Sep \in S, NEW v \in Seq(S), NEW s \in Seq(S), v # <<>>,
           NEW i \in 1 .. Len(s), StandsAt(v, s, i, TRUE)
    PROVE  Divides(S, s, v, i)
  <1> DEFINE k == Len(v)
             n == Len(s)
  <1>1. k \in Nat /\ n \in Nat /\ k >= 1 /\ 1 <= i /\ i <= n /\ i \in Nat
    BY EmptySeq, LenProperties
  <1>2. /\ i + k <= n + 1 /\ \A j \in 1 .. k : s[i + j - 1] = v[j]
        /\ i = 1 \/ s[i - 1] = Sep
        /\ i + k = n + 1 \/ s[i + k] = Sep
    <2>1. ItemAt(v, s, i)
      BY Standing
    <2> QED
      BY <2>1 DEF ItemAt
  <1> HIDE DEF k, n
  <1>3. CASE i = 1
    <2>1. s = v \/ \E b \in Seq(S) : s = Comma(v, b)
      BY <1>3, FirstItem
    <2> QED
      BY <1>3, <2>1 DEF Divides
  <1>4. CASE i # 1
    <2>1. i - 1 \in 1 .. n /\ s[i - 1] = Sep
      BY <1>1, <1>2, <1>4
    <2>2. PICK a \in Seq(S), w \in Seq(S) : s = Comma(a, w) /\ Len(a) = (i - 1) - 1
      BY <2>1, CommaDivides DEF n
    <2> DEFINE m == Len(w)
    <2>3. m \in Nat /\ n = Len(a) + 1 + m /\ \A j \in 1 .. m : s[Len(a) + 1 + j] = w[j]
      <3>1. /\ Comma(a, w) \in Seq(S)
            /\ Len(a) \in Nat /\ Len(w) \in Nat /\ Len(Comma(a, w)) = Len(a) + 1 + Len(w)
            /\ Comma(a, w)[Len(a) + 1] = Sep
        BY CommaFacts
      <3>2. \A j \in 1 .. Len(a) : Comma(a, w)[j] = a[j]
        BY CommaFacts
      <3>3. \A j \in 1 .. Len(w) : Comma(a, w)[Len(a) + 1 + j] = w[j]
        BY CommaFacts
      <3> QED
        BY <2>2, <3>1, <3>2, <3>3 DEF n
    <2>4. Len(a) + 1 = i - 1 /\ Len(a) + 2 = i
      BY <1>1, <2>2
    <2> HIDE DEF m
    <2>5. n = (i - 1) + m /\ \A j \in 1 .. m : s[(i - 1) + j] = w[j]
      BY <2>3, <2>4
    <2>6. k <= m /\ 1 \in 1 .. m /\ (k = m \/ k + 1 \in 1 .. m)
      BY <1>1, <1>2, <2>3, <2>5
    <2>7. \A j \in 1 .. k : w[1 + j - 1] = v[j]
      <3>1. \A j \in 1 .. k : j \in 1 .. m /\ 1 + j - 1 = j /\ (i - 1) + j = i + j - 1
        BY <1>1, <2>3, <2>6
      <3> QED
        BY <1>2, <2>5, <3>1
    <2>8. 1 + k = m + 1 \/ w[1 + k] = Sep
      <3>1. (i - 1) + (k + 1) = i + k /\ 1 + k = k + 1
        BY <1>1
      <3>2. k # m => i + k # n + 1
        BY <1>1, <2>3, <2>5
      <3> QED
        BY <1>2, <2>5, <2>6, <3>1, <3>2
    <2>9. 1 + k <= m + 1
      BY <1>1, <2>3, <2>6
    <2>10. StandsAt(v, w, 1, TRUE)
      <3>1. ItemAt(v, w, 1) /\ 1 \in 1 .. Len(w)
        BY <2>6, <2>7, <2>8, <2>9 DEF k, m, ItemAt
      <3> QED
        BY <3>1, Standing
    <2>11. w = v \/ \E b \in Seq(S) : w = Comma(v, b)
      BY <2>6, <2>10, FirstItem DEF m
    <2> QED
      BY <2>2, <2>4, <2>11 DEF Divides
  <1> QED
    BY <1>3, <1>4

-----------------------------------------------------------------------------
(* Items that are removed and added.                                         *)

\* The first position of an item is one where it stands, if it stands anywhere.
LEMMA FirstPosition ==
    ASSUME NEW S, NEW s \in Seq(S), NEW v
    PROVE  LET i == Position(v, s, TRUE)
           IN  \/ i = 0 /\ \A j \in 1 .. Len(s) : ~StandsAt(v, s, j, TRUE)
               \/ /\ i \in 1 .. Len(s) /\ StandsAt(v, s, i, TRUE)
                  /\ \A j \in 1 .. Len(s) : StandsAt(v, s, j, TRUE) => i <= j
  <1> DEFINE at == {i \in DOMAIN s : StandsAt(v, s, i, TRUE)}
             first == CHOOSE i \in at : \A j \in at : i <= j
  <1>1. DOMAIN s = 1 .. Len(s) /\ Len(s) \in Nat
    BY LenProperties
  <1>2. Position(v, s, TRUE) = IF at = {} THEN 0 ELSE first
    BY DEF Position
  <1>3. \A j \in 1 .. Len(s) : StandsAt(v, s, j, TRUE) <=> j \in at
    BY <1>1
  <1>4. at \subseteq 1 .. Len(s) /\ at \subseteq Nat
    <2>1. at \subseteq 1 .. Len(s)
      BY <1>1
    <2> HIDE DEF at
    <2> QED
      BY <1>1, <2>1
  <1> HIDE DEF at
  <1>5. at # {} => first \in at /\ \A j \in at : first <= j
    BY <1>4, LeastNumber
  <1> HIDE DEF first
  <1> QED
    BY <1>2, <1>3, <1>4, <1>5

\* What has no position stands nowhere.
LEMMA NoPosition ==
    ASSUME NEW S, NEW s \in Seq(S), NEW v, Position(v, s, TRUE) = 0
    PROVE  \A j \in 1 .. Len(s) : ~StandsAt(v, s, j, TRUE)
  <1>1. Len(s) \in Nat
    BY LenProperties
  <1>2. 0 \notin 1 .. Len(s)
    BY <1>1
  <1> QED
    BY <1>2, FirstPosition

(* The text that is left without an item at i.                               *)
Leaves(S, s, v, i, w) ==
    /\ i = 1 /\ s = v => w = <<>>
    /\ \A b \in Seq(S) : i = 1 /\ s = Comma(v, b) => w = b
    /\ \A a \in Seq(S) : i = Len(a) + 2 /\ s = Comma(a, v) => w = a
    /\ \A a \in Seq(S), b \in Seq(S) : i = Len(a) + 2 /\ s = Comma(a, Comma(v, b)) => w = Comma(a, b)

\* Without an item that has nothing, a comma, or a comma at both sides.
LEMMA WithoutItem ==
    ASSUME NEW S, Sep \in S, NEW s \in Seq(S), NEW v \in Seq(S),
           NEW i \in 1 .. Len(s), Position(v, s, TRUE) = i
    PROVE  Leaves(S, s, v, i, Without(s, v, TRUE))
  <1> DEFINE n == Len(s)
             k == Len(v)
             from == IF i > 1 THEN i - 1 ELSE i
             next == IF i = 1 THEN i + k + 1 ELSE i + k
             x == SubSeq(s, 1, from - 1)
             y == SubSeq(s, next, n)
  <1>1. n \in Nat /\ k \in Nat /\ i \in Nat /\ 1 <= i /\ i <= n
    BY LenProperties
  <1>2. Without(s, v, TRUE) = x \o y
    <2>1. Without(s, v, TRUE) = IF i = 0 THEN s ELSE SubSeq(s, 1, (IF TRUE /\ i > 1 THEN i - 1 ELSE i) - 1)
                                    \o SubSeq(s, IF TRUE /\ i = 1 THEN i + Len(v) + 1 ELSE i + Len(v), Len(s))
      BY Zenon DEF Without
    <2>2. i # 0
      BY <1>1
    <2> QED
      BY <2>1, <2>2, Zenon
  <1>3. ASSUME i = 1
        PROVE  Without(s, v, TRUE) = SubSeq(s, k + 2, n)
    <2>1. from = 1 /\ next = k + 2 /\ from - 1 = 0
      BY <1>1, <1>3
    <2>2. x = <<>>
      <3>1. SubSeq(s, 1, 0) = <<>>
        BY SubSeqEmpty
      <3> QED
        BY <2>1, <3>1
    <2>3. SubSeq(s, k + 2, n) \in Seq(S)
      <3>1. \A j \in k + 2 .. n : s[j] \in S
        BY <1>1, ElementOfSeq
      <3> HIDE DEF k, n
      <3> QED
        BY <1>1, <3>1, SubSeqProperties
    <2>4. <<>> \o SubSeq(s, k + 2, n) = SubSeq(s, k + 2, n)
      BY <2>3, ConcatEmptySeq
    <2> QED
      BY <1>2, <2>1, <2>2, <2>4
  <1>4. ASSUME i # 1
        PROVE  Without(s, v, TRUE) = SubSeq(s, 1, i - 2) \o SubSeq(s, i + k, n)
    <2>1. from - 1 = i - 2 /\ next = i + k
      BY <1>1, <1>4
    <2> QED
      BY <1>2, <2>1
  <1> HIDE DEF x, y, from, next
  <1>5. ASSUME i = 1, s = v
        PROVE  Without(s, v, TRUE) = <<>>
    <2>1. n < k + 2
      BY <1>1, <1>5
    <2>2. SubSeq(s, k + 2, n) = <<>>
      BY <1>1, <2>1, SubSeqEmpty
    <2> QED
      BY <1>3, <1>5, <2>2
  <1>6. ASSUME NEW b \in Seq(S), i = 1, s = Comma(v, b)
        PROVE  Without(s, v, TRUE) = b
    <2>1. SubSeq(s, k + 2, n) = b
      BY <1>6, CommaParts
    <2> QED
      BY <1>3, <1>6, <2>1
  <1>7. ASSUME NEW a \in Seq(S), i = Len(a) + 2, s = Comma(a, v)
        PROVE  Without(s, v, TRUE) = a
    <2>1. Len(a) \in Nat /\ n = Len(a) + 1 + k
      BY <1>7, CommaFacts
    <2>2. i # 1 /\ i - 2 = Len(a) /\ n < i + k /\ i + k \in Int
      BY <1>1, <1>7, <2>1
    <2>3. SubSeq(s, 1, Len(a)) = a
      BY <1>7, CommaParts
    <2>4. SubSeq(s, i + k, n) = <<>>
      <3> HIDE DEF k, n
      <3> QED
        BY <1>1, <2>2, SubSeqEmpty
    <2>5. a \o <<>> = a
      BY ConcatEmptySeq
    <2> QED
      BY <1>4, <2>2, <2>3, <2>4, <2>5
  <1>8. ASSUME NEW a \in Seq(S), NEW b \in Seq(S), i = Len(a) + 2, s = Comma(a, Comma(v, b))
        PROVE  Without(s, v, TRUE) = Comma(a, b)
    <2> DEFINE w == Comma(v, b)
               u == Comma(a, v)
               z == <<Sep>> \o b
    <2>1. w \in Seq(S) /\ u \in Seq(S) /\ s = Comma(a, w)
      BY <1>8, CommaFacts
    <2>2. s = Comma(u, b)
      BY <1>8, CommaGrows
    <2>3. SubSeq(s, 1, Len(a)) = a
      BY <1>8, <2>1, CommaParts
    <2>4. Len(u) = Len(a) + 1 + k /\ Len(a) \in Nat
      BY CommaFacts
    <2>5. z \in Seq(S) /\ s = u \o z /\ Comma(a, b) = a \o z /\ Len(z) = 1 + Len(b) /\ Len(b) \in Nat
      <3>1. Comma(a, b) = a \o z /\ z \in Seq(S) /\ Len(z) = 1 + Len(b) /\ Len(b) \in Nat
        BY CommaInFront
      <3> HIDE DEF u
      <3>2. Comma(u, b) = u \o z
        BY <2>1, CommaInFront
      <3> QED
        BY <2>2, <3>1, <3>2
    <2> HIDE DEF z, u, w
    <2>6. n = Len(u) + Len(z)
      BY <2>1, <2>5, ConcatProperties
    <2>7. SubSeq(s, Len(u) + 1, n) = z
      <3>1. SubSeq(u \o z, Len(u) + 1, Len(u) + Len(z)) = SubSeq(z, Len(u) + 1 - Len(u), Len(u) + Len(z) - Len(u))
        <4>1. Len(u) \in Nat /\ Len(z) \in Nat /\ Len(z) >= 1
          BY <2>1, <2>5, LenProperties
        <4>2. /\ Len(u) + 1 \in Len(u) + 1 .. Len(u) + Len(z)
              /\ Len(u) + Len(z) \in Len(u) + 1 .. Len(u) + Len(z)
          BY <4>1
        <4> QED
          BY <2>1, <2>5, <4>2, SubSeqOfConcat2
      <3>2. Len(u) + 1 - Len(u) = 1 /\ Len(u) + Len(z) - Len(u) = Len(z)
        BY <2>1, <2>5, LenProperties
      <3>3. SubSeq(z, 1, Len(z)) = z
        BY <2>5, SubSeqFull
      <3> QED
        BY <2>5, <2>6, <3>1, <3>2, <3>3
    <2>8. i # 1 /\ i - 2 = Len(a) /\ i + k = Len(u) + 1
      BY <1>1, <1>8, <2>4
    <2> QED
      BY <1>4, <2>3, <2>5, <2>7, <2>8
  <1> QED
    BY <1>5, <1>6, <1>7, <1>8 DEF Leaves

\* What is left of a text is made of the items that are left.
LEMMA ItemsOfPieces ==
    ASSUME NEW S, NEW s \in Seq(S)
    PROVE  /\ Pieces(s) \in Seq(Seq(S))
           /\ Items(s) \in Seq(Seq(S))
           /\ s # <<>> => Items(s) = Pieces(s)
           /\ s = <<>> => Items(s) = <<>> /\ Pieces(s) = <<<<>>>>
  <1>1. Pieces(s) \in Seq(Seq(S))
    BY PiecesGrow DEF Lists
  <1>2. Pieces(<<>>) = <<<<>>>>
    BY PiecesGrow
  <1>3. <<>> \in Seq(Seq(S))
    BY EmptySeq
  <1> QED
    BY <1>1, <1>2, <1>3 DEF Items

\* An item with nothing before it, and with nothing behind it.
LEMMA NothingAround ==
    ASSUME NEW S, NEW p \in Seq(S), NEW v \in S
    PROVE  /\ Around(<<>>, v, p) = <<v>> \o p /\ <<>> \o p = p
           /\ Around(p, v, <<>>) = p \o <<v>> /\ p \o <<>> = p
  <1> DEFINE none == <<>>
             one == <<v>>
  <1>1. none \in Seq(S) /\ one \in Seq(S)
    BY EmptySeq
  <1>2. none \o p = p /\ p \o none = p
    BY ConcatEmptySeq
  <1>3. Around(none, v, p) = (none \o one) \o p /\ Around(p, v, none) = (p \o one) \o none
    BY DEF Around
  <1> HIDE DEF none, one
  <1>4. p \o one \in Seq(S)
    BY <1>1, ConcatProperties
  <1>5. none \o one = one /\ (p \o one) \o none = p \o one
    <2>1. \A u \in Seq(S) : <<>> \o u = u /\ u \o <<>> = u
      BY ConcatEmptySeq
    <2> QED
      BY <1>1, <1>4, <2>1 DEF none
  <1> QED
    BY <1>2, <1>3, <1>5 DEF none, one

(* The items before the first v and behind it are those without it.          *)
TakenFrom(S, s, v) ==
    \E p \in Seq(Seq(S)), q \in Seq(Seq(S)) :
        /\ Pieces(s) = Around(p, v, q)
        /\ Items(Without(s, v, TRUE)) = p \o q
        /\ \A j \in 1 .. Len(p) : p[j] # v

\* A list that an item is taken from: the item, which is the first of its kind, and
\* what is before and behind it; without it the two remain.
LEMMA ItemTaken ==
    ASSUME NEW S, Sep \in S, NEW s \in Seq(S), s # <<>>, NEW v \in Seq(S), v # <<>>, Plain(v),
           \A j \in 1 .. Len(Pieces(s)) : Pieces(s)[j] # <<>>,
           Position(v, s, TRUE) # 0
    PROVE  TakenFrom(S, s, v)
  <1> DEFINE i == Position(v, s, TRUE)
             W == Without(s, v, TRUE)
             none == <<>>
             Goal(p, q) == Pieces(s) = Around(p, v, q) /\ Items(W) = p \o q /\ \A j \in 1 .. Len(p) : p[j] # v
  <1>1. /\ i \in 1 .. Len(s) /\ StandsAt(v, s, i, TRUE)
        /\ \A j \in 1 .. Len(s) : StandsAt(v, s, j, TRUE) => i <= j
    BY FirstPosition
  <1>12. Divides(S, s, v, i) /\ Leaves(S, s, v, i, W)
    <2>1. PICK k \in 1 .. Len(s) : k = i
      BY <1>1
    <2>2. Position(v, s, TRUE) = k /\ StandsAt(v, s, k, TRUE)
      BY <1>1, <2>1
    <2>3. Divides(S, s, v, k)
      BY <2>2, ItemDivides
    <2>4. Leaves(S, s, v, k, Without(s, v, TRUE))
      BY <2>2, WithoutItem
    <2> QED
      BY <2>1, <2>3, <2>4
  <1>2. Pieces(v) = <<v>>
    BY OnePiece
  <1>3. none \in Seq(Seq(S)) /\ Len(none) = 0
    BY EmptySeq
  <1>15. \A j \in 1 .. Len(none) : none[j] # v
    BY <1>3
  <1>16. Items(<<>>) = none
    BY DEF Items
  <1> HIDE DEF none, i, W
  <1>4. ASSUME NEW b \in Seq(S)
        PROVE  Pieces(b) \in Seq(Seq(S)) /\ (b = <<>> => Pieces(b) = <<<<>>>>) /\ (b # <<>> => Items(b) = Pieces(b))
    BY ItemsOfPieces
  <1>5. ASSUME NEW p \in Seq(Seq(S))
        PROVE  /\ Around(none, v, p) = <<v>> \o p /\ none \o p = p
               /\ Around(p, v, none) = p \o <<v>> /\ p \o none = p
    BY NothingAround DEF none
  <1>6. ASSUME NEW a \in Seq(S), NEW w \in Seq(S), s = Comma(a, w), i = Len(a) + 2
        PROVE  /\ \A j \in 1 .. Len(Pieces(a)) : Pieces(a)[j] # v
               /\ a # <<>>
    <2>1. ASSUME NEW j \in 1 .. Len(Pieces(a)), Pieces(a)[j] = v PROVE FALSE
      <3>1. PICK k \in 1 .. Len(a) : StandsAt(v, a, k, TRUE)
        BY <2>1, ItemStands
      <3>2. k \in 1 .. Len(s) /\ StandsAt(v, s, k, TRUE)
        BY <1>6, <3>1, StandsInFront
      <3>3. Len(a) \in Nat
        BY LenProperties
      <3>4. ~(i <= k)
        <4>1. i = Len(a) + 2 /\ k \in 1 .. Len(a)
          BY <1>6
        <4> HIDE DEF i
        <4> QED
          BY <3>3, <4>1
      <3> QED
        BY <1>1, <3>2, <3>4
    <2>2. ASSUME a = <<>> PROVE FALSE
      <3> DEFINE o == Pieces(a)
                 q == Pieces(w)
      <3>1. o = <<<<>>>> /\ q \in Seq(Seq(S)) /\ Pieces(s) = o \o q /\ o \in Seq(Seq(S))
        BY <1>4, <1>6, <2>2, PiecesOfComma
      <3>2. Len(o) = 1 /\ o[1] = <<>> /\ Len(q) \in Nat
        BY <3>1, LenProperties
      <3> HIDE DEF o, q
      <3>3. Len(Pieces(s)) = 1 + Len(q) /\ 1 \in 1 .. 1 + Len(q) /\ Pieces(s)[1] = o[1]
        BY <3>1, <3>2, ConcatProperties
      <3> QED
        BY <3>2, <3>3
    <2> QED
      BY <2>1, <2>2
  <1>7. ASSUME NEW p \in Seq(Seq(S)), NEW b \in Seq(S), Pieces(s) = Around(p, v, Pieces(b))
        PROVE  b # <<>>
    <2> SUFFICES ASSUME b = <<>> PROVE FALSE
      OBVIOUS
    <2> DEFINE o == Pieces(b)
    <2>1. o = <<<<>>>> /\ o \in Seq(Seq(S))
      BY <1>4
    <2>2. Len(o) = 1 /\ o[1] = <<>> /\ 1 \in 1 .. Len(o)
      BY <2>1
    <2> HIDE DEF o
    <2>6. o \in Seq(Seq(S))
      BY <2>1
    <2>3. Len(Around(p, v, o)) = Len(p) + 1 + Len(o) /\ Len(p) \in Nat
      BY <2>6, AroundFacts
    <2>4. \A j \in 1 .. Len(o) : Around(p, v, o)[Len(p) + 1 + j] = o[j]
      BY <2>6, AroundFacts
    <2>5. Len(p) + 1 + 1 \in 1 .. Len(Pieces(s)) /\ Pieces(s)[Len(p) + 1 + 1] = <<>>
      BY <1>7, <2>2, <2>3, <2>4 DEF o
    <2> QED
      BY <2>5
  <1>8. ASSUME i = 1, s = v, W = <<>>
        PROVE  Goal(none, none)
    <2>1. W = <<>>
      BY <1>8
    <2>2. Items(W) = none
      BY <1>16, <2>1
    <2>3. Around(none, v, none) = <<v>> /\ none \o none = none
      <3>1. <<v>> \o none = <<v>>
        <4>1. <<v>> \in Seq(Seq(S))
          OBVIOUS
        <4> QED
          BY <1>5, <4>1
      <3> QED
        BY <1>3, <1>5, <3>1
    <2> QED
      BY <1>2, <1>8, <1>15, <2>2, <2>3
  <1>9. ASSUME NEW b \in Seq(S), i = 1, s = Comma(v, b), W = b
        PROVE  Goal(none, Pieces(b))
    <2>1. W = b
      BY <1>9
    <2>2. Pieces(s) = <<v>> \o Pieces(b)
      BY <1>2, <1>9, PiecesOfComma
    <2>3. Pieces(s) = Around(none, v, Pieces(b)) /\ none \o Pieces(b) = Pieces(b)
      BY <1>4, <1>5, <2>2
    <2>4. b # <<>>
      BY <1>3, <1>7, <2>3
    <2>5. Items(W) = none \o Pieces(b)
      BY <1>4, <2>1, <2>3, <2>4
    <2> QED
      BY <1>15, <2>3, <2>5
  <1>10. ASSUME NEW a \in Seq(S), s = Comma(a, v), i = Len(a) + 2, W = a
         PROVE  Goal(Pieces(a), none)
    <2>1. W = a
      BY <1>10
    <2>2. Pieces(s) = Pieces(a) \o <<v>>
      BY <1>2, <1>10, PiecesOfComma
    <2>3. Pieces(s) = Around(Pieces(a), v, none) /\ Pieces(a) \o none = Pieces(a)
      BY <1>4, <1>5, <2>2
    <2>4. a # <<>> /\ \A j \in 1 .. Len(Pieces(a)) : Pieces(a)[j] # v
      BY <1>6, <1>10
    <2>5. Items(W) = Pieces(a) \o none
      BY <1>4, <2>1, <2>3, <2>4
    <2> QED
      BY <2>3, <2>4, <2>5
  <1>11. ASSUME NEW a \in Seq(S), NEW b \in Seq(S), s = Comma(a, Comma(v, b)), i = Len(a) + 2, W = Comma(a, b)
         PROVE  Goal(Pieces(a), Pieces(b))
    <2>1. W = Comma(a, b)
      BY <1>11
    <2>2. Comma(v, b) \in Seq(S) /\ Comma(a, b) \in Seq(S) /\ Len(Comma(a, b)) = Len(a) + 1 + Len(b)
          /\ Len(a) \in Nat /\ Len(b) \in Nat
      BY CommaFacts
    <2>3. Pieces(s) = Around(Pieces(a), v, Pieces(b))
      <3>1. Pieces(s) = Pieces(a) \o Pieces(Comma(v, b)) /\ Pieces(Comma(v, b)) = <<v>> \o Pieces(b)
        BY <1>2, <1>11, <2>2, PiecesOfComma
      <3>2. Around(Pieces(a), v, Pieces(b)) = Pieces(a) \o (<<v>> \o Pieces(b))
        <4> DEFINE p == Pieces(a)
                   q == Pieces(b)
        <4>1. p \in Seq(Seq(S)) /\ q \in Seq(Seq(S))
          BY <1>4
        <4> HIDE DEF p, q
        <4>2. Around(p, v, q) = p \o (<<v>> \o q)
          BY <4>1, AroundInFront
        <4> QED
          BY <4>2 DEF p, q
      <3> QED
        BY <3>1, <3>2
    <2>4. \A j \in 1 .. Len(Pieces(a)) : Pieces(a)[j] # v
      BY <1>6, <1>11, <2>2
    <2>5. Comma(a, b) # <<>>
      <3>1. Len(Comma(a, b)) # 0
        BY <2>2
      <3> QED
        BY <3>1, EmptySeq
    <2>6. Items(W) = Pieces(a) \o Pieces(b)
      BY <1>4, <2>1, <2>2, <2>5, PiecesOfComma
    <2> QED
      BY <2>3, <2>4, <2>6
  <1> HIDE DEF Goal
  <1>13. \E p \in Seq(Seq(S)), q \in Seq(Seq(S)) : Goal(p, q)
    <2>1. CASE i = 1 /\ s = v
      <3>1. W = <<>>
        BY <1>12, <2>1 DEF Leaves
      <3> QED
        BY <1>3, <1>8, <2>1, <3>1
    <2>2. ASSUME NEW b \in Seq(S), i = 1, s = Comma(v, b)
          PROVE  \E p \in Seq(Seq(S)), q \in Seq(Seq(S)) : Goal(p, q)
      <3>1. W = b
        BY <1>12, <2>2 DEF Leaves
      <3> QED
        BY <1>3, <1>4, <1>9, <2>2, <3>1
    <2>3. ASSUME NEW a \in Seq(S), s = Comma(a, v), i = Len(a) + 2
          PROVE  \E p \in Seq(Seq(S)), q \in Seq(Seq(S)) : Goal(p, q)
      <3>1. W = a
        BY <1>12, <2>3 DEF Leaves
      <3> QED
        BY <1>3, <1>4, <1>10, <2>3, <3>1
    <2>4. ASSUME NEW a \in Seq(S), NEW b \in Seq(S), s = Comma(a, Comma(v, b)), i = Len(a) + 2
          PROVE  \E p \in Seq(Seq(S)), q \in Seq(Seq(S)) : Goal(p, q)
      <3>1. W = Comma(a, b)
        BY <1>12, <2>4 DEF Leaves
      <3> QED
        BY <1>4, <1>11, <2>4, <3>1
    <2> QED
      BY <1>12, <2>1, <2>2, <2>3, <2>4 DEF Divides
  <1> QED
    BY <1>13 DEF Goal, W, TakenFrom

\* Two texts with a comma between them are not the empty text.
LEMMA CommaNotEmpty ==
    ASSUME NEW S, Sep \in S, NEW a \in Seq(S), NEW b \in Seq(S)
    PROVE  Comma(a, b) # <<>> /\ Comma(a, b) \in Seq(S)
  <1>1. Len(a) \in Nat /\ Len(b) \in Nat /\ Len(Comma(a, b)) = Len(a) + 1 + Len(b) /\ Comma(a, b) \in Seq(S)
    BY CommaFacts
  <1>2. Len(Comma(a, b)) # 0
    BY <1>1
  <1> QED
    BY <1>1, <1>2, EmptySeq

\* Taking away what is between two lists.
LEMMA RemovedBetween ==
    ASSUME NEW S, NEW p \in Seq(S), NEW q \in Seq(S), NEW v \in S
    PROVE  RemoveAt(Around(p, v, q), Len(p) + 1) = p \o q
  <1> DEFINE s == Around(p, v, q)
             m == Len(p)
  <1>1. SubSeq(s, 1, m) = p /\ SubSeq(s, m + 2, Len(s)) = q
    BY AroundParts
  <1>2. m \in Nat
    BY LenProperties
  <1> HIDE DEF s, m
  <1>3. (m + 1) - 1 = m /\ (m + 1) + 1 = m + 2
    BY <1>2
  <1>4. RemoveAt(s, m + 1) = SubSeq(s, 1, (m + 1) - 1) \o SubSeq(s, (m + 1) + 1, Len(s))
    BY DEF RemoveAt
  <1>5. RemoveAt(s, m + 1) = p \o q
    BY <1>1, <1>3, <1>4
  <1> QED
    BY <1>5 DEF s, m

\* The text that is made of one that is not empty, and of the empty one.
LEMMA PreparedList ==
    ASSUME NEW S, NEW s \in Seq(S), NEW v \in Seq(S), v # <<>>
    PROVE  /\ s # <<>> => PrepareText(s, v, "remove", TRUE) = Without(s, v, TRUE)
           /\ s # <<>> /\ Position(v, s, TRUE) = 0 =>
                 /\ PrepareText(s, v, "append", TRUE) = Comma(s, v)
                 /\ PrepareText(s, v, "prepend", TRUE) = Comma(v, s)
           /\ s = <<>> =>
                 /\ PrepareText(s, v, "remove", TRUE) = <<>>
                 /\ PrepareText(s, v, "append", TRUE) = v
                 /\ PrepareText(s, v, "prepend", TRUE) = v
  <1>1. ASSUME s # <<>>
        PROVE  PrepareText(s, v, "remove", TRUE) = Without(s, v, TRUE)
    BY <1>1 DEF PrepareText
  <1>2. ASSUME s # <<>>, Position(v, s, TRUE) = 0
        PROVE  PrepareText(s, v, "append", TRUE) = Comma(s, v)
    BY <1>2 DEF PrepareText, Glue, Comma, Around
  <1>3. ASSUME s # <<>>, Position(v, s, TRUE) = 0
        PROVE  PrepareText(s, v, "prepend", TRUE) = Comma(v, s)
    BY <1>3 DEF PrepareText, Glue, Comma, Around
  <1>4. ASSUME s = <<>>
        PROVE  /\ PrepareText(s, v, "remove", TRUE) = <<>>
               /\ PrepareText(s, v, "append", TRUE) = v
               /\ PrepareText(s, v, "prepend", TRUE) = v
    BY <1>4 DEF PrepareText
  <1> QED
    BY <1>1, <1>2, <1>3, <1>4

\* Whatever a list is, but for empty items, and whatever item is removed or added:
\* of the items only the first of its kind goes, and a new one comes to an end of
\* the list; all others stay whole and in their order (prepare_setting_value).
THEOREM ListsChangeByItems ==
    ASSUME NEW S, NEW list \in Seq(S), IsList(list),
           NEW v \in Seq(S), v # <<>>, \A i \in DOMAIN v : v[i] # Sep
    PROVE  RemovesOneItem(list, v) /\ AddsOneItem(list, v)
  <1> DEFINE T == S \cup {Sep}
             Text == Seq(T)
             old == Items(list)
             Now(op) == Items(PrepareText(list, v, op, TRUE))
             at == {i \in DOMAIN old : old[i] = v}
  <1>1. list \in Seq(T) /\ v \in Seq(T) /\ Sep \in T /\ Plain(v)
    <2>1. S \subseteq T
      OBVIOUS
    <2>2. DOMAIN v = 1 .. Len(v)
      BY LenProperties
    <2> HIDE DEF T
    <2> QED
      BY <2>1, <2>2, SeqMonotonic DEF Plain, T
  <1> HIDE DEF T
  <1>2. Items(v) = <<v>> /\ Pieces(v) = <<v>>
    <2>1. Pieces(v) = <<v>>
      BY <1>1, OnePiece
    <2> QED
      BY <2>1 DEF Items
  <1>3. old \in Seq(Text) /\ DOMAIN old = 1 .. Len(old) /\ Len(old) \in Nat
    BY <1>1, ItemsOfPieces, LenProperties
  <1>4. \A i \in 1 .. Len(old) : old[i] # <<>>
    BY <1>3 DEF IsList
  <1>5. CASE list = <<>>
    <2>1. old = <<>> /\ Now("remove") = <<>> /\ Now("append") = <<v>> /\ Now("prepend") = <<v>>
      <3>1. /\ PrepareText(list, v, "remove", TRUE) = <<>>
            /\ PrepareText(list, v, "append", TRUE) = v
            /\ PrepareText(list, v, "prepend", TRUE) = v
        BY <1>1, <1>5, PreparedList
      <3>2. Items(<<>>) = <<>>
        BY DEF Items
      <3> QED
        BY <1>2, <1>5, <3>1, <3>2
    <2>2. at = {}
      <3>1. DOMAIN old = {}
        BY <2>1
      <3> QED
        BY <3>1
    <2>3. RemovesOneItem(list, v)
      BY <2>1, <2>2 DEF RemovesOneItem
    <2>4. Append(<<>>, v) = <<v>> /\ <<v>> \o <<>> = <<v>>
      OBVIOUS
    <2>5. AddsOneItem(list, v)
      BY <2>1, <2>4 DEF AddsOneItem
    <2> QED
      BY <2>3, <2>5
  <1>6. CASE list # <<>>
    <2>1. old = Pieces(list)
      BY <1>1, <1>6, ItemsOfPieces
    <2>2. CASE Position(v, list, TRUE) = 0
      <3>1. \A i \in 1 .. Len(old) : old[i] # v
        <4>1. ASSUME NEW k \in 1 .. Len(old), old[k] = v PROVE FALSE
          <5>1. \E i \in 1 .. Len(list) : StandsAt(v, list, i, TRUE)
            BY <1>1, <2>1, <4>1, ItemStands
          <5>2. \A j \in 1 .. Len(list) : ~StandsAt(v, list, j, TRUE)
            BY <1>1, <2>2, NoPosition
          <5> QED
            BY <5>1, <5>2
        <4> QED
          BY <4>1
      <3>2. at = {}
        BY <1>3, <3>1
      <3>3. Now("remove") = old
        <4>1. PrepareText(list, v, "remove", TRUE) = Without(list, v, TRUE)
          BY <1>1, <1>6, PreparedList
        <4>2. Without(list, v, TRUE) = list
          BY <2>2 DEF Without
        <4> QED
          BY <4>1, <4>2
      <3>4. Now("append") = Append(old, v)
        <4>1. PrepareText(list, v, "append", TRUE) = Comma(list, v)
          BY <1>1, <1>6, <2>2, PreparedList
        <4>2. Comma(list, v) # <<>> /\ Comma(list, v) \in Seq(T)
          BY <1>1, CommaNotEmpty
        <4>3. Items(Comma(list, v)) = Pieces(list) \o <<v>>
          BY <1>1, <1>2, <4>2, PiecesOfComma DEF Items
        <4>4. old \o <<v>> = Append(old, v)
          BY <1>1, <1>3, AppendIsConcat
        <4> QED
          BY <2>1, <4>1, <4>3, <4>4
      <3>5. Now("prepend") = <<v>> \o old
        <4>1. PrepareText(list, v, "prepend", TRUE) = Comma(v, list)
          BY <1>1, <1>6, <2>2, PreparedList
        <4>2. Comma(v, list) # <<>> /\ Comma(v, list) \in Seq(T)
          BY <1>1, CommaNotEmpty
        <4>3. Items(Comma(v, list)) = <<v>> \o Pieces(list)
          BY <1>1, <1>2, <4>2, PiecesOfComma DEF Items
        <4> QED
          BY <2>1, <4>1, <4>3
      <3>6. RemovesOneItem(list, v)
        BY <3>2, <3>3 DEF RemovesOneItem
      <3>7. AddsOneItem(list, v)
        BY <3>4, <3>5 DEF AddsOneItem
      <3> QED
        BY <3>6, <3>7
    <2>3. CASE Position(v, list, TRUE) # 0
      <3>1. PICK p \in Seq(Text), q \in Seq(Text) :
                /\ Pieces(list) = Around(p, v, q)
                /\ Items(Without(list, v, TRUE)) = p \o q
                /\ \A j \in 1 .. Len(p) : p[j] # v
        <4>1. TakenFrom(T, list, v)
          BY <1>1, <1>4, <1>6, <2>1, <2>3, ItemTaken
        <4> QED
          BY <4>1 DEF TakenFrom
      <3> DEFINE k == Len(p) + 1
      <3>2. Now("remove") = p \o q
        <4>1. PrepareText(list, v, "remove", TRUE) = Without(list, v, TRUE)
          BY <1>1, <1>6, PreparedList
        <4> QED
          BY <3>1, <4>1
      <3>3. v \in Text
        BY <1>1
      <3> HIDE DEF Text, old
      <3>4. Len(p) \in Nat /\ Len(q) \in Nat /\ Len(old) = Len(p) + 1 + Len(q) /\ old[Len(p) + 1] = v
        <4>1. /\ Len(p) \in Nat /\ Len(q) \in Nat /\ Len(Around(p, v, q)) = Len(p) + 1 + Len(q)
              /\ Around(p, v, q)[Len(p) + 1] = v
          BY <3>3, AroundFacts
        <4> QED
          BY <2>1, <3>1, <4>1
      <3>5. \A j \in 1 .. Len(p) : old[j] = p[j]
        <4>1. \A j \in 1 .. Len(p) : Around(p, v, q)[j] = p[j]
          BY <3>3, AroundFacts
        <4> QED
          BY <2>1, <3>1, <4>1
      <3>6. RemoveAt(old, k) = p \o q
        <4>1. RemoveAt(Around(p, v, q), Len(p) + 1) = p \o q
          BY <3>3, RemovedBetween
        <4> QED
          BY <2>1, <3>1, <4>1
      <3>7. k \in at
        BY <1>3, <3>4
      <3>8. ASSUME NEW j \in at PROVE k <= j
        <4>1. j \in 1 .. Len(old) /\ old[j] = v
          BY <1>3, <3>8
        <4>2. ~(j \in 1 .. Len(p))
          BY <3>1, <3>5, <4>1
        <4> HIDE DEF at
        <4> QED
          BY <1>3, <3>4, <4>1, <4>2
      <3>9. RemovesOneItem(list, v)
        <4>1. at # {} /\ \E i \in at : (\A j \in at : i <= j) /\ Now("remove") = RemoveAt(old, i)
          <5> HIDE DEF at, k, Now
          <5> QED
            BY <3>2, <3>6, <3>7, <3>8
        <4> QED
          BY <4>1 DEF RemovesOneItem, old
      <3>10. AddsOneItem(list, v)
        <4>1. ~(\A i \in DOMAIN old : old[i] # v)
          BY <3>7
        <4> QED
          BY <4>1 DEF AddsOneItem, old
      <3> QED
        BY <3>9, <3>10
    <2> QED
      BY <2>2, <2>3
  <1> QED
    BY <1>5, <1>6

=============================================================================
