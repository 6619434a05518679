-------------------------------- MODULE MCEx --------------------------------
(* Lines of up to three commands, two files, of which one runs the other,    *)
(* and shell commands that print two lines, for two tabs.                    *)
EXTENDS Ex

Set(name, op, value) ==
    [kind |-> "set", bang |-> FALSE, name |-> name, op |-> op, value |-> value]
Do(kind) == [kind |-> kind, bang |-> FALSE]
Bang(kind) == [kind |-> kind, bang |-> TRUE]
Source(file) == [kind |-> "source", bang |-> FALSE, file |-> file]
Shellex(output) == [kind |-> "shellex", bang |-> FALSE, output |-> output]
Line(commands) == [commands |-> commands, lead |-> {}]
Spaced(commands) == [commands |-> commands, lead |-> 2 .. Len(commands)]

Item == {<<"a">>, <<"a", "b">>, <<"b">>}
SetCommands ==
    {Set("header", op, v) : op \in {"append", "prepend", "remove"}, v \in Item}
    \cup {Set("header", "set", <<"a", "b", ",", "a">>)}
    \cup {Set("images", "toggle", <<>>), Set("images", "set", FALSE),
          Set("home_page", "append", <<"a">>), Set("home_page", "remove", <<"h">>),
          Set("home_page", "toggle", <<>>), Set("home_page", "get", <<>>),
          Set("scroll_step", "append", 1), Set("scroll_step", "prepend", 2),
          Set("scroll_step", "remove", 3), Set("unknown", "set", <<"a">>),
          Set("strict_ssl", "set", FALSE), Set("stylesheet", "toggle", <<>>),
          Set("user_scripts", "toggle", <<>>), Set("histignore", "append", <<"(">>),
          Set("histignore", "remove", <<"r">>),
          Set("cookie_accept", "set", <<"never">>), Set("cookie_accept", "set", <<"a">>),
          Set("hint_label_css", "set", <<"a">>), Set("hint_link_css", "prepend", <<"a">>)}

Nested == Shellex(<<Line(<<Do("quiet")>>)>>)
Wrong == Set("cookie_accept", "set", <<"a">>)
Mixed ==
    {Line(<<Do("fail"), Do("say")>>), Spaced(<<Do("say"), Do("quiet")>>),
     Line(<<Bang("quiet"), Do("quiet"), Do("unknown")>>),
     Line(<<Do("unknown"), Do("say")>>), Line(<<Wrong, Do("quiet")>>),
     Line(<<Source("outer"), Do("tabopen")>>), Line(<<Do("tabopen"), Do("say")>>),
     Line(<<Shellex(<<Line(<<Do("say")>>), Line(<<Wrong>>), Line(<<Do("quiet")>>)>>), Do("say")>>),
     Line(<<Shellex(<<Line(<<Source("inner"), Do("quiet")>>), Line(<<Do("say")>>)>>), Do("say")>>),
     Line(<<Shellex(<<Line(<<Nested, Do("fail")>>), Line(<<Do("say")>>)>>), Do("quiet")>>),
     Line(<<Shellex(<<Line(<<Nested>>), Line(<<Do("say")>>)>>), Do("quiet")>>)}
MCLines == {Line(<<c>>) : c \in SetCommands} \cup Mixed
MCFiles ==
    [outer |-> <<Line(<<Do("fail")>>), Line(<<Source("inner"), Do("quiet")>>), Line(<<Do("say")>>)>>,
     inner |-> <<Line(<<Do("unknown")>>), Line(<<Do("quiet"), Do("fail"), Do("say")>>)>>]
MCFreed == {<<>>}
MCFreedOutput == {<<>>, <<Line(<<Do("say")>>)>>}
MCConfig == <<Line(<<Set("header", "append", <<"b">>)>>), Line(<<Wrong>>),
              Line(<<Set("hint_label_css", "append", <<"b">>), Do("unknown")>>)>>

Printed(lines) == {c.output : c \in {c \in UNION {ToSet(line.commands) : line \in lines} : c.kind = "shellex"}}
Outputs == Printed(MCLines) \cup {Nested.output}
MCAnyLine ==
    MCLines \cup ToSet(MCConfig) \cup UNION {ToSet(MCFiles[file]) : file \in DOMAIN MCFiles}
            \cup UNION {ToSet(output) : output \in Outputs}

=============================================================================
