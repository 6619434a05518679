------------------------------ MODULE MCCmdLine -----------------------------
(* Two commands and two arguments that begin alike; a command with its blank *)
(* in one history and two searches that begin alike in the other; one letter *)
(* is typed, and behind ":" also a digit, the count of a command.            *)
EXTENDS CmdLine

MCChar == {"a", "b", "5", " ", ":", "/", "m", "none"}
MCNameList == <<<<"a", "a">>, <<"a", "b">>>>
MCArgList == <<<<"a">>, <<"b">>>>
MCLines == [p \in Prompts |-> IF p = ":" THEN <<<<"a", " ">>>> ELSE <<<<"a", "b">>, <<"a">>>>]
MCKeys == [p \in Prompts |-> IF p = ":" THEN {"a", "5"} ELSE {"a"}]
MCMaxText == [p \in Prompts |-> 2]
=============================================================================
