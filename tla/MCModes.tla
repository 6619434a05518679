------------------------------ MODULE MCModes ------------------------------
(* Instances of Modes for TLC.                                             *)
EXTENDS Modes

CONSTANTS a, b

OneTab == {a}
TwoTabs == {a, b}
Swapped == Permutations(TwoTabs)

\* All keys; and enough to type a command, start hints, take one and give up.
AllKeys == Key
FewKeys == {"esc", "f", ":", "enter"}
=============================================================================
