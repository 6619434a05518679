------------------------------ MODULE MCKeyMap ------------------------------
(* Instances of KeyMap for TLC.                                            *)
EXTENDS KeyMap

CONSTANTS a, b, csi, normal, insert

MCKey == {a, b}
MCMode == {normal, insert}
MCTyped == {<<a>>, <<b>>, <<csi, a, b>>}
MCStrings == {<<>>, <<a, b>>}

M(lhs, rhs, md, re) == [in |-> lhs, mapped |-> rhs, mode |-> md, remap |-> re]

\* An ambiguous pair, a mapping that starts with its own lhs, a special key on
\* either side, a mapping of the other mode, and there a pair that is replaced by
\* each other without end.
MCMaps == { M(<<a, b>>, <<b, a, b>>, normal, FALSE),
            M(<<a>>, <<a, b>>, normal, TRUE),
            M(<<b>>, <<csi, a, b>>, insert, FALSE),
            M(<<csi, a, b>>, <<b>>, normal, TRUE),
            M(<<a>>, <<csi, a, b>>, insert, TRUE),
            M(<<csi, a, b>>, <<a>>, insert, TRUE) }

\* The user redefines <<a, b>> in normal mode.
MCRedefined == M(<<a, b>>, <<a>>, normal, FALSE)
MCMapSet == MCMaps \cup {MCRedefined}

\* Every mapping is there from the start.
AllMaps == Init /\ maps = MCMaps
AllMapsSpec == AllMaps /\ [][Next]_vars
AllMapsFair == AllMapsSpec /\ Fairness
=============================================================================
