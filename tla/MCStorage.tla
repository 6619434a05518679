----------------------------- MODULE MCStorage -----------------------------
(* Instances of Storage for TLC.                                           *)
EXTENDS Storage

CONSTANTS p1, p2, p3, u1, u2

\* Three instances, of which p3 is incognito; two that share every file; one.
ThreeInstances == {p1, p2, p3}
TwoInstances == {p1, p2}
OneInstance == {p1}
OnlyP3 == {p3}
Nobody == {}
TwoUris == {u1, u2}
NoFile == {}
AllFiles == File

\* Instances are killed at any time; at any time but one; never.
Anytime == Kind \cup {NoOp.kind}
NotWriting == Anytime \ {"write"}
Never == {}
=============================================================================
