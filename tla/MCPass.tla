------------------------------- MODULE MCPass -------------------------------
(* Instances of Pass for TLC.                                              *)
EXTENDS Pass

CONSTANTS t1, t2, h1, u1, s1, s2, f1

TwoTabs == {t1, t2}
OneHost == {h1}
OneUser == {u1}
TwoSecrets == {s1, s2}
OneField == {f1}
\* One entry with a user name and one without.
TwoEntries == {<<h1, u1, u1>>, <<h1, NoUser, NoUser>>}
\* Two entries that were made by hand.
ByHand == {<<h1, u1, NoUser>>, <<h1, NoUser, NoUser>>}
=============================================================================
