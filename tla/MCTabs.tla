------------------------------- MODULE MCTabs -------------------------------
(* Instances of Tabs for TLC.  The constants are bounds only.              *)
EXTENDS Tabs
=============================================================================
