----------------------------- MODULE MCWebBridge ----------------------------
(* Two tabs, which are alike. *)
EXTENDS WebBridge, TLC

TabSymmetry == Permutations(Tabs)
=============================================================================
