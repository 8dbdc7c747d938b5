---------------------------- MODULE MCCommandLine ----------------------------
(* Two peers, one search of each kind. *)
EXTENDS CommandLine
=============================================================================
