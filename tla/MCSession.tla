----------------------------- MODULE MCSession ------------------------------
(***************************************************************************)
(* Session on a window of three packets: five counters per direction are   *)
(* enough for the window to slide by less than, exactly and more than its  *)
(* width, and for a late packet to fall inside it, on its edge and outside.*)
(***************************************************************************)
EXTENDS Session
=============================================================================
