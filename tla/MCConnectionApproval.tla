------------------------ MODULE MCConnectionApproval ------------------------
(* ConnectionApproval with two peers and three answers; see MCApproval.cfg. *)
EXTENDS ConnectionApproval
=============================================================================
