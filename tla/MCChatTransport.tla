--------------------------- MODULE MCChatTransport --------------------------
(* One stream: three messages for safety, two with retries for liveness. *)
EXTENDS ChatTransport
=============================================================================
