---------------------------- MODULE MCHandshake -----------------------------
(* Handshake with a few keys; see MCHandshake.cfg.                          *)
EXTENDS Handshake
=============================================================================
