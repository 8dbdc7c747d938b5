---------------------------- MODULE MCLocalStore ----------------------------
(* LocalStore with a few peers and callers; see MCLocalStore.cfg.           *)
EXTENDS LocalStore
=============================================================================
