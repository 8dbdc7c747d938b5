--------------------------- MODULE MCHistoryStore ---------------------------
(* HistoryStore with four messages; see MCHistory.cfg.                     *)
EXTENDS HistoryStore
=============================================================================
