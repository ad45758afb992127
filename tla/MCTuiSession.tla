----------------------------- MODULE MCTuiSession -----------------------------
(* Small instances of TuiSession for TLC. *)
EXTENDS TuiSession
=============================================================================
