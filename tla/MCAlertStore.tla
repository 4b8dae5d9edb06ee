---------------------------- MODULE MCAlertStore ----------------------------
(* Small instances of AlertStore for TLC. *)
EXTENDS AlertStore
=============================================================================
