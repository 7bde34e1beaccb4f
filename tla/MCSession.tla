----------------------------- MODULE MCSession -----------------------------
(* Small instances of the editing sessions for TLC. *)
EXTENDS SheetReference
=============================================================================
