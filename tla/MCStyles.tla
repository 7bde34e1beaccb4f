------------------------------ MODULE MCStyles ------------------------------
(* A small sheet to format. *)
EXTENDS StyleSession
=============================================================================
