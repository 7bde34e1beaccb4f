------------------------------ MODULE MCPacing ------------------------------
(* Small numbers for the buckets and the backoff. *)
EXTENDS Pacing

TwoSeeds == {0, 1}
=============================================================================
