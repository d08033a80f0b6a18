--------------------------- MODULE MCBouyomiChan ----------------------------
(* A small instance of BouyomiChan: two objects, three pieces in each, so   *)
(* that a second script comes while the first is being sent.                *)
EXTENDS BouyomiChan
=============================================================================
