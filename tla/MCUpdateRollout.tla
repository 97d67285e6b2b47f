-------------------------- MODULE MCUpdateRollout --------------------------
(* Instances of UpdateRollout for TLC. *)
EXTENDS UpdateRollout, TLC
=============================================================================
