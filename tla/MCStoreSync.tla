---------------------------- MODULE MCStoreSync ----------------------------
(* Instances of StoreSync for TLC. *)
EXTENDS StoreSync, TLC

Symmetry == Permutations(Masters \ {First}) \cup Permutations(Allowed)
=============================================================================
