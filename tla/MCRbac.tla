------------------------------- MODULE MCRbac -------------------------------
(* Instances of Rbac for TLC. *)
EXTENDS Rbac, TLC

Symmetry == Permutations(Slots) \cup Permutations(Subjects \ {Admin})
=============================================================================
