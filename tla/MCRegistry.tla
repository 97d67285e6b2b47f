----------------------------- MODULE MCRegistry -----------------------------
(* Instances of Registry for TLC. *)
EXTENDS Registry, TLC

Symmetry == Permutations(Slots) \cup Permutations(Uploads) \cup Permutations(Manifests)
            \cup Permutations(Tags)

\* The tree and the files do not touch: each is explored while the other is
\* as at the start.
OneHalf ==
    \/ gens = [u \in Uploads |-> 0]
    \/ manifests = {} /\ crossed = {} /\ \A s \in Slots : req[s].op \notin {"scan", "sweep"}
=============================================================================
