------------------------------ MODULE MCVault ------------------------------
(* Instances of Vault for TLC. *)
EXTENDS Vault, TLC

Symmetry == Permutations(Named)

\* A POST changes trees that a creation or a start does not read: what is on
\* its way while one is under way is not explored.
PostsApart ==
    wire # {} => creating = {} /\ \A m \in Masters : phase[m] \in {"down", "up"}

\* The store fails in behaviours in which the masters post nothing to each
\* other, and at most one config was made.
FaultsApart ==
    faults # 0 =>
        /\ wire = {} /\ Cardinality(made) <= 1
        /\ \A m \in Masters, c \in Configs :
              /\ vault[m][c] # NoDek => vault[m][c].at = m
              /\ c \in configs[m] => c = Default \/ meta[m][c] # NoBlob
=============================================================================
