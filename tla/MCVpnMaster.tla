---------------------------- MODULE MCVpnMaster ----------------------------
(* Instances of VpnMaster for TLC. *)
EXTENDS VpnMaster, TLC

\* Agents give names with capitals; a label is a name below that of an agent.
MCLower(name) == IF name \in Names THEN "node" ELSE name
MCLastPart(name) == IF name \in Labels THEN "node" ELSE name

Symmetry ==
    Permutations(NodeKeys) \cup Permutations(ClientKeys)
      \cup Permutations(Names) \cup Permutations(Slots)
      \cup Permutations(Labels)

\* Two requests of clients overlap only with each other: not with the expiry
\* loop or a join, and not after a restart or an error of the store.  The
\* store fails in behaviours without joins, in which the expiry loop and a
\* request do not overlap after the error.
FewOverlaps ==
    /\ (\E r, s \in Slots : r # s /\ proc[r] # Idle /\ proc[s] # Idle) =>
          /\ proc[Sweeper] = Idle
          /\ joining = NotJoining /\ tasks = {}
          /\ restarts = 0 /\ faults = 0
    /\ faults # 0 =>
          /\ joining = NotJoining /\ joins = 0
          /\ proc[Sweeper] = Idle \/ \A r \in Slots : proc[r] = Idle
=============================================================================
