---------------------------- MODULE AddressLease ----------------------------
(***************************************************************************)
(* What the address pool promises: at any time an address is registered to *)
(* at most one owner, an agent's key or a client's label, and an address   *)
(* never passes from one owner to another in a single step: an owner takes *)
(* one that nobody has.  Owners may lose their addresses, several at once  *)
(* when the master restarts, and then also get back what was saved.        *)
(***************************************************************************)
EXTENDS Naturals

CONSTANTS Owners, Addresses, NoAddress

VARIABLE lease

LeaseInit == lease = [o \in Owners |-> NoAddress]

Unique(map) ==
    \A o, q \in Owners : map[o] # NoAddress /\ map[o] = map[q] => o = q

\* In the next state nobody else has an address that o has now.
NotPassedOn(o) ==
    \A q \in Owners : lease[o] # NoAddress /\ lease'[q] = lease[o] => q = o

LeaseNext ==
    /\ lease' \in [Owners -> Addresses \cup {NoAddress}]
    /\ Unique(lease')
    /\ \A o \in Owners : NotPassedOn(o)

LeaseSpec == LeaseInit /\ [][LeaseNext]_lease
=============================================================================
