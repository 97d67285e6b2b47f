----------------------------- MODULE VpnMaster -----------------------------
(***************************************************************************)
(* A master's VPN membership: joins and connections over one address pool  *)
(* and one WireGuard table, and the master being killed and started again. *)
(* Memory is lost (peers, next_ip, spawned tasks, requests); the store's   *)
(* trees stay, and the WireGuard table is rebuilt from the saved peers.    *)
(***************************************************************************)
EXTENDS NodeJoin, Connections

CONSTANTS
    MaxRestarts,   \* bound: restarts in a behaviour
    Lower(_),      \* a name or label in lower case
    LastPart(_),   \* what follows its last dot, all of it without one
    MasterName,    \* "master", reserved in DNS
    OwnName        \* the name in the master's own record

ASSUME RestartAssumption == MaxRestarts \in Nat

VARIABLE restarts

vars == <<poolVars, joinVars, connVars, faults, restarts>>

TypeOK ==
    /\ nextIp \in 2 .. MaxIp + 1
    /\ wg \in [Keys -> OptIp]
    /\ restarts \in 0 .. MaxRestarts
    /\ faults \in 0 .. MaxFaults
    /\ JoinTypeOK
    /\ ConnTypeOK

\* The state after `init` on a new machine: only the master's own record,
\* with address MasterIp, is saved; the model leaves that record out of the
\* maps and counts its address in RecordedIps.
Init ==
    /\ nextIp = MasterIp + 1
    /\ wg = [k \in Keys |-> NoIp]
    /\ restarts = 0
    /\ faults = 0
    /\ JoinInit
    /\ ConnInit

\* Mutant: the start counts agents only.
RecordedNodeIps ==
    {MasterIp}
      \cup {savedPeers[k].ip : k \in {j \in NodeKeys : savedPeers[j].ip # NoIp}}

\* The addresses start_server finds on disk.
RecordedIps ==
    {MasterIp}
      \cup {savedPeers[k].ip : k \in {j \in NodeKeys : savedPeers[j].ip # NoIp}}
      \cup {c.ip : c \in conns}
      \cup {labelIp[l] : l \in {m \in Labels : labelIp[m] # NoIp}}

\* Mutant: the table is left as it was.
OldTable == wg

\* setup_master_with_peers writes a peer per saved record.
SavedTable ==
    [k \in Keys |-> IF k \in NodeKeys THEN savedPeers[k].ip ELSE NoIp]

\* The process dies at any point and is started again.  What the store fails
\* to do at a start is left out.
Restart ==
    /\ restarts < MaxRestarts
    /\ restarts' = restarts + 1
    /\ peers' = savedPeers
    /\ joining' = NotJoining
    /\ tasks' = {}
    /\ proc' = [p \in Procs |-> Idle]
    /\ wg' = SavedTable
    /\ FirstFreeAfter(RecordedIps)
    /\ calm' = {}
    /\ UNCHANGED <<savedPeers, policies, bindings, tokens, joins, held,
                   agentToken, refused, conns, labelIp, connSeq, settled,
                   faults>>

Next ==
    \/ JoinNext /\ UNCHANGED <<connVars, restarts>>
    \/ ConnNext /\ UNCHANGED <<joinVars, restarts>>
    \/ Restart

Spec == Init /\ [][Next]_vars

\* The expiry loop is spawned at the start of the master and never returns.
Fairness ==
    /\ WF_vars(Sweep /\ UNCHANGED <<joinVars, faults, restarts>>)
    /\ WF_vars(Remove(Sweeper) /\ UNCHANGED <<joinVars, faults, restarts>>)

FairSpec == Spec /\ Fairness

\* The addresses in the saved records of nodes with a name, the master's own
\* included.
NodesNamed(name) ==
    {p.ip : p \in {q \in {savedPeers[k] : k \in NodeKeys}
                          \cup {[ip |-> MasterIp, name |-> OwnName]} :
                    q.ip # NoIp /\ Lower(q.name) = name}}

\* handle_dns_query and dns_resolve: the answers for <asked>.r4a.local, which
\* may be any of several.  The query is compared in lower case; the label, as
\* it was given, comes last.
DnsResolve(asked) ==
    LET name == Lower(asked)
    IN  IF LastPart(name) = MasterName THEN {MasterIp}
        ELSE IF NodesNamed(name) # {} THEN NodesNamed(name)
        ELSE IF NodesNamed(LastPart(name)) # {} THEN NodesNamed(LastPart(name))
        ELSE IF name \in Labels THEN {labelIp[name]} \ {NoIp}
        ELSE {}

-----------------------------------------------------------------------------
(* Safety *)

\* An address on the master's books belongs to one owner: two agents in the
\* peers map, two labels, or an agent and a label, never have the same one,
\* before or after a restart, and whatever requests interleave.
Registered(o) == IF o \in NodeKeys THEN peers[o].ip ELSE labelIp[o]

AddressesUnique ==
    \A o, q \in NodeKeys \cup Labels :
        Registered(o) # NoIp /\ Registered(o) = Registered(q) => o = q

\* No key but its owner's has a registered agent's address in the WireGuard
\* table: neither an agent whose record was replaced nor a client takes the
\* traffic of an agent.
WgRoutesOwners ==
    \A j \in NodeKeys, k \in Keys :
        peers[j].ip # NoIp /\ wg[k] = peers[j].ip => k = j

\* An agent that joins again with its key keeps its address for as long as
\* the master runs and does not replace it.
AddressKept ==
    [][restarts' = restarts =>
        \A k \in NodeKeys :
            peers[k].ip # NoIp /\ peers'[k].ip # NoIp
                => peers'[k].ip = peers[k].ip]_vars

\* A stored token of an agent can be used: its policy and the binding of its
\* user to that policy are in the store before it, unless the store failed to
\* write the very one that is missing.  Joins that overlap, a restart and
\* tokens that were not removed leave no other token without its rights.
TokenAuthorised ==
    \A t \in tokens :
        /\ t.id \in policies \/ <<"policy", t.id>> \in refused
        /\ \/ [subject |-> t.username, policy |-> t.id] \in bindings
           \/ <<"binding", t.id>> \in refused

\* On a master that was not restarted, an agent in the peers map has, once
\* the joins are over, the token it was given in the store, unless the store
\* failed to write that token itself: an error with the token's policy or
\* binding, or with the tokens that the join removes, does not lose it.
AgentTokenStored ==
    restarts = 0 /\ joining = NotJoining /\ tasks = {} =>
        \A k \in NodeKeys :
            peers[k].ip # NoIp =>
                \/ [id |-> agentToken[k], username |-> peers[k].name] \in tokens
                \/ <<"token", agentToken[k]>> \in refused

\* A settled label has one active connection (connect_handler evicts the
\* others, main.rs:3458).  Requests for other labels, disconnects, heartbeats,
\* the expiry loop and restarts do not change that, and one undisturbed
\* connect repairs a label that overlapping requests or a failed eviction left
\* with two.
OneConnectionPerLabel ==
    \A c, d \in conns : c.label \in settled /\ c.label = d.label => c = d

\* Names that dns_resolve finds elsewhere than among the labels.
NameTaken(name) ==
    \/ LastPart(name) = MasterName
    \/ NodesNamed(name) # {}
    \/ NodesNamed(LastPart(name)) # {}

\* The name of a settled label, if it has a connection, is resolved to the
\* address of that connection: connect_handler and dns_resolve use the same
\* pinned address, whatever was evicted, expired or connected anew before.
\* The label must be in lower case, and its name not the master's or a node's
\* or below one of them.
DnsFindsConnection ==
    \A c \in conns :
        c.label \in settled /\ Lower(c.label) = c.label /\ ~NameTaken(c.label)
            => DnsResolve(c.label) = {c.ip}

\* The address pinned for a label is permanent (r4a-store lib.rs:746): only a
\* connect of the label that was disturbed replaces it.
PinPermanent ==
    [][\A l \in Labels :
        \/ labelIp[l] \in {NoIp, labelIp'[l]}
        \/ \E r \in Connecting(l) : r \notin calm]_vars

\* An address that an agent still uses is not given to another agent.
TakenAddressNotReissued ==
    \A j, k \in NodeKeys : held[j] # NoIp /\ held[j] = held[k] => j = k

-----------------------------------------------------------------------------
(* The inductive invariant behind AddressesUnique, WgRoutesOwners and      *)
(* LeaseImplemented.  An address is on record in many places at once: in   *)
(* the map, in the saved map, in the snapshots of unfinished tasks, in the *)
(* WireGuard table, in records a request has read.  The invariant says of  *)
(* all the places together that they agree on the owner and lie below      *)
(* next_ip, so that a fresh address is in none of them.                    *)

\* Some place says that agent k has address a.
NodeHas(k, a) ==
    /\ a # NoIp
    /\ \/ peers[k].ip = a
       \/ savedPeers[k].ip = a
       \/ \E t \in tasks : t.snapshot[k].ip = a
       \/ joining.key = k /\ joining.ip = a
       \/ wg[k] = a

\* The records of clients, those read by a running request included.
ClientRecords == conns \cup UNION {proc[p].todo : p \in Procs}

\* Some place says that a client has address a.
ClientHas(a) ==
    /\ a # NoIp
    /\ \/ \E c \in ClientRecords : c.ip = a
       \/ \E p \in Procs : proc[p].ip = a
       \/ \E l \in Labels : labelIp[l] = a
       \/ \E k \in ClientKeys : wg[k] = a

LabelHas(l, a) ==
    /\ a # NoIp
    /\ \/ labelIp[l] = a
       \/ \E p \in Procs : proc[p].label = l /\ proc[p].ip = a

BelowNext ==
    /\ \A k \in NodeKeys, a \in Ip : NodeHas(k, a) => a < nextIp
    /\ \A a \in Ip : ClientHas(a) => a < nextIp

OneNodePerAddress ==
    \A j, k \in NodeKeys, a \in Ip : NodeHas(j, a) /\ NodeHas(k, a) => j = k

NodesApartFromClients ==
    \A k \in NodeKeys, a \in Ip : ~(NodeHas(k, a) /\ ClientHas(a))

OneLabelPerAddress ==
    \A l, m \in Labels, a \in Ip : LabelHas(l, a) /\ LabelHas(m, a) => l = m

AddressInv ==
    /\ BelowNext
    /\ OneNodePerAddress
    /\ NodesApartFromClients
    /\ OneLabelPerAddress

\* Behind the properties of tokens: a task stores the policy, then the
\* binding, then the token, or is refused it, ...
TasksInOrder ==
    \A t \in tasks :
        /\ t.step # "policy" =>
              t.token.id \in policies \/ <<"policy", t.token.id>> \in refused
        /\ t.step \in {"token", "peers"} =>
              \/ [subject |-> t.token.username, policy |-> t.token.id] \in bindings
              \/ <<"binding", t.token.id>> \in refused

\* ... and the token an agent was given is stored, was refused or is still in a
\* task, unless the agent is joining again.
TokenOnItsWay ==
    restarts = 0 =>
        \A k \in NodeKeys :
            peers[k].ip # NoIp /\ (joining = NotJoining \/ k # joining.key) =>
                LET token == [id |-> agentToken[k], username |-> peers[k].name]
                IN  \/ token \in tokens
                    \/ <<"token", token.id>> \in refused
                    \/ \E t \in tasks : t.token = token /\ t.step # "peers"

TokenInv == TasksInOrder /\ TokenAuthorised /\ TokenOnItsWay

\* The join under way goes on with the address its agent has, if any.
JoiningKeeps ==
    joining # NotJoining => peers[joining.key].ip \in {NoIp, joining.ip}

\* Behind the properties of labels.  A settled label's records, those that a
\* heartbeat read included, have its pinned address.
RecordsPinned(records) ==
    \A c \in records : c.label \in settled => labelIp[c.label] = c.ip

Beats(p) == IF proc[p].step = "beat" THEN proc[p].todo ELSE {}

\* An undisturbed connect that will pin an address has found none, and goes on
\* with the one that is pinned, ...
PinsKept(r) ==
    r \in calm =>
        /\ proc[r].label \in Labels
        /\ proc[r].step = "pin" => labelIp[proc[r].label] = NoIp
        /\ proc[r].step \in {"tunnel", "record"}
              => labelIp[proc[r].label] = proc[r].ip

\* ... the connections of its label that it has not listed are gone, ...
Listed(p) == {c.id : c \in proc[p].todo} \cup {proc[p].victim}
OthersEvicted(r) ==
    \A c \in conns : r \in calm /\ c.label = proc[r].label =>
        /\ proc[r].step = "evict"
        /\ c.id \in Listed(r)

\* ... no other request touches its label, ...
ConnectsApart ==
    \A r, s \in Slots : r # s /\ r \in calm => proc[r].label \notin Touched(s)

\* ... and every connect of a settled label is such a connect.
SettledConnects ==
    \A r \in Slots : proc[r].label \in settled => r \in calm

\* The connection of a settled label that a heartbeat read is still the only
\* one of its label, also among those that other heartbeats read.
BeatsOwn(p) ==
    \A b \in Beats(p), c \in conns :
        b.label \in settled /\ c.label = b.label => c.id = b.id

BeatsAgree ==
    \A p, q \in Slots : \A b \in Beats(p), c \in Beats(q) :
        b.label \in settled /\ c.label = b.label => c.id = b.id

SlotLabels(r) ==
    PinsKept(r) /\ OthersEvicted(r) /\ RecordsPinned(Beats(r)) /\ BeatsOwn(r)

LabelInv ==
    /\ \A r \in Slots : SlotLabels(r)
    /\ ConnectsApart
    /\ SettledConnects
    /\ BeatsAgree
    /\ RecordsPinned(conns)
    /\ OneConnectionPerLabel

-----------------------------------------------------------------------------
(* Liveness *)

\* A connection that stays silent is removed in the end.
SilentConnectionRemoved ==
    \A i \in ConnId :
        (\E c \in Silent : c.id = i) ~> ~(\E c \in Silent : c.id = i)

-----------------------------------------------------------------------------
(* The pool implements AddressLease. *)

Lease == INSTANCE AddressLease
           WITH Owners <- NodeKeys \cup Labels, Addresses <- Ip,
                NoAddress <- NoIp,
                lease <- [o \in NodeKeys \cup Labels |-> Registered(o)]

LeaseImplemented == Lease!LeaseSpec
=============================================================================
