------------------------------ MODULE P2pSync ------------------------------
(***************************************************************************)
(* Direct tunnels of one agent to other agents: run_p2p_sync, which every  *)
(* 30 s fetches the peers list of the master and the handshake times of    *)
(* the kernel and then adds, watches or removes a WireGuard peer per agent *)
(* of the list.  An agent with a direct peer in the kernel is reached      *)
(* through it, any other through the hub.                                  *)
(*                                                                         *)
(* Of time the model keeps what the loop asks of it: whether a handshake   *)
(* is younger than 180 s (alive), whether 60 s have passed since a peer    *)
(* was added (graced) and whether its back-off is over (cooled).           *)
(***************************************************************************)
EXTENDS Naturals

CONSTANTS
    Agents,              \* the other agents
    Endpoints,
    NoEndpoint,
    WgMayFail            \* TRUE: `wg set` and `wg show` may fail

ASSUME P2pAssumption ==
    /\ NoEndpoint \notin Endpoints
    /\ WgMayFail \in BOOLEAN

VARIABLES
    list,      \* what the master's /api/peers says of each agent
    tunnel,    \* the kernel has the agent as a direct peer
    alive,     \* its last handshake is younger than P2P_STALE_SECS
    graced,    \* P2P_GRACE_SECS have passed since it was added
    cooled,    \* its back-off is over
    states,    \* the map states of the loop
    round,     \* the running iteration of the loop
    direct,    \* p2p_direct_out, reported with the metrics
    stray      \* history: agents whose direct peer could not be removed

p2pVars == <<list, tunnel, alive, graced, cooled, states, round, direct, stray>>
envVars == <<list, alive, graced, cooled>>

Entry == [listed : BOOLEAN, endpoint : Endpoints \cup {NoEndpoint},
          public : BOOLEAN]
PeerState == [phase : {"none", "active", "backoff"},
              endpoint : Endpoints \cup {NoEndpoint}, established : BOOLEAN]
NoState == [phase |-> "none", endpoint |-> NoEndpoint, established |-> FALSE]
Round == [running : BOOLEAN, todo : SUBSET Agents,
          peers : [Agents -> Entry], handshake : [Agents -> BOOLEAN]]
Unlisted == [listed |-> FALSE, endpoint |-> NoEndpoint, public |-> FALSE]
Waiting == [running |-> FALSE, todo |-> {},
            peers |-> [a \in Agents |-> Unlisted],
            handshake |-> [a \in Agents |-> FALSE]]

P2pTypeOK ==
    /\ list \in [Agents -> Entry]
    /\ tunnel \in [Agents -> BOOLEAN]
    /\ alive \in [Agents -> BOOLEAN]
    /\ graced \in [Agents -> BOOLEAN]
    /\ cooled \in [Agents -> BOOLEAN]
    /\ states \in [Agents -> PeerState]
    /\ round \in Round
    /\ direct \subseteq Agents
    /\ stray \subseteq Agents
    /\ ~round.running => round.todo = {}
    /\ \A a \in Agents :
         states[a].phase = "none" <=> states[a].endpoint = NoEndpoint

P2pInit ==
    /\ list = [a \in Agents |-> Unlisted]
    /\ tunnel = [a \in Agents |-> FALSE]
    /\ alive = [a \in Agents |-> FALSE]
    /\ graced = [a \in Agents |-> FALSE]
    /\ cooled = [a \in Agents |-> FALSE]
    /\ states = [a \in Agents |-> NoState]
    /\ round = Waiting
    /\ direct = {}
    /\ stray = {}

-----------------------------------------------------------------------------
(* The surroundings of the loop *)

\* The master lists an agent, sees another endpoint of it or drops it.
ListChanges(a) ==
    /\ \E e \in Endpoints \cup {NoEndpoint}, listed, public \in BOOLEAN :
         /\ ~listed => e = NoEndpoint
         /\ public => e # NoEndpoint
         /\ list' = [list EXCEPT ![a] = [listed |-> listed, endpoint |-> e,
                                         public |-> public]]
    /\ UNCHANGED <<tunnel, alive, graced, cooled, states, round, direct, stray>>

HandshakeStarts(a) ==
    /\ tunnel[a]
    /\ alive' = [alive EXCEPT ![a] = TRUE]
    /\ UNCHANGED <<list, tunnel, graced, cooled, states, round, direct, stray>>

HandshakeStops(a) ==
    /\ alive[a]
    /\ alive' = [alive EXCEPT ![a] = FALSE]
    /\ UNCHANGED <<list, tunnel, graced, cooled, states, round, direct, stray>>

\* Time passes.
GraceEnds(a) ==
    /\ states[a].phase = "active" /\ ~graced[a]
    /\ graced' = [graced EXCEPT ![a] = TRUE]
    /\ UNCHANGED <<list, tunnel, alive, cooled, states, round, direct, stray>>

BackoffEnds(a) ==
    /\ states[a].phase = "backoff" /\ ~cooled[a]
    /\ cooled' = [cooled EXCEPT ![a] = TRUE]
    /\ UNCHANGED <<list, tunnel, alive, graced, states, round, direct, stray>>

\* The agent is started again: `connect` sets up the interface anew.
AgentRestart ==
    /\ tunnel' = [a \in Agents |-> FALSE]
    /\ alive' = [a \in Agents |-> FALSE]
    /\ states' = [a \in Agents |-> NoState]
    /\ round' = Waiting
    /\ direct' = {}
    /\ stray' = {}
    /\ UNCHANGED <<list, graced, cooled>>

-----------------------------------------------------------------------------
(* The loop *)

\* The list was fetched; if `wg show` fails there are no handshakes.
Fetch ==
    /\ ~round.running
    /\ \E shown \in {alive} \cup (IF WgMayFail THEN {Waiting.handshake} ELSE {}) :
         round' = [running |-> TRUE, todo |-> Agents, peers |-> list,
                   handshake |-> shown]
    /\ UNCHANGED <<envVars, tunnel, states, direct, stray>>

\* The agent of the list that the iteration looks at.
Candidate(a) ==
    /\ a \in round.todo
    /\ round.peers[a].endpoint # NoEndpoint
Done(a) == round' = [round EXCEPT !.todo = @ \ {a}]
Endpoint(a) == round.peers[a].endpoint

\* try_add_p2p_peer succeeds: the peer is watched from now on.
Added(a) ==
    /\ tunnel' = [tunnel EXCEPT ![a] = TRUE]
    /\ graced' = [graced EXCEPT ![a] = FALSE]
    /\ states' = [states EXCEPT ![a] = [phase |-> "active",
                                        endpoint |-> Endpoint(a),
                                        established |-> FALSE]]
    /\ stray' = stray \ {a}
    /\ UNCHANGED <<list, alive, cooled, direct>>

\* ... or fails, and nothing is noted.
AddFailed == WgMayFail /\ UNCHANGED <<envVars, tunnel, states, direct, stray>>

\* The agent is not on the list, is listed as a master or has no endpoint.
Skip(a) ==
    /\ a \in round.todo
    /\ round.peers[a].endpoint = NoEndpoint
    /\ Done(a)
    /\ UNCHANGED <<envVars, tunnel, states, direct, stray>>

AddNew(a) ==
    /\ Candidate(a)
    /\ states[a].phase = "none"
    /\ Added(a) \/ AddFailed
    /\ Done(a)

\* Mutant: only a new endpoint ends a back-off.
RetryOnNewEndpoint(a) == states[a].endpoint # Endpoint(a)

RetryDue(a) == cooled[a] \/ states[a].endpoint # Endpoint(a)

Retry(a) ==
    /\ Candidate(a)
    /\ states[a].phase = "backoff"
    /\ \/ RetryDue(a) /\ (Added(a) \/ AddFailed)
       \/ ~RetryDue(a) /\ UNCHANGED <<envVars, tunnel, states, direct, stray>>
    /\ Done(a)

\* A live tunnel is established, and added again when its agent has moved.
WatchAlive(a) ==
    /\ Candidate(a)
    /\ states[a].phase = "active"
    /\ round.handshake[a]
    /\ LET moved == /\ states[a].endpoint # Endpoint(a)
                    /\ round.peers[a].public
       IN  \/ moved /\ Added(a)
           \/ /\ ~moved \/ WgMayFail
              /\ states' = [states EXCEPT ![a].established = TRUE]
              /\ UNCHANGED <<envVars, tunnel, direct, stray>>
    /\ Done(a)

\* Mutant: the peer stays in the kernel.
GiveUpNoRemove(a) ==
    /\ Candidate(a)
    /\ states[a].phase = "active"
    /\ ~round.handshake[a] /\ graced[a]
    /\ states' = [states EXCEPT ![a].phase = "backoff", ![a].established = FALSE]
    /\ cooled' = [cooled EXCEPT ![a] = FALSE]
    /\ Done(a)
    /\ UNCHANGED <<list, tunnel, alive, graced, direct, stray>>

\* Mutant: the state stays established.
GiveUpStillEstablished(a) ==
    /\ Candidate(a)
    /\ states[a].phase = "active"
    /\ ~round.handshake[a] /\ graced[a]
    /\ states' = [states EXCEPT ![a].phase = "backoff"]
    /\ cooled' = [cooled EXCEPT ![a] = FALSE]
    /\ Done(a)
    /\ tunnel' = [tunnel EXCEPT ![a] = FALSE]
    /\ alive' = [alive EXCEPT ![a] = FALSE]
    /\ UNCHANGED <<list, graced, direct, stray>>

\* remove_peer of each agent of a set; a failure is logged or ignored.
Dropped(set) ==
    \E failed \in SUBSET set :
        /\ failed # {} => WgMayFail
        /\ tunnel' = [a \in Agents |-> tunnel[a] /\ a \notin set \ failed]
        /\ alive' = [a \in Agents |-> alive[a] /\ a \notin set \ failed]
        /\ stray' = (stray \ set) \cup failed

\* No handshake came, or the tunnel died: back-off, and back to the hub.
GiveUp(a) ==
    /\ Candidate(a)
    /\ states[a].phase = "active"
    /\ ~round.handshake[a] /\ graced[a]
    /\ states' = [states EXCEPT ![a].phase = "backoff", ![a].established = FALSE]
    /\ cooled' = [cooled EXCEPT ![a] = FALSE]
    /\ Dropped({a})
    /\ Done(a)
    /\ UNCHANGED <<list, graced, direct>>

KeepTrying(a) ==
    /\ Candidate(a)
    /\ states[a].phase = "active"
    /\ ~round.handshake[a] /\ ~graced[a]
    /\ Done(a)
    /\ UNCHANGED <<envVars, tunnel, states, direct, stray>>

Look(a) ==
    \/ Skip(a)
    \/ AddNew(a)
    \/ Retry(a)
    \/ WatchAlive(a)
    \/ GiveUp(a)
    \/ KeepTrying(a)

\* Mutant: agents that left the list are not looked for.
GoneNever == {}

\* The agents that left the list and have a state.
Gone == {a \in Agents : states[a].phase # "none" /\ ~round.peers[a].listed}

\* The end of an iteration: peers of agents that are gone are removed unless
\* they are in back-off, and the established ones are published.
Finish ==
    /\ round.running /\ round.todo = {}
    /\ Dropped({a \in Gone : states[a].phase = "active"})
    /\ states' = [a \in Agents |-> IF a \in Gone THEN NoState ELSE states[a]]
    /\ direct' = {a \in Agents : states'[a].established}
    /\ round' = Waiting
    /\ UNCHANGED <<list, graced, cooled>>

P2pNext ==
    \/ \E a \in Agents : ListChanges(a)
    \/ \E a \in Agents : HandshakeStarts(a)
    \/ \E a \in Agents : HandshakeStops(a)
    \/ \E a \in Agents : GraceEnds(a)
    \/ \E a \in Agents : BackoffEnds(a)
    \/ AgentRestart
    \/ Fetch
    \/ \E a \in Agents : Look(a)
    \/ Finish

P2pSpec == P2pInit /\ [][P2pNext]_p2pVars

\* The loop runs for ever and reaches the master; time passes; `wg set` does
\* not fail every time.
P2pFairness ==
    /\ WF_p2pVars(Fetch)
    /\ WF_p2pVars(Finish)
    /\ \A a \in Agents : /\ WF_p2pVars(Look(a))
                         /\ SF_p2pVars(Look(a) /\ Added(a))
                         /\ WF_p2pVars(GraceEnds(a))
                         /\ WF_p2pVars(BackoffEnds(a))

P2pFairSpec == P2pSpec /\ P2pFairness

-----------------------------------------------------------------------------
(* Properties *)

\* Between iterations the agents reported as direct have a direct peer in the
\* kernel, also when `wg` commands fail.
ReportedAreDirect ==
    ~round.running => \A a \in direct : tunnel[a]

\* The strengthening of ReportedAreDirect: what is established is watched,
\* and what is watched is in the kernel.
WatchInv ==
    /\ \A a \in Agents : states[a].established => states[a].phase = "active"
    /\ \A a \in Agents : states[a].phase = "active" => tunnel[a]
    /\ ReportedAreDirect

\* The kernel's direct peers are those the loop watches and those that `wg`
\* failed to remove: traffic to another agent in back-off, or to one the loop
\* forgot, takes the hub.
RelayUnlessWatched ==
    \A a \in Agents : tunnel[a] <=> states[a].phase = "active" \/ a \in stray

\* The tunnel of a listed agent that has no handshake is removed, so that
\* traffic falls back to the hub, unless it comes alive again, or the agent
\* is listed without endpoint, when the loop passes it over (main.rs:699).
DeadTunnelDropped ==
    \A a \in Agents :
        tunnel[a] /\ ~alive[a]
            ~> ~tunnel[a] \/ alive[a] \/ list[a].endpoint = NoEndpoint
                 \/ a \in stray

\* The tunnel of an agent that left the cluster is removed.
GoneTunnelDropped ==
    \A a \in Agents : tunnel[a] /\ ~list[a].listed
                         ~> ~tunnel[a] \/ list[a].listed \/ a \in stray

\* A back-off does not last for ever: an agent that stays in the list with an
\* endpoint gets a tunnel again.
BackoffRetried ==
    \A a \in Agents :
        states[a].phase = "backoff"
            ~> states[a].phase # "backoff" \/ list[a].endpoint = NoEndpoint
=============================================================================
