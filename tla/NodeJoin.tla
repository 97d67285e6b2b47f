------------------------------ MODULE NodeJoin ------------------------------
(***************************************************************************)
(* Agents joining a master: join_handler, which runs under the peers lock, *)
(* and the detached task it spawns, which persists the agent's policy,     *)
(* binding and token and then the snapshot of the peers map that the join  *)
(* took.  Nothing orders the tasks of two joins.  An error of the store    *)
(* stops neither the handler nor the task.                                 *)
(***************************************************************************)
EXTENDS AddressPool, StoreFaults

CONSTANTS
    Names,      \* node names, the default "<role>-<octet>" being one of them
    NoName,
    MaxJoins    \* bound: joins answered in a behaviour

ASSUME JoinAssumption ==
    /\ NoName \notin Names
    /\ MaxJoins \in Nat

VARIABLES
    peers,       \* AppState.peers
    savedPeers,  \* the value of the store's key core/peers
    joining,     \* the join that holds the peers lock, between its two parts
    tasks,       \* spawned tasks that have not finished
    policies,    \* ids in the store's tree policies (that of a token's policy)
    bindings,    \* subject and policy in the store's tree bindings
    tokens,      \* id and username in the store's tree tokens
    joins,       \* number of joins answered, the supply of fresh token ids
    held,        \* the address an agent configured from its last reply
    agentToken,  \* the token an agent keeps from its last reply
    refused      \* history: what a task could not store, and of which token

joinVars == <<peers, savedPeers, joining, tasks, policies, bindings, tokens,
              joins, held, agentToken, refused>>

Peer == [ip : OptIp, name : Names \cup {NoName}]
Absent == [ip |-> NoIp, name |-> NoName]
PeerMap == [NodeKeys -> Peer]
TokenId == 1 .. MaxJoins
Token == [id : TokenId, username : Names]
TaskStep == {"policy", "binding", "token", "peers"}
Task == [join : TokenId, step : TaskStep, token : Token, snapshot : PeerMap]
Joining == [key : NodeKeys, name : Names, ip : Ip]
NotJoining == [key |-> NoName, name |-> NoName, ip |-> NoIp]

JoinTypeOK ==
    /\ peers \in PeerMap
    /\ savedPeers \in PeerMap
    /\ joining \in Joining \cup {NotJoining}
    /\ tasks \subseteq Task
    /\ policies \subseteq TokenId
    /\ bindings \subseteq [subject : Names, policy : TokenId]
    /\ tokens \subseteq Token
    /\ joins \in 0 .. MaxJoins
    /\ held \in [NodeKeys -> OptIp]
    /\ agentToken \in [NodeKeys -> 0 .. MaxJoins]
    /\ refused \subseteq TaskStep \X TokenId
    /\ joining # NotJoining => joins < MaxJoins

JoinInit ==
    /\ peers = [k \in NodeKeys |-> Absent]
    /\ savedPeers = [k \in NodeKeys |-> Absent]
    /\ joining = NotJoining
    /\ tasks = {}
    /\ policies = {}
    /\ bindings = {}
    /\ tokens = {}
    /\ joins = 0
    /\ held = [k \in NodeKeys |-> NoIp]
    /\ agentToken = [k \in NodeKeys |-> 0]
    /\ refused = {}

\* Keys other than k that the map records under the same name.
Namesakes(k, n) == {j \in NodeKeys \ {k} : peers[j].name = n}

\* Mutant: every join takes a new address.
AddressAlwaysNew(k, ip) == Allocate(ip)

\* A key already in the map keeps its address, a new one takes the next.
AddressOf(k, ip) ==
    \/ /\ peers[k].ip # NoIp
       /\ ip = peers[k].ip
       /\ UNCHANGED nextIp
    \/ /\ peers[k].ip = NoIp
       /\ Allocate(ip)

\* First part of join_handler: take the lock, choose the address, drop other
\* keys of the name and the tokens of the name but those in kept, set the
\* WireGuard peer.  The peer of a dropped key stays in the WireGuard table.
JoinBegin(k, n, ip, kept) ==
    /\ joining = NotJoining
    /\ joins < MaxJoins
    /\ AddressOf(k, ip)
    /\ peers' = [j \in NodeKeys |->
                    IF j \in Namesakes(k, n) THEN Absent ELSE peers[j]]
    /\ held' = [j \in NodeKeys |->
                    IF j \in Namesakes(k, n) THEN NoIp ELSE held[j]]
    /\ tokens' = {t \in tokens : t.username # n} \cup kept
    /\ WgCommand(WgWith(k, ip))
    /\ joining' = [key |-> k, name |-> n, ip |-> ip]
    /\ UNCHANGED <<savedPeers, tasks, policies, bindings, joins, agentToken>>

NewToken(n) == [id |-> joins + 1, username |-> n]

\* A token of the name stored since the first part removed them (by the task
\* of an earlier join) is used again; otherwise a new one is made.
TokenFor(n) ==
    LET found == {t \in tokens : t.username = n}
    IN  IF found = {} THEN {NewToken(n)} ELSE found

\* Second part: with the token t, record the peer, spawn the task, reply.
JoinEnd(t) ==
    /\ joining # NotJoining
    /\ LET k == joining.key
           n == joining.name
       IN  /\ peers' = [peers EXCEPT ![k] = [ip |-> joining.ip, name |-> n]]
           /\ held' = [held EXCEPT ![k] = joining.ip]
           /\ agentToken' = [agentToken EXCEPT ![k] = t.id]
           /\ tasks' = tasks \cup
                {[join |-> joins + 1, step |-> "policy", token |-> t,
                  snapshot |-> peers']}
    /\ joins' = joins + 1
    /\ joining' = NotJoining
    /\ UNCHANGED <<savedPeers, policies, bindings, tokens>>
    /\ UNCHANGED poolVars

Advance(t, step) == tasks' = (tasks \ {t}) \cup {[t EXCEPT !.step = step]}

\* Mutant: the binding is left out.
TaskPutPolicyOnly(t) ==
    /\ t.step = "policy"
    /\ policies' = policies \cup {t.token.id}
    /\ Advance(t, "token")
    /\ UNCHANGED <<peers, savedPeers, joining, bindings, tokens, joins, held,
                   agentToken>>
    /\ UNCHANGED poolVars

TaskPutPolicy(t) ==
    /\ t.step = "policy"
    /\ policies' = policies \cup {t.token.id}
    /\ Advance(t, "binding")
    /\ UNCHANGED <<peers, savedPeers, joining, bindings, tokens, joins, held,
                   agentToken>>
    /\ UNCHANGED poolVars

TaskPutBinding(t) ==
    /\ t.step = "binding"
    /\ bindings' = bindings \cup
         {[subject |-> t.token.username, policy |-> t.token.id]}
    /\ Advance(t, "token")
    /\ UNCHANGED <<peers, savedPeers, joining, policies, tokens, joins, held,
                   agentToken>>
    /\ UNCHANGED poolVars

TaskPutToken(t) ==
    /\ t.step = "token"
    /\ tokens' = tokens \cup {t.token}
    /\ Advance(t, "peers")
    /\ UNCHANGED <<peers, savedPeers, joining, policies, bindings, joins, held,
                   agentToken>>
    /\ UNCHANGED poolVars

\* The snapshot replaces whatever a task of another join has saved.
TaskSavePeers(t) ==
    /\ t.step = "peers"
    /\ savedPeers' = t.snapshot
    /\ tasks' = tasks \ {t}
    /\ UNCHANGED <<peers, joining, policies, bindings, tokens, joins, held,
                   agentToken>>
    /\ UNCHANGED poolVars

\* Mutant: the task ends at the first error.
TaskStops(t) ==
    /\ t.step # "peers"
    /\ tasks' = tasks \ {t}
    /\ refused' = refused \cup {<<t.step, t.token.id>>}
    /\ UNCHANGED <<peers, savedPeers, joining, policies, bindings, tokens,
                   joins, held, agentToken>>
    /\ UNCHANGED poolVars

After(step) ==
    CASE step = "policy" -> "binding" [] step = "binding" -> "token" [] OTHER -> "peers"

\* put_policy, put_binding or put_token fails: the task does the next step.
TaskRefused(t) ==
    /\ t.step # "peers"
    /\ Advance(t, After(t.step))
    /\ refused' = refused \cup {<<t.step, t.token.id>>}
    /\ UNCHANGED <<peers, savedPeers, joining, policies, bindings, tokens,
                   joins, held, agentToken>>
    /\ UNCHANGED poolVars

\* save_peers fails, which it logs.
TaskSaveFails(t) ==
    /\ t.step = "peers"
    /\ tasks' = tasks \ {t}
    /\ UNCHANGED <<peers, savedPeers, joining, policies, bindings, tokens,
                   joins, held, agentToken, refused>>
    /\ UNCHANGED poolVars

JoinTask(t) ==
    \/ TaskPutPolicy(t)
    \/ TaskPutBinding(t)
    \/ TaskPutToken(t)
    \/ TaskSavePeers(t)

JoinStep ==
    \/ \E k \in NodeKeys, n \in Names, ip \in Ip : JoinBegin(k, n, ip, {})
    \/ \E t \in TokenFor(joining.name) : JoinEnd(t)
    \/ \E t \in tasks : JoinTask(t)

\* The store fails to remove some tokens of the name, to find one of the name,
\* or to write what a task has for it.
JoinFault ==
    \/ /\ \/ \E k \in NodeKeys, n \in Names, ip \in Ip, kept \in SUBSET tokens :
               JoinBegin(k, n, ip, kept)
          \/ JoinEnd(NewToken(joining.name))
       /\ UNCHANGED refused
    \/ \E t \in tasks : TaskRefused(t) \/ TaskSaveFails(t)

JoinNext ==
    \/ JoinStep /\ UNCHANGED <<refused, faults>>
    \/ JoinFault /\ Fault
=============================================================================
