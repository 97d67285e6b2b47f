-------------------------- MODULE VpnMaster_proofs --------------------------
(***************************************************************************)
(* Proofs about VpnMaster, for every set of keys, names, labels and slots, *)
(* every pool size and every bound.                                        *)
(***************************************************************************)
EXTENDS VpnMaster, TLAPS

LEMMA IpFacts == /\ Ip \subseteq OptIp
                 /\ NoIp \in OptIp
                 /\ NoIp \notin Ip
                 /\ MasterIp \in Ip
                 /\ Ip \subseteq Nat
BY PoolAssumption DEF Ip, OptIp, NoIp, MasterIp

LEMMA AllocateType ==
    ASSUME nextIp \in 2 .. MaxIp + 1, NEW ip, Allocate(ip)
    PROVE  /\ ip = nextIp
           /\ ip \in Ip
           /\ nextIp' = nextIp + 1
           /\ nextIp' \in 2 .. MaxIp + 1
BY PoolAssumption DEF Allocate, PoolExhausted, Ip

LEMMA WgType ==
    ASSUME wg \in [Keys -> OptIp], NEW k \in Keys, NEW ip \in OptIp
    PROVE  /\ WgWith(k, ip) \in [Keys -> OptIp]
           /\ WgWithout(k) \in [Keys -> OptIp]
BY IpFacts DEF WgWith, WgWithout

LEMMA WgCommandType ==
    ASSUME wg \in [Keys -> OptIp], NEW table \in [Keys -> OptIp],
           WgCommand(table)
    PROVE  wg' \in [Keys -> OptIp]
BY DEF WgCommand

-----------------------------------------------------------------------------
(* Types *)

\* The steps of joins, whether the store fails them or not.
BeginStep(k, n, ip, kept) ==
    JoinBegin(k, n, ip, kept) /\ kept \subseteq tokens /\ UNCHANGED refused

EndStep(t) ==
    /\ JoinEnd(t)
    /\ t \in TokenFor(joining.name) \cup {NewToken(joining.name)}
    /\ UNCHANGED refused

TaskStepOf(t) ==
    (JoinTask(t) /\ UNCHANGED refused) \/ TaskRefused(t) \/ TaskSaveFails(t)

LEMMA JoinCases ==
    ASSUME JoinNext
    PROVE  \/ \E k \in NodeKeys, n \in Names, ip \in Ip, kept \in SUBSET tokens :
                BeginStep(k, n, ip, kept)
           \/ \E t : EndStep(t)
           \/ \E t \in tasks : TaskStepOf(t)
<1>1. CASE JoinStep /\ UNCHANGED <<refused, faults>>
  <2>1. {} \in SUBSET tokens
    OBVIOUS
  <2>2. QED
    BY <1>1, <2>1 DEF JoinStep, BeginStep, EndStep, TaskStepOf
<1>2. CASE JoinFault
  BY <1>2 DEF JoinFault, BeginStep, EndStep, TaskStepOf
<1>3. QED
  BY <1>1, <1>2 DEF JoinNext

LEMMA FaultType ==
    ASSUME faults \in 0 .. MaxFaults, UNCHANGED faults \/ Fault
    PROVE  faults' \in 0 .. MaxFaults
BY FaultAssumption DEF Fault

LEMMA IdleType == Idle \in Proc /\ WellFormed(Idle)
BY ConnectionAssumption, IpFacts DEF Idle, Proc, Step, WellFormed

LEMMA TypeInit == Init => TypeOK
<1> SUFFICES ASSUME Init PROVE TypeOK
  OBVIOUS
<1>1. JoinTypeOK
  BY JoinAssumption, IpFacts DEF Init, JoinInit, JoinTypeOK, PeerMap, Peer, Absent
<1>2. ConnTypeOK
  BY ConnectionAssumption, IpFacts, IdleType DEF Init, ConnInit, ConnTypeOK
<1>3. QED
  BY <1>1, <1>2, PoolAssumption, RestartAssumption, FaultAssumption, IpFacts
     DEF Init, TypeOK, MasterIp

LEMMA JoinBeginType ==
    ASSUME TypeOK, NEW k \in NodeKeys, NEW n \in Names, NEW ip \in Ip,
           NEW kept, BeginStep(k, n, ip, kept), UNCHANGED <<connVars, restarts>>,
           faults' \in 0 .. MaxFaults
    PROVE  TypeOK'
<1> USE DEF TypeOK, BeginStep
<1>1. nextIp' \in 2 .. MaxIp + 1
  BY AllocateType DEF JoinBegin, AddressOf
<1>2. wg' \in [Keys -> OptIp]
  BY WgType, WgCommandType, IpFacts DEF JoinBegin, Keys
<1>3. JoinTypeOK'
  <2>1. peers' \in PeerMap
    BY IpFacts DEF JoinBegin, JoinTypeOK, PeerMap, Peer, Absent
  <2>2. joining' \in Joining
    BY DEF JoinBegin, Joining
  <2>3. held' \in [NodeKeys -> OptIp]
    BY IpFacts DEF JoinBegin, JoinTypeOK
  <2>4. tokens' \subseteq Token
    BY DEF JoinBegin, JoinTypeOK
  <2>5. QED
    BY <2>1, <2>2, <2>3, <2>4 DEF JoinBegin, JoinTypeOK
<1>4. ConnTypeOK'
  BY DEF connVars, ConnTypeOK
<1>5. QED
  BY <1>1, <1>2, <1>3, <1>4

LEMMA JoinEndType ==
    ASSUME TypeOK, NEW t, EndStep(t), UNCHANGED <<connVars, restarts>>,
           faults' \in 0 .. MaxFaults
    PROVE  TypeOK'
<1> USE DEF TypeOK, EndStep
<1>1. /\ joining \in Joining
      /\ joins + 1 \in TokenId
      /\ joins' = joins + 1
  BY JoinAssumption DEF JoinEnd, JoinTypeOK, TokenId
<1>2. peers' \in PeerMap /\ held' \in [NodeKeys -> OptIp]
  BY <1>1, IpFacts DEF JoinEnd, JoinTypeOK, PeerMap, Peer, Joining
<1>3. /\ agentToken' = [agentToken EXCEPT ![joining.key] = t.id]
      /\ tasks' = tasks \cup {[join |-> joins + 1, step |-> "policy",
                               token |-> t, snapshot |-> peers']}
  BY DEF JoinEnd
<1>4. t \in Token
  BY <1>1 DEF TokenFor, NewToken, JoinTypeOK, Token, Joining
<1>5. tasks' \subseteq Task
  BY <1>1, <1>2, <1>3, <1>4 DEF JoinTypeOK, Task, TaskStep
<1>6. agentToken' \in [NodeKeys -> 0 .. MaxJoins]
  <2>1. t.id \in 0 .. MaxJoins
    BY <1>4, JoinAssumption DEF Token, TokenId
  <2>2. QED
    BY <1>3, <2>1 DEF JoinTypeOK
<1>7. JoinTypeOK'
  BY <1>1, <1>2, <1>5, <1>6, JoinAssumption
     DEF JoinEnd, JoinTypeOK, NotJoining, TokenId
<1>8. ConnTypeOK'
  BY DEF connVars, ConnTypeOK
<1>9. QED
  BY <1>7, <1>8 DEF JoinEnd, poolVars

LEMMA JoinTaskType ==
    ASSUME TypeOK, NEW t \in tasks, TaskStepOf(t), UNCHANGED <<connVars, restarts>>,
           faults' \in 0 .. MaxFaults
    PROVE  TypeOK'
<1> USE DEF TypeOK
<1>1. /\ t \in Task
      /\ t.token \in Token
      /\ t.token.id \in TokenId
      /\ t.token.username \in Names
      /\ t.snapshot \in PeerMap
      /\ t.step \in TaskStep
  BY DEF JoinTypeOK, Task, Token
<1>2. ConnTypeOK'
  BY DEF connVars, ConnTypeOK
<1>3. ASSUME NEW step \in TaskStep, Advance(t, step)
      PROVE  tasks' \subseteq Task
  BY <1>1, <1>3 DEF Advance, JoinTypeOK, Task
<1>4. JoinTypeOK'
  <2>1. CASE TaskPutPolicy(t) /\ UNCHANGED refused
    BY <1>1, <1>3, <2>1 DEF TaskPutPolicy, JoinTypeOK, TaskStep
  <2>2. CASE TaskPutBinding(t) /\ UNCHANGED refused
    BY <1>1, <1>3, <2>2 DEF TaskPutBinding, JoinTypeOK, TaskStep
  <2>3. CASE TaskPutToken(t) /\ UNCHANGED refused
    BY <1>1, <1>3, <2>3 DEF TaskPutToken, JoinTypeOK, TaskStep
  <2>4. CASE TaskSavePeers(t) /\ UNCHANGED refused
    BY <1>1, <2>4 DEF TaskSavePeers, JoinTypeOK
  <2>5. CASE TaskRefused(t)
    <3>1. After(t.step) \in TaskStep
      BY DEF After, TaskStep
    <3>2. QED
      BY <1>1, <1>3, <2>5, <3>1 DEF TaskRefused, JoinTypeOK
  <2>6. CASE TaskSaveFails(t)
    BY <1>1, <2>6 DEF TaskSaveFails, JoinTypeOK
  <2>7. QED
    BY <2>1, <2>2, <2>3, <2>4, <2>5, <2>6 DEF TaskStepOf, JoinTask
<1>5. UNCHANGED poolVars
  BY DEF TaskStepOf, JoinTask, TaskPutPolicy, TaskPutBinding, TaskPutToken,
         TaskSavePeers, TaskRefused, TaskSaveFails
<1>6. QED
  BY <1>2, <1>4, <1>5 DEF poolVars

\* Every action of Connections changes at most the entry of one process.
LEMMA ProcType ==
    ASSUME ConnTypeOK, NEW p \in Procs, NEW q \in Proc, WellFormed(q),
           proc' = [proc EXCEPT ![p] = q]
    PROVE  /\ proc' \in [Procs -> Proc]
           /\ \A r \in Procs : WellFormed(proc'[r])
BY DEF ConnTypeOK

LEMMA RecordType ==
    ASSUME ConnTypeOK, NEW p \in Procs
    PROVE  /\ proc[p] \in Proc
           /\ WellFormed(proc[p])
           /\ \A c \in proc[p].todo : c \in Conn
           /\ \A c \in conns : c \in Conn
BY DEF ConnTypeOK, Proc

\* A connect begins; it is undisturbed so far or disturbs its label.
ConnectStart(r, k, l, listed) ==
    /\ ConnectWith(r, k, l, listed)
    /\ \/ /\ l \in Labels
          /\ \A s \in Slots : l \notin Touched(s)
          /\ listed = Replaced(k, l)
          /\ calm' = calm \cup {r}
          /\ settled' = settled
       \/ Disturb(l)

LEMMA ConnectCases ==
    ASSUME NEW r, NEW k, NEW l,
           \/ Connect(r, k, l)
           \/ \E listed \in SUBSET Replaced(k, l) : ConnectUnlisted(r, k, l, listed)
    PROVE  \E listed \in SUBSET Replaced(k, l) : ConnectStart(r, k, l, listed)
<1>1. CASE Connect(r, k, l)
  BY <1>1 DEF Connect, ConnectStart
<1>2. CASE \E listed \in SUBSET Replaced(k, l) : ConnectUnlisted(r, k, l, listed)
  BY <1>2 DEF ConnectUnlisted, ConnectStart
<1>3. QED
  BY <1>1, <1>2

LEMMA ConnectType ==
    ASSUME TypeOK, NEW r \in Slots, NEW k \in ClientKeys,
           NEW l \in Labels \cup {NoLabel}, NEW listed \in SUBSET Replaced(k, l),
           ConnectStart(r, k, l, listed)
    PROVE  ConnTypeOK'
<1> DEFINE q == [step |-> "evict", key |-> k, label |-> l, ip |-> NoIp,
                 id |-> connSeq + 1, todo |-> listed, victim |-> 0]
<1>1. connSeq + 1 \in ConnId /\ r \in Procs
  BY ConnectionAssumption
     DEF TypeOK, ConnTypeOK, ConnectStart, ConnectWith, ConnId, Procs
<1>2. q \in Proc /\ WellFormed(q)
  BY <1>1, ConnectionAssumption, IpFacts
     DEF TypeOK, ConnTypeOK, Proc, Step, WellFormed, Replaced, ConnId
<1>3. calm' \in SUBSET Slots /\ settled' \in SUBSET Labels
  BY DEF TypeOK, ConnTypeOK, ConnectStart, Disturb
<1>4. QED
  BY <1>1, <1>2, <1>3, ProcType
     DEF TypeOK, ConnTypeOK, ConnectStart, ConnectWith, ConnId

LEMMA RemoveType ==
    ASSUME TypeOK, NEW p \in Procs, Remove(p) \/ DeleteFails(p)
    PROVE  ConnTypeOK'
<1>0. /\ proc[p] \in Proc
      /\ WellFormed(proc[p])
      /\ ConnTypeOK
  BY RecordType DEF TypeOK
<1>1. ASSUME NEW c \in proc[p].todo, RemoveTunnel(p, c)
      PROVE  ConnTypeOK'
  <2> DEFINE q == [proc[p] EXCEPT !.victim = c.id, !.todo = @ \ {c}]
  <2>1. c.id \in 0 .. MaxConns
    BY <1>0, RecordType, ConnectionAssumption DEF Conn, ConnId
  <2>2. q \in Proc /\ WellFormed(q)
    BY <1>0, <2>1 DEF Proc, WellFormed
  <2>3. proc' = [proc EXCEPT ![p] = q]
    BY <1>0, <1>1 DEF RemoveTunnel, ConnTypeOK
  <2>4. QED
    BY <1>0, <1>1, <2>2, <2>3, ProcType DEF RemoveTunnel, ConnTypeOK
<1>2. CASE DeleteRecord(p)
  <2> DEFINE q == [proc[p] EXCEPT !.victim = 0]
  <2>1. q \in Proc /\ WellFormed(q)
    BY <1>0, ConnectionAssumption DEF Proc, WellFormed
  <2>2. QED
    BY <1>0, <1>2, <2>1, ProcType DEF DeleteRecord, ConnTypeOK
<1>3. CASE Removed(p)
  <2> DEFINE q == IF proc[p].step = "evict"
                    THEN [proc[p] EXCEPT !.step = "address"] ELSE Idle
  <2>1. q \in Proc /\ WellFormed(q)
    BY <1>0, IdleType DEF Proc, Step, WellFormed
  <2>2. QED
    BY <1>0, <1>3, <2>1, ProcType DEF Removed, ConnTypeOK
<1>4. CASE DeleteFails(p)
  <2> DEFINE q == [proc[p] EXCEPT !.victim = 0]
  <2>1. q \in Proc /\ WellFormed(q)
    BY <1>0, ConnectionAssumption DEF Proc, WellFormed
  <2>2. QED
    BY <1>0, <1>4, <2>1, ProcType DEF DeleteFails, Disturb, ConnTypeOK
<1>5. QED
  BY <1>1, <1>2, <1>3, <1>4 DEF Remove

LEMMA ConnectStepType ==
    ASSUME TypeOK, NEW r \in Slots,
           ConnectStep(r) \/ PinUnread(r) \/ PinFails(r) \/ RecordFails(r)
    PROVE  ConnTypeOK'
<1>0. /\ r \in Procs
      /\ proc[r] \in Proc
      /\ WellFormed(proc[r])
      /\ ConnTypeOK
  BY RecordType DEF TypeOK, Procs
<1>1. CASE ReadPin(r)
  <2> DEFINE q == [proc[r] EXCEPT !.step = "tunnel", !.ip = labelIp[proc[r].label]]
  <2>1. labelIp[proc[r].label] \in OptIp /\ labelIp[proc[r].label] # NoIp
    BY <1>0, <1>1 DEF ReadPin, Pinned, ConnTypeOK, Proc
  <2>2. q \in Proc /\ WellFormed(q)
    BY <1>0, <1>1, <2>1 DEF ReadPin, Proc, Step, WellFormed
  <2>3. proc' = [proc EXCEPT ![r] = q]
    BY <1>0, <1>1 DEF ReadPin, ConnTypeOK
  <2>4. QED
    BY <1>0, <1>1, <2>2, <2>3, ProcType DEF ReadPin, ConnTypeOK
<1>2. CASE MissPin(r) \/ PinUnread(r)
  <2> DEFINE q == [proc[r] EXCEPT !.step = "pin"]
  <2>1. q \in Proc /\ WellFormed(q)
    BY <1>0, <1>2 DEF MissPin, PinUnread, WillPin, Proc, Step, WellFormed
  <2>2. QED
    BY <1>0, <1>2, <2>1, ProcType
       DEF MissPin, PinUnread, WillPin, Disturb, ConnTypeOK
<1>3. ASSUME NEW ip \in Ip, TakeAddress(r, ip)
      PROVE  ConnTypeOK'
  <2> DEFINE s == IF proc[r].step = "pin" THEN "pin" ELSE "tunnel"
             q == [proc[r] EXCEPT !.ip = ip, !.step = s]
  <2>1. q \in Proc /\ WellFormed(q)
    BY <1>0, <1>3, IpFacts DEF TakeAddress, Proc, Step, WellFormed
  <2>2. proc' = [proc EXCEPT ![r] = q]
    BY <1>0, <1>3 DEF TakeAddress, ConnTypeOK, Proc
  <2>3. QED
    BY <1>0, <1>3, <2>1, <2>2, ProcType DEF TakeAddress, ConnTypeOK
<1>4. CASE RefuseConnect(r) \/ RecordFails(r)
  BY <1>0, <1>4, IdleType, ProcType DEF RefuseConnect, RecordFails, ConnTypeOK
<1>5. CASE PinLabel(r) \/ PinFails(r)
  <2> DEFINE q == [proc[r] EXCEPT !.step = "tunnel"]
  <2>1. q \in Proc /\ WellFormed(q)
    BY <1>0, <1>5 DEF PinLabel, PinFails, Proc, Step, WellFormed
  <2>2. labelIp' \in [Labels -> OptIp]
    BY <1>0, <1>5 DEF PinLabel, PinFails, ConnTypeOK, Proc
  <2>3. QED
    BY <1>0, <1>5, <2>1, <2>2, ProcType DEF PinLabel, PinFails, Disturb, ConnTypeOK
<1>6. CASE AddTunnel(r)
  <2> DEFINE q == [proc[r] EXCEPT !.step = "record"]
  <2>1. q \in Proc /\ WellFormed(q)
    BY <1>0, <1>6 DEF AddTunnel, Proc, Step, WellFormed
  <2>2. QED
    BY <1>0, <1>6, <2>1, ProcType DEF AddTunnel, ConnTypeOK
<1>7. CASE PutRecord(r)
  <2>1. [id |-> proc[r].id, key |-> proc[r].key, label |-> proc[r].label,
         ip |-> proc[r].ip, fresh |-> TRUE] \in Conn
    BY <1>0, <1>7 DEF PutRecord, Proc, WellFormed, Conn, OptIp, NoIp, Ip
  <2>2. settled' \subseteq Labels
    BY <1>0, <1>7 DEF PutRecord, ConnTypeOK
  <2>3. QED
    BY <1>0, <1>7, <2>1, <2>2, IdleType, ProcType DEF PutRecord, ConnTypeOK
<1>8. QED
  BY <1>1, <1>2, <1>3, <1>4, <1>5, <1>6, <1>7 DEF ConnectStep

LEMMA OtherConnType ==
    ASSUME TypeOK,
           \/ \E r \in Slots, c \in conns : Disconnect(r, c) \/ BeatRead(r, c)
           \/ \E r \in Slots : BeatWrite(r) \/ BeatFails(r)
           \/ \E c \in conns : GoSilent(c)
           \/ \E listed \in SUBSET Silent : SweepOf(listed)
    PROVE  ConnTypeOK'
<1>0. ConnTypeOK
  BY DEF TypeOK
<1> DEFINE q(s, todo) == [Idle EXCEPT !.step = s, !.todo = todo]
<1>1. ASSUME NEW s \in {"remove", "beat"}, NEW todo \in SUBSET Conn
      PROVE  q(s, todo) \in Proc /\ WellFormed(q(s, todo))
  BY IdleType DEF Idle, Proc, Step, WellFormed
<1>2. ASSUME NEW r \in Slots, NEW c \in conns, Disconnect(r, c) \/ BeatRead(r, c)
      PROVE  ConnTypeOK'
  <2>1. {c} \in SUBSET Conn /\ r \in Procs
    BY <1>0 DEF ConnTypeOK, Procs
  <2>2. \/ proc' = [proc EXCEPT ![r] = q("remove", {c})]
        \/ proc' = [proc EXCEPT ![r] = q("beat", {c})]
    BY <1>2 DEF Disconnect, BeatRead
  <2>3. proc' \in [Procs -> Proc] /\ \A p \in Procs : WellFormed(proc'[p])
    BY <1>0, <1>1, <2>1, <2>2, ProcType
  <2>4. QED
    BY <1>0, <1>2, <2>3 DEF Disconnect, BeatRead, Disturb, ConnTypeOK
<1>3. ASSUME NEW r \in Slots, BeatWrite(r)
      PROVE  ConnTypeOK'
  <2>1. PICK b \in proc[r].todo :
          conns' = {c \in conns : c.id # b.id} \cup {[b EXCEPT !.fresh = TRUE]}
    BY <1>3 DEF BeatWrite
  <2>2. [b EXCEPT !.fresh = TRUE] \in Conn
    <3>1. b \in Conn
      BY <1>0, RecordType DEF Procs
    <3>2. QED
      BY <3>1 DEF Conn
  <2>3. proc' \in [Procs -> Proc] /\ \A p \in Procs : WellFormed(proc'[p])
    BY <1>0, <1>3, IdleType, ProcType DEF BeatWrite, Procs
  <2>4. QED
    BY <1>0, <1>3, <2>1, <2>2, <2>3 DEF BeatWrite, ConnTypeOK
<1>4. ASSUME NEW c \in conns, GoSilent(c)
      PROVE  ConnTypeOK'
  <2>1. [c EXCEPT !.fresh = FALSE] \in Conn
    BY <1>0 DEF ConnTypeOK, Conn
  <2>2. QED
    BY <1>0, <1>4, <2>1 DEF GoSilent, ConnTypeOK
<1>5. ASSUME NEW listed \in SUBSET Silent, SweepOf(listed)
      PROVE  ConnTypeOK'
  <2>1. listed \in SUBSET Conn /\ Sweeper \in Procs
    BY <1>0 DEF ConnTypeOK, Silent, Procs
  <2>2. proc' = [proc EXCEPT ![Sweeper] = q("remove", listed)]
    BY <1>5 DEF SweepOf
  <2>3. proc' \in [Procs -> Proc] /\ \A p \in Procs : WellFormed(proc'[p])
    BY <1>0, <1>1, <2>1, <2>2, ProcType
  <2>4. QED
    BY <1>0, <1>5, <2>3 DEF SweepOf, ConnTypeOK
<1>6. ASSUME NEW r \in Slots, BeatFails(r)
      PROVE  ConnTypeOK'
  BY <1>0, <1>6, IdleType, ProcType DEF BeatFails, ConnTypeOK, Procs
<1>7. QED
  BY <1>2, <1>3, <1>4, <1>5, <1>6

LEMMA RestartType == ASSUME TypeOK, Restart PROVE TypeOK'
<1> USE DEF TypeOK
<1>1. restarts' \in 0 .. MaxRestarts
  BY RestartAssumption DEF Restart
<1>2. RecordedIps \subseteq Ip
  BY IpFacts DEF RecordedIps, JoinTypeOK, ConnTypeOK, PeerMap, Peer, Conn,
                 Ip, OptIp, NoIp
<1>3. nextIp' \in 2 .. MaxIp + 1
  BY <1>2, PoolAssumption DEF Restart, FirstFreeAfter, Ip, MasterIp
<1>4. wg' \in [Keys -> OptIp] /\ faults' \in 0 .. MaxFaults
  BY IpFacts DEF Restart, SavedTable, JoinTypeOK, PeerMap, Peer
<1>5. JoinTypeOK'
  BY DEF Restart, JoinTypeOK, NotJoining
<1>6. ConnTypeOK'
  BY IdleType DEF Restart, ConnTypeOK
<1>7. QED
  BY <1>1, <1>3, <1>4, <1>5, <1>6

\* The steps of Connections, whether the store fails them or not.
ConnectCase == \E r \in Slots, k \in ClientKeys, l \in Labels \cup {NoLabel} :
                  \E listed \in SUBSET Replaced(k, l) : ConnectStart(r, k, l, listed)
RequestCase == \E r \in Slots :
                  ConnectStep(r) \/ PinUnread(r) \/ PinFails(r) \/ RecordFails(r)
RemoveCase == \E p \in Procs : Remove(p) \/ DeleteFails(p)
OtherCase ==
    \/ \E r \in Slots, c \in conns : Disconnect(r, c) \/ BeatRead(r, c)
    \/ \E r \in Slots : BeatWrite(r) \/ BeatFails(r)
    \/ \E c \in conns : GoSilent(c)
    \/ \E listed \in SUBSET Silent : SweepOf(listed)

LEMMA ConnCases ==
    ASSUME ConnNext
    PROVE  ConnectCase \/ RequestCase \/ RemoveCase \/ OtherCase
<1>1. CASE ConnStep
  <2>1. (\E r \in Slots, k \in ClientKeys, l \in Labels \cup {NoLabel} : Connect(r, k, l))
          => ConnectCase
    BY ConnectCases DEF ConnectCase
  <2>2. Sweep => OtherCase
    BY DEF Sweep, OtherCase
  <2>3. QED
    BY <1>1, <2>1, <2>2 DEF ConnStep, RequestCase, RemoveCase, OtherCase
<1>2. CASE ConnFault
  <2>1. (\E r \in Slots, k \in ClientKeys, l \in Labels \cup {NoLabel} :
           \E listed \in SUBSET Replaced(k, l) : ConnectUnlisted(r, k, l, listed))
          => ConnectCase
    BY ConnectCases DEF ConnectCase
  <2>2. QED
    BY <1>2, <2>1 DEF ConnFault, RequestCase, RemoveCase, OtherCase
<1>3. QED
  BY <1>1, <1>2 DEF ConnNext

\* What the actions of Connections do to the pool and the table.
LEMMA ConnPool ==
    ASSUME TypeOK, ConnNext
    PROVE  /\ nextIp' \in 2 .. MaxIp + 1
           /\ wg' \in [Keys -> OptIp]
<1> USE DEF TypeOK
<1>1. ASSUME NEW r \in Slots,
             ConnectStep(r) \/ PinUnread(r) \/ PinFails(r) \/ RecordFails(r)
      PROVE  nextIp' \in 2 .. MaxIp + 1 /\ wg' \in [Keys -> OptIp]
  <2>1. CASE AddTunnel(r)
    <3>1. proc[r].key \in Keys /\ proc[r].ip \in OptIp
      BY <2>1, RecordType DEF AddTunnel, WellFormed, Proc, Procs, Keys
    <3>2. QED
      BY <2>1, <3>1, WgType, WgCommandType DEF AddTunnel
  <2>2. CASE \E ip \in Ip : TakeAddress(r, ip)
    BY <2>2, AllocateType DEF TakeAddress
  <2>3. QED
    BY <1>1, <2>1, <2>2
       DEF ConnectStep, ReadPin, MissPin, PinUnread, WillPin, RefuseConnect,
           PinLabel, PinFails, PutRecord, RecordFails, poolVars
<1>2. ASSUME NEW p \in Procs, Remove(p) \/ DeleteFails(p)
      PROVE  nextIp' \in 2 .. MaxIp + 1 /\ wg' \in [Keys -> OptIp]
  <2>1. ASSUME NEW c \in proc[p].todo, RemoveTunnel(p, c)
        PROVE  wg' \in [Keys -> OptIp] /\ nextIp' = nextIp
    <3>1. c.key \in Keys
      BY RecordType DEF Conn, Keys
    <3>2. QED
      BY <2>1, <3>1, IpFacts, WgType, WgCommandType DEF RemoveTunnel
  <2>2. QED
    BY <1>2, <2>1 DEF Remove, DeleteRecord, DeleteFails, Removed, poolVars
<1>3. CASE ConnectCase
  BY <1>3 DEF ConnectCase, ConnectStart, ConnectWith, poolVars
<1>4. CASE OtherCase
  BY <1>4 DEF OtherCase, Disconnect, BeatRead, BeatWrite, BeatFails, GoSilent,
              SweepOf, poolVars
<1>5. QED
  BY <1>1, <1>2, <1>3, <1>4, ConnCases DEF RequestCase, RemoveCase

LEMMA ConnNextType ==
    ASSUME TypeOK, ConnNext, UNCHANGED <<joinVars, restarts>>
    PROVE  TypeOK'
<1>1. ConnTypeOK'
  <2>1. ConnectCase => ConnTypeOK'
    BY ConnectType DEF ConnectCase
  <2>2. RequestCase => ConnTypeOK'
    BY ConnectStepType DEF RequestCase
  <2>3. RemoveCase => ConnTypeOK'
    BY RemoveType DEF RemoveCase
  <2>4. OtherCase => ConnTypeOK'
    BY OtherConnType DEF OtherCase
  <2>5. QED
    BY <2>1, <2>2, <2>3, <2>4, ConnCases
<1>2. JoinTypeOK'
  BY DEF TypeOK, JoinTypeOK, joinVars
<1>3. faults' \in 0 .. MaxFaults
  BY FaultType DEF ConnNext, TypeOK
<1>4. QED
  BY <1>1, <1>2, <1>3, ConnPool DEF TypeOK

\* Every variable keeps its type in every behaviour.
THEOREM TypeCorrect == Spec => []TypeOK
<1>1. TypeOK /\ [Next]_vars => TypeOK'
  <2> SUFFICES ASSUME TypeOK, [Next]_vars PROVE TypeOK'
    OBVIOUS
  <2>1. CASE JoinNext /\ UNCHANGED <<connVars, restarts>>
    <3>1. faults' \in 0 .. MaxFaults
      BY <2>1, FaultType DEF JoinNext, TypeOK
    <3>2. QED
      BY <2>1, <3>1, JoinCases, JoinBeginType, JoinEndType, JoinTaskType
  <2>2. CASE ConnNext /\ UNCHANGED <<joinVars, restarts>>
    BY <2>2, ConnNextType
  <2>3. CASE Restart
    BY <2>3, RestartType
  <2>4. CASE UNCHANGED vars
    BY <2>4 DEF vars, poolVars, joinVars, connVars, TypeOK, JoinTypeOK, ConnTypeOK
  <2>5. QED
    BY <2>1, <2>2, <2>3, <2>4 DEF Next
<1>2. QED
  BY <1>1, TypeInit, PTL DEF Spec

-----------------------------------------------------------------------------
(* Addresses.  A step copies addresses between places that agree on their  *)
(* owner, takes the fresh address for one owner, or restarts the pool      *)
(* above every address that survives.                                      *)

LEMMA AddressInit == Init => AddressInv
BY PoolAssumption
   DEF Init, JoinInit, ConnInit, AddressInv, BelowNext, OneNodePerAddress,
       NodesApartFromClients, OneLabelPerAddress, NodeHas, ClientHas, LabelHas,
       ClientRecords, Idle, Absent, NotJoining, Keys, NoIp, Ip

LEMMA LabelIsClient ==
    ASSUME NEW l \in Labels, NEW a, LabelHas(l, a)
    PROVE  ClientHas(a)
BY DEF LabelHas, ClientHas

\* A step preserves the invariant, and an address that is with an owner after
\* it was with that owner before or is the fresh one.
OnlyFreshIsNew ==
    /\ \A k \in NodeKeys, a \in Ip : NodeHas(k, a)' => NodeHas(k, a) \/ a = nextIp
    /\ \A a \in Ip : ClientHas(a)' => ClientHas(a) \/ a = nextIp
    /\ \A l \in Labels, a \in Ip : LabelHas(l, a)' => LabelHas(l, a) \/ a = nextIp

AddressStep == AddressInv' /\ OnlyFreshIsNew

\* Nothing new is recorded.
LEMMA CopyKeeps ==
    ASSUME AddressInv, TypeOK,
           \A k \in NodeKeys, a \in Ip : NodeHas(k, a)' => NodeHas(k, a),
           \A a \in Ip : ClientHas(a)' => ClientHas(a),
           \A l \in Labels, a \in Ip : LabelHas(l, a)' => LabelHas(l, a),
           \/ nextIp' = nextIp
           \/ BelowNext'
    PROVE  AddressStep
<1>1. BelowNext'
  <2>1. CASE nextIp' = nextIp
    <3>1. \A k \in NodeKeys, a \in Ip : NodeHas(k, a)' => a < nextIp'
      BY <2>1 DEF AddressInv, BelowNext
    <3>2. \A a \in Ip : ClientHas(a)' => a < nextIp'
      BY <2>1 DEF AddressInv, BelowNext
    <3>3. QED
      BY <3>1, <3>2 DEF BelowNext
  <2>2. QED
    BY <2>1
<1>2. OneNodePerAddress'
  BY Zenon DEF AddressInv, OneNodePerAddress
<1>3. NodesApartFromClients'
  BY Zenon DEF AddressInv, NodesApartFromClients
<1>4. OneLabelPerAddress'
  BY Zenon DEF AddressInv, OneLabelPerAddress
<1>5. OnlyFreshIsNew
  BY Zenon DEF OnlyFreshIsNew
<1>6. QED
  BY <1>1, <1>2, <1>3, <1>4, <1>5 DEF AddressInv, AddressStep

\* Agent k gets the fresh address.
LEMMA NodeTakesFresh ==
    ASSUME AddressInv, TypeOK, NEW k \in NodeKeys,
           nextIp' = nextIp + 1,
           \A j \in NodeKeys, a \in Ip :
              NodeHas(j, a)' => NodeHas(j, a) \/ (j = k /\ a = nextIp),
           \A a \in Ip : ClientHas(a)' => ClientHas(a),
           \A l \in Labels, a \in Ip : LabelHas(l, a)' => LabelHas(l, a)
    PROVE  AddressStep
<1>0. nextIp \in Nat /\ \A a \in Ip : a < nextIp => a # nextIp /\ a < nextIp'
  BY PoolAssumption DEF TypeOK, Ip
<1>1. \A j \in NodeKeys : ~NodeHas(j, nextIp) \/ nextIp \notin Ip
  BY <1>0 DEF AddressInv, BelowNext
<1>2. ~ClientHas(nextIp) \/ nextIp \notin Ip
  BY <1>0 DEF AddressInv, BelowNext
<1>3. BelowNext'
  <2>1. ASSUME NEW j \in NodeKeys, NEW a \in Ip, NodeHas(j, a)' PROVE a < nextIp'
    <3>1. NodeHas(j, a) \/ a = nextIp
      BY <2>1
    <3>2. QED
      BY <1>0, <3>1 DEF AddressInv, BelowNext
  <2>2. ASSUME NEW a \in Ip, ClientHas(a)' PROVE a < nextIp'
    BY <1>0, <2>2 DEF AddressInv, BelowNext
  <2>3. QED
    BY <2>1, <2>2 DEF BelowNext
<1>4. OneNodePerAddress'
  BY <1>1, Zenon DEF AddressInv, OneNodePerAddress
<1>5. NodesApartFromClients'
  BY <1>2, Zenon DEF AddressInv, NodesApartFromClients
<1>6. OneLabelPerAddress'
  BY Zenon DEF AddressInv, OneLabelPerAddress
<1>7. OnlyFreshIsNew
  BY Zenon DEF OnlyFreshIsNew
<1>8. QED
  BY <1>3, <1>4, <1>5, <1>6, <1>7 DEF AddressInv, AddressStep

\* A client gets the fresh address, for its label m if it has one.
LEMMA ClientTakesFresh ==
    ASSUME AddressInv, TypeOK, NEW m,
           nextIp' = nextIp + 1,
           \A j \in NodeKeys, a \in Ip : NodeHas(j, a)' => NodeHas(j, a),
           \A a \in Ip : ClientHas(a)' => ClientHas(a) \/ a = nextIp,
           \A l \in Labels, a \in Ip :
              LabelHas(l, a)' => LabelHas(l, a) \/ (l = m /\ a = nextIp)
    PROVE  AddressStep
<1>0. nextIp \in Nat /\ \A a \in Ip : a < nextIp => a # nextIp /\ a < nextIp'
  BY PoolAssumption DEF TypeOK, Ip
<1>1. \A j \in NodeKeys : ~NodeHas(j, nextIp) \/ nextIp \notin Ip
  BY <1>0 DEF AddressInv, BelowNext
<1>2. \A l \in Labels : ~LabelHas(l, nextIp) \/ nextIp \notin Ip
  BY <1>0, LabelIsClient DEF AddressInv, BelowNext
<1>3. BelowNext'
  BY <1>0 DEF AddressInv, BelowNext
<1>4. OneNodePerAddress'
  BY Zenon DEF AddressInv, OneNodePerAddress
<1>5. NodesApartFromClients'
  BY <1>1, Zenon DEF AddressInv, NodesApartFromClients
<1>6. OneLabelPerAddress'
  BY <1>2, Zenon DEF AddressInv, OneLabelPerAddress
<1>7. OnlyFreshIsNew
  BY Zenon DEF OnlyFreshIsNew
<1>8. QED
  BY <1>3, <1>4, <1>5, <1>6, <1>7 DEF AddressInv, AddressStep

\* Joins do not touch what clients have, except that `wg set` may take an
\* address from a key.
LEMMA JoinKeepsClients ==
    ASSUME TypeOK, UNCHANGED connVars,
           \A k \in ClientKeys : wg'[k] = wg[k] \/ wg'[k] = NoIp
    PROVE  /\ \A a \in Ip : ClientHas(a)' => ClientHas(a)
           /\ \A l \in Labels, a \in Ip : LabelHas(l, a)' => LabelHas(l, a)
BY DEF ClientHas, LabelHas, ClientRecords, connVars

LEMMA WgWithEntries ==
    ASSUME TypeOK, NEW k \in Keys, NEW ip \in OptIp, WgCommand(WgWith(k, ip))
    PROVE  \A j \in Keys : \/ wg'[j] = wg[j]
                           \/ wg'[j] = NoIp
                           \/ j = k /\ wg'[j] = ip
BY DEF WgCommand, WgWith

LEMMA WgWithoutEntries ==
    ASSUME TypeOK, NEW k \in Keys, WgCommand(WgWithout(k))
    PROVE  \A j \in Keys : wg'[j] = wg[j] \/ wg'[j] = NoIp
BY DEF WgCommand, WgWithout, TypeOK

LEMMA JoinBeginAddress ==
    ASSUME AddressInv, TypeOK, NEW k \in NodeKeys, NEW n \in Names,
           NEW ip \in Ip, NEW kept, BeginStep(k, n, ip, kept),
           UNCHANGED <<connVars, restarts>>
    PROVE  AddressStep
<1> USE DEF BeginStep
<1>0. /\ k \in Keys /\ k \notin ClientKeys
      /\ ip \in OptIp
      /\ \A c \in ClientKeys : c \in Keys /\ c # k
      /\ \A j \in NodeKeys : j \in Keys
  BY PoolAssumption, IpFacts DEF Keys
<1>1. \A j \in Keys : wg'[j] = wg[j] \/ wg'[j] = NoIp \/ (j = k /\ wg'[j] = ip)
  BY <1>0, WgWithEntries DEF JoinBegin
<1>2. /\ \A a \in Ip : ClientHas(a)' => ClientHas(a)
      /\ \A l \in Labels, a \in Ip : LabelHas(l, a)' => LabelHas(l, a)
  BY <1>0, <1>1, JoinKeepsClients
<1>3. \A j \in NodeKeys, a \in Ip :
        NodeHas(j, a)' => NodeHas(j, a) \/ (j = k /\ a = ip)
  <2> SUFFICES ASSUME NEW j \in NodeKeys, NEW a \in Ip, NodeHas(j, a)'
               PROVE  NodeHas(j, a) \/ (j = k /\ a = ip)
    OBVIOUS
  <2>1. peers'[j].ip = a => peers[j].ip = a \/ a = NoIp
    BY DEF JoinBegin, Absent
  <2>2. savedPeers' = savedPeers /\ tasks' = tasks
    BY DEF JoinBegin
  <2>3. joining' = [key |-> k, name |-> n, ip |-> ip]
    BY DEF JoinBegin
  <2>4. QED
    BY <1>0, <1>1, <2>1, <2>2, <2>3 DEF NodeHas
<1>4. CASE peers[k].ip # NoIp
  <2>1. ip = peers[k].ip /\ nextIp' = nextIp
    BY <1>4 DEF JoinBegin, AddressOf
  <2>2. NodeHas(k, ip)
    BY <1>4, <2>1 DEF NodeHas
  <2>3. \A j \in NodeKeys, a \in Ip : NodeHas(j, a)' => NodeHas(j, a)
    BY <1>3, <2>2
  <2>4. QED
    BY <1>2, <2>1, <2>3, CopyKeeps
<1>5. CASE peers[k].ip = NoIp
  <2>1. ip = nextIp /\ nextIp' = nextIp + 1
    BY <1>5, AllocateType DEF JoinBegin, AddressOf, TypeOK
  <2>2. \A j \in NodeKeys, a \in Ip :
          NodeHas(j, a)' => NodeHas(j, a) \/ (j = k /\ a = nextIp)
    BY <1>3, <2>1
  <2>3. QED
    BY <1>2, <2>1, <2>2, NodeTakesFresh
<1>6. QED
  BY <1>4, <1>5

LEMMA JoinEndAddress ==
    ASSUME AddressInv, TypeOK, NEW t, EndStep(t), UNCHANGED <<connVars, restarts>>
    PROVE  AddressStep
<1> USE DEF EndStep
<1>1. /\ joining.key \in NodeKeys
      /\ peers' = [peers EXCEPT ![joining.key] =
                     [ip |-> joining.ip, name |-> joining.name]]
      /\ joining' = NotJoining
      /\ savedPeers' = savedPeers /\ nextIp' = nextIp /\ wg' = wg
      /\ \A u \in tasks' : u \in tasks \/ u.snapshot = peers'
  <2>1. joining.key \in NodeKeys
    BY DEF JoinEnd, TypeOK, JoinTypeOK, Joining
  <2>2. \A u \in tasks' : u \in tasks \/ u.snapshot = peers'
    <3>1. tasks' = tasks \cup {[join |-> joins + 1, step |-> "policy",
                                token |-> t, snapshot |-> peers']}
      BY DEF JoinEnd
    <3>2. QED
      BY <3>1
  <2>3. QED
    BY <2>1, <2>2 DEF JoinEnd, poolVars
<1>2. \A j \in NodeKeys, a \in Ip : peers'[j].ip = a => NodeHas(j, a)
  BY <1>1, IpFacts DEF NodeHas, TypeOK, JoinTypeOK, PeerMap
<1>3. \A j \in NodeKeys, a \in Ip : NodeHas(j, a)' => NodeHas(j, a)
  <2> SUFFICES ASSUME NEW j \in NodeKeys, NEW a \in Ip, NodeHas(j, a)'
               PROVE  NodeHas(j, a)
    OBVIOUS
  <2>1. ~(joining'.key = j /\ joining'.ip = a)
    BY <1>1, IpFacts DEF NotJoining
  <2>2. ASSUME NEW u \in tasks', u.snapshot[j].ip = a
        PROVE  NodeHas(j, a)
    <3>1. CASE u \in tasks
      BY <2>2, <3>1, IpFacts DEF NodeHas
    <3>2. CASE u.snapshot = peers'
      BY <1>2, <2>2, <3>2
    <3>3. QED
      BY <1>1, <3>1, <3>2
  <2>3. QED
    BY <1>1, <1>2, <2>1, <2>2 DEF NodeHas
<1>4. QED
  BY <1>1, <1>3, JoinKeepsClients, CopyKeeps

LEMMA JoinTaskAddress ==
    ASSUME AddressInv, TypeOK, NEW t \in tasks, TaskStepOf(t),
           UNCHANGED <<connVars, restarts>>
    PROVE  AddressStep
<1>1. /\ UNCHANGED <<peers, joining>>
      /\ UNCHANGED poolVars
      /\ savedPeers' = savedPeers \/ savedPeers' = t.snapshot
      /\ \A u \in tasks' : \E v \in tasks : u.snapshot = v.snapshot
  <2>1. ASSUME NEW step, Advance(t, step)
        PROVE  \A u \in tasks' : \E v \in tasks : u.snapshot = v.snapshot
    BY <2>1 DEF Advance, TypeOK, JoinTypeOK, Task
  <2>2. \/ \E step : Advance(t, step)
        \/ tasks' = tasks \ {t}
    BY DEF TaskStepOf, JoinTask, TaskPutPolicy, TaskPutBinding, TaskPutToken,
           TaskSavePeers, TaskRefused, TaskSaveFails
  <2>3. QED
    BY <2>1, <2>2
       DEF TaskStepOf, JoinTask, TaskPutPolicy, TaskPutBinding, TaskPutToken,
           TaskSavePeers, TaskRefused, TaskSaveFails
<1>2. \A j \in NodeKeys, a \in Ip : NodeHas(j, a)' => NodeHas(j, a)
  BY <1>1 DEF NodeHas, poolVars
<1>3. QED
  BY <1>1, <1>2, JoinKeepsClients, CopyKeeps DEF poolVars

\* Connections do not touch what agents have, except that `wg set` may take
\* an address from a key.
LEMMA ConnKeepsNodes ==
    ASSUME UNCHANGED joinVars,
           \A k \in NodeKeys : wg'[k] = wg[k] \/ wg'[k] = NoIp
    PROVE  \A j \in NodeKeys, a \in Ip : NodeHas(j, a)' => NodeHas(j, a)
BY DEF NodeHas, joinVars

\* A step of process p that leaves the pool and the table alone, reads and
\* writes only what clients already have, and gives p no new address.
LEMMA ConnCopies ==
    ASSUME AddressInv, TypeOK, UNCHANGED joinVars, nextIp' = nextIp,
           \A k \in NodeKeys : wg'[k] = wg[k] \/ wg'[k] = NoIp,
           \A k \in ClientKeys : ClientHas(wg'[k]) \/ wg'[k] = NoIp,
           \A c \in ClientRecords' : ClientHas(c.ip),
           \A l \in Labels : labelIp'[l] # NoIp => LabelHas(l, labelIp'[l]),
           \A p \in Procs : proc'[p].ip # NoIp =>
              /\ ClientHas(proc'[p].ip)
              /\ proc'[p].label \in Labels => LabelHas(proc'[p].label, proc'[p].ip)
    PROVE  AddressStep
<1>1. \A j \in NodeKeys, a \in Ip : NodeHas(j, a)' => NodeHas(j, a)
  BY ConnKeepsNodes
<1>2. \A l \in Labels, a \in Ip : LabelHas(l, a)' => LabelHas(l, a)
  BY IpFacts DEF LabelHas
<1>3. \A a \in Ip : ClientHas(a)' => ClientHas(a)
  <2> SUFFICES ASSUME NEW a \in Ip, ClientHas(a)' PROVE ClientHas(a)
    OBVIOUS
  <2>0. a # NoIp
    BY IpFacts
  <2>1. CASE \E c \in ClientRecords' : c.ip = a
    BY <2>1
  <2>2. CASE \E p \in Procs : proc'[p].ip = a
    BY <2>0, <2>2
  <2>3. CASE \E l \in Labels : labelIp'[l] = a
    BY <2>0, <2>3, LabelIsClient
  <2>4. CASE \E k \in ClientKeys : wg'[k] = a
    BY <2>0, <2>4
  <2>5. QED
    BY <2>1, <2>2, <2>3, <2>4 DEF ClientHas
<1>4. QED
  BY <1>1, <1>2, <1>3, CopyKeeps

\* What every place holds now, in the form ConnCopies asks for.
LEMMA ClientPlaces ==
    ASSUME TypeOK
    PROVE  /\ \A c \in ClientRecords : ClientHas(c.ip)
           /\ \A p \in Procs : \A c \in proc[p].todo : c \in ClientRecords
           /\ \A k \in ClientKeys : ClientHas(wg[k]) \/ wg[k] = NoIp
           /\ \A l \in Labels : labelIp[l] # NoIp => LabelHas(l, labelIp[l])
           /\ \A p \in Procs : proc[p].ip # NoIp =>
                /\ ClientHas(proc[p].ip)
                /\ proc[p].label \in Labels => LabelHas(proc[p].label, proc[p].ip)
<1>1. \A c \in ClientRecords : c.ip \in Ip
  <2>1. \A c \in ClientRecords :
          c \in conns \/ \E p \in Procs : c \in proc[p].todo
    BY DEF ClientRecords
  <2>2. \A c \in ClientRecords : c \in Conn
    BY <2>1, RecordType DEF TypeOK, ConnTypeOK
  <2>3. QED
    BY <2>2 DEF Conn
<1>2. QED
  BY <1>1, IpFacts DEF ClientHas, LabelHas, ClientRecords

\* The update of one process, in the same form.
LEMMA ProcPlaces ==
    ASSUME TypeOK, NEW p \in Procs, NEW q \in Proc,
           proc' = [proc EXCEPT ![p] = q],
           \A c \in q.todo : c \in ClientRecords,
           q.ip # NoIp =>
              /\ ClientHas(q.ip)
              /\ q.label \in Labels => LabelHas(q.label, q.ip),
           \A c \in conns' : ClientHas(c.ip)
    PROVE  /\ \A c \in ClientRecords' : ClientHas(c.ip)
           /\ \A r \in Procs : proc'[r].ip # NoIp =>
                /\ ClientHas(proc'[r].ip)
                /\ proc'[r].label \in Labels
                     => LabelHas(proc'[r].label, proc'[r].ip)
<1>1. \A r \in Procs : proc'[r] = proc[r] \/ (r = p /\ proc'[r] = q)
  BY DEF TypeOK, ConnTypeOK
<1>2. \A r \in Procs : \A c \in proc'[r].todo : c \in ClientRecords
  BY <1>1, ClientPlaces
<1>3. \A c \in ClientRecords' : ClientHas(c.ip)
  BY <1>2, ClientPlaces DEF ClientRecords
<1>4. QED
  BY <1>1, <1>3, ClientPlaces

LEMMA ConnectAddress ==
    ASSUME AddressInv, TypeOK, UNCHANGED joinVars, NEW r \in Slots,
           NEW k \in ClientKeys, NEW l \in Labels \cup {NoLabel},
           NEW listed \in SUBSET Replaced(k, l), ConnectStart(r, k, l, listed)
    PROVE  AddressStep
<1> DEFINE q == [step |-> "evict", key |-> k, label |-> l, ip |-> NoIp,
                 id |-> connSeq + 1, todo |-> listed, victim |-> 0]
<1>1. r \in Procs /\ q \in Proc
  BY ConnectionAssumption, IpFacts
     DEF TypeOK, ConnTypeOK, ConnectStart, ConnectWith, Proc, Step, Replaced,
         ConnId, Procs
<1>2. \A c \in q.todo : c \in ClientRecords
  BY DEF Replaced, ClientRecords
<1>3. \A c \in conns' : ClientHas(c.ip)
  BY ClientPlaces DEF ConnectStart, ConnectWith, ClientRecords
<1>4. proc' = [proc EXCEPT ![r] = q] /\ labelIp' = labelIp /\ UNCHANGED poolVars
  BY DEF ConnectStart, ConnectWith
<1>5. q.ip = NoIp
  OBVIOUS
<1> HIDE DEF q
<1>6. QED
  BY <1>1, <1>2, <1>3, <1>4, <1>5, ProcPlaces, ClientPlaces, ConnCopies
     DEF poolVars

LEMMA RemoveAddress ==
    ASSUME AddressInv, TypeOK, UNCHANGED joinVars, NEW p \in Procs,
           Remove(p) \/ DeleteFails(p)
    PROVE  AddressStep
<1>0. /\ proc[p] \in Proc
      /\ proc[p].ip # NoIp =>
           /\ ClientHas(proc[p].ip)
           /\ proc[p].label \in Labels => LabelHas(proc[p].label, proc[p].ip)
      /\ \A c \in proc[p].todo : c \in ClientRecords
      /\ \A c \in conns : ClientHas(c.ip)
      /\ \A c \in proc[p].todo : c \in Conn
  BY ClientPlaces, RecordType DEF TypeOK, ClientRecords
<1>1. ASSUME NEW c \in proc[p].todo, RemoveTunnel(p, c)
      PROVE  AddressStep
  <2> DEFINE q == [proc[p] EXCEPT !.victim = c.id, !.todo = @ \ {c}]
  <2>1. q \in Proc
    <3>1. c.id \in 0 .. MaxConns
      BY <1>0, ConnectionAssumption DEF Conn, ConnId
    <3>2. QED
      BY <1>0, <3>1 DEF Proc
  <2>2. proc' = [proc EXCEPT ![p] = q]
    BY <1>1 DEF RemoveTunnel, TypeOK, ConnTypeOK
  <2>3. q.todo \subseteq proc[p].todo /\ q.ip = proc[p].ip /\ q.label = proc[p].label
    BY <1>0 DEF Proc
  <2>4. /\ nextIp' = nextIp /\ labelIp' = labelIp /\ conns' = conns
        /\ \A k \in Keys : wg'[k] = wg[k] \/ wg'[k] = NoIp
    BY <1>0, <1>1, WgWithoutEntries DEF RemoveTunnel, Conn, Keys
  <2>5. \A k \in NodeKeys \cup ClientKeys : k \in Keys
    BY DEF Keys
  <2> HIDE DEF q
  <2>6. QED
    BY <1>0, <2>1, <2>2, <2>3, <2>4, <2>5, ProcPlaces, ClientPlaces, ConnCopies
<1>2. CASE DeleteRecord(p) \/ DeleteFails(p)
  <2> DEFINE q == [proc[p] EXCEPT !.victim = 0]
  <2>1. q \in Proc
    BY <1>0, ConnectionAssumption DEF Proc
  <2>2. proc' = [proc EXCEPT ![p] = q]
    BY <1>2 DEF DeleteRecord, DeleteFails, TypeOK, ConnTypeOK
  <2>3. q.todo = proc[p].todo /\ q.ip = proc[p].ip /\ q.label = proc[p].label
    BY <1>0 DEF Proc
  <2>4. /\ UNCHANGED poolVars /\ labelIp' = labelIp
        /\ \A c \in conns' : c \in conns
    BY <1>2 DEF DeleteRecord, DeleteFails
  <2> HIDE DEF q
  <2>5. QED
    BY <1>0, <2>1, <2>2, <2>3, <2>4, ProcPlaces, ClientPlaces, ConnCopies
       DEF poolVars
<1>3. CASE Removed(p)
  <2> DEFINE q == IF proc[p].step = "evict"
                    THEN [proc[p] EXCEPT !.step = "address"] ELSE Idle
  <2>1. q \in Proc
    BY <1>0, IdleType DEF Proc, Step
  <2>2. proc' = [proc EXCEPT ![p] = q]
    BY <1>3 DEF Removed, TypeOK, ConnTypeOK
  <2>3. \/ q.todo = {} /\ q.ip = NoIp
        \/ q.todo = proc[p].todo /\ q.ip = proc[p].ip /\ q.label = proc[p].label
    BY <1>0 DEF Proc, Idle
  <2>4. UNCHANGED poolVars /\ labelIp' = labelIp /\ conns' = conns
    BY <1>3 DEF Removed
  <2> HIDE DEF q
  <2>5. QED
    BY <1>0, <2>1, <2>2, <2>3, <2>4, ProcPlaces, ClientPlaces, ConnCopies
       DEF poolVars
<1>4. QED
  BY <1>1, <1>2, <1>3 DEF Remove

LEMMA TakeAddressAddress ==
    ASSUME AddressInv, TypeOK, UNCHANGED joinVars, NEW r \in Slots,
           NEW ip \in Ip, TakeAddress(r, ip)
    PROVE  AddressStep
<1>1. ip = nextIp /\ nextIp' = nextIp + 1
  BY AllocateType DEF TakeAddress, TypeOK
<1>2. /\ UNCHANGED <<wg, conns, labelIp>>
      /\ r \in Procs
      /\ \A p \in Procs \ {r} : proc'[p] = proc[p]
      /\ proc'[r].ip = ip
      /\ proc'[r].label = proc[r].label
      /\ proc'[r].todo = proc[r].todo
  BY DEF TakeAddress, TypeOK, ConnTypeOK, Procs, Proc
<1>3. ClientRecords' = ClientRecords
  <2>1. \A p \in Procs : proc'[p].todo = proc[p].todo
    BY <1>2
  <2>2. QED
    BY <1>2, <2>1 DEF ClientRecords
<1>4. \A j \in NodeKeys, a \in Ip : NodeHas(j, a)' => NodeHas(j, a)
  BY <1>2, ConnKeepsNodes
<1>5. \A a \in Ip : ClientHas(a)' => ClientHas(a) \/ a = nextIp
  BY <1>1, <1>2, <1>3 DEF ClientHas
<1>6. \A l \in Labels, a \in Ip :
        LabelHas(l, a)' => LabelHas(l, a) \/ (l = proc[r].label /\ a = nextIp)
  BY <1>1, <1>2 DEF LabelHas
<1>7. QED
  BY <1>1, <1>4, <1>5, <1>6, ClientTakesFresh

LEMMA ConnectStepAddress ==
    ASSUME AddressInv, TypeOK, UNCHANGED joinVars, NEW r \in Slots,
           ConnectStep(r) \/ PinUnread(r) \/ PinFails(r) \/ RecordFails(r)
    PROVE  AddressStep
<1>0. /\ r \in Procs
      /\ proc[r] \in Proc
      /\ proc[r].ip # NoIp =>
           /\ ClientHas(proc[r].ip)
           /\ proc[r].label \in Labels => LabelHas(proc[r].label, proc[r].ip)
      /\ \A c \in proc[r].todo : c \in ClientRecords
      /\ \A c \in conns : ClientHas(c.ip)
      /\ proc \in [Procs -> Proc]
      /\ WellFormed(proc[r])
  BY ClientPlaces, RecordType DEF TypeOK, ConnTypeOK, ClientRecords, Procs
<1>1. CASE ReadPin(r)
  <2> DEFINE q == [proc[r] EXCEPT !.step = "tunnel", !.ip = labelIp[proc[r].label]]
  <2>1. /\ q \in Proc
        /\ q.ip = labelIp[proc[r].label] /\ q.label = proc[r].label
        /\ q.todo = proc[r].todo
    BY <1>0, <1>1 DEF ReadPin, Pinned, TypeOK, ConnTypeOK, Proc, Step
  <2>2. proc[r].label \in Labels
    BY <1>0, <1>1 DEF ReadPin, Pinned, Proc
  <2>3. LabelHas(q.label, q.ip) /\ ClientHas(q.ip)
    BY <1>1, <2>1, <2>2, ClientPlaces, LabelIsClient DEF ReadPin, Pinned
  <2>4. /\ proc' = [proc EXCEPT ![r] = q] /\ UNCHANGED poolVars
        /\ labelIp' = labelIp /\ conns' = conns
    BY <1>0, <1>1 DEF ReadPin
  <2> HIDE DEF q
  <2>5. QED
    BY <1>0, <2>1, <2>3, <2>4, ProcPlaces, ClientPlaces, ConnCopies DEF poolVars
<1>2. CASE MissPin(r) \/ PinUnread(r)
  <2> DEFINE q == [proc[r] EXCEPT !.step = "pin"]
  <2>1. /\ q \in Proc
        /\ q.ip = proc[r].ip /\ q.label = proc[r].label /\ q.todo = proc[r].todo
    BY <1>0 DEF Proc, Step
  <2>2. /\ proc' = [proc EXCEPT ![r] = q] /\ UNCHANGED poolVars
        /\ labelIp' = labelIp /\ conns' = conns
    BY <1>0, <1>2 DEF MissPin, PinUnread, WillPin
  <2> HIDE DEF q
  <2>3. QED
    BY <1>0, <2>1, <2>2, ProcPlaces, ClientPlaces, ConnCopies DEF poolVars
<1>3. CASE \E ip \in Ip : TakeAddress(r, ip)
  BY <1>3, TakeAddressAddress
<1>4. CASE RefuseConnect(r) \/ RecordFails(r)
  <2>1. /\ proc' = [proc EXCEPT ![r] = Idle] /\ UNCHANGED poolVars
        /\ labelIp' = labelIp /\ conns' = conns
        /\ Idle.todo = {} /\ Idle.ip = NoIp
    BY <1>4 DEF RefuseConnect, RecordFails, Idle
  <2>2. QED
    BY <1>0, <2>1, IdleType, ProcPlaces, ClientPlaces, ConnCopies DEF poolVars
<1>5. CASE PinLabel(r) \/ PinFails(r)
  <2> DEFINE q == [proc[r] EXCEPT !.step = "tunnel"]
  <2>1. /\ q \in Proc
        /\ q.ip = proc[r].ip /\ q.label = proc[r].label /\ q.todo = proc[r].todo
    BY <1>0 DEF Proc, Step
  <2>2. /\ proc' = [proc EXCEPT ![r] = q] /\ UNCHANGED poolVars
        /\ conns' = conns /\ proc[r].ip # NoIp
        /\ \/ labelIp' = [labelIp EXCEPT ![proc[r].label] = proc[r].ip]
           \/ labelIp' = labelIp
    BY <1>0, <1>5 DEF PinLabel, PinFails
  <2>3. \A l \in Labels : labelIp'[l] # NoIp => LabelHas(l, labelIp'[l])
    BY <1>0, <2>2, ClientPlaces DEF TypeOK, ConnTypeOK
  <2> HIDE DEF q
  <2>4. QED
    BY <1>0, <2>1, <2>2, <2>3, ProcPlaces, ClientPlaces, ConnCopies DEF poolVars
<1>6. CASE AddTunnel(r)
  <2> DEFINE q == [proc[r] EXCEPT !.step = "record"]
  <2>1. /\ q \in Proc
        /\ q.ip = proc[r].ip /\ q.label = proc[r].label /\ q.todo = proc[r].todo
    BY <1>0 DEF Proc, Step
  <2>2. /\ proc' = [proc EXCEPT ![r] = q] /\ nextIp' = nextIp
        /\ labelIp' = labelIp /\ conns' = conns
    BY <1>0, <1>6 DEF AddTunnel
  <2>3. /\ proc[r].key \in ClientKeys /\ proc[r].key \in Keys
        /\ proc[r].ip \in OptIp /\ proc[r].ip # NoIp
    BY <1>0, <1>6, RecordType DEF AddTunnel, WellFormed, Proc, Keys
  <2>4. \A k \in Keys : \/ wg'[k] = wg[k]
                        \/ wg'[k] = NoIp
                        \/ k = proc[r].key /\ wg'[k] = proc[r].ip
    BY <1>6, <2>3, WgWithEntries DEF AddTunnel
  <2>5. /\ \A k \in NodeKeys : wg'[k] = wg[k] \/ wg'[k] = NoIp
        /\ \A k \in ClientKeys : ClientHas(wg'[k]) \/ wg'[k] = NoIp
    BY <1>0, <2>3, <2>4, ClientPlaces, PoolAssumption DEF Keys
  <2> HIDE DEF q
  <2>6. QED
    BY <1>0, <2>1, <2>2, <2>5, ProcPlaces, ClientPlaces, ConnCopies
<1>7. CASE PutRecord(r)
  <2>1. /\ proc' = [proc EXCEPT ![r] = Idle] /\ UNCHANGED poolVars
        /\ labelIp' = labelIp
        /\ \A c \in conns' : c \in conns \/ c.ip = proc[r].ip
        /\ Idle.todo = {} /\ Idle.ip = NoIp
        /\ proc[r].ip # NoIp
    BY <1>0, <1>7, RecordType DEF PutRecord, Idle, WellFormed
  <2>2. QED
    BY <1>0, <2>1, IdleType, ProcPlaces, ClientPlaces, ConnCopies DEF poolVars
<1>8. QED
  BY <1>1, <1>2, <1>3, <1>4, <1>5, <1>6, <1>7 DEF ConnectStep

LEMMA OtherConnAddress ==
    ASSUME AddressInv, TypeOK, UNCHANGED joinVars,
           \/ \E r \in Slots, c \in conns : Disconnect(r, c) \/ BeatRead(r, c)
           \/ \E r \in Slots : BeatWrite(r) \/ BeatFails(r)
           \/ \E c \in conns : GoSilent(c)
           \/ \E listed \in SUBSET Silent : SweepOf(listed)
    PROVE  AddressStep
<1>0. /\ \A c \in conns : c \in ClientRecords /\ ClientHas(c.ip) /\ c \in Conn
      /\ Idle \in Proc /\ Idle.ip = NoIp /\ Idle.todo = {}
  BY ClientPlaces, RecordType, IdleType DEF TypeOK, ConnTypeOK, ClientRecords, Idle
<1> DEFINE q(s, todo) == [Idle EXCEPT !.step = s, !.todo = todo]
<1>1. ASSUME NEW s \in {"remove", "beat"}, NEW todo \in SUBSET conns
      PROVE  /\ q(s, todo) \in Proc
             /\ q(s, todo).ip = NoIp
             /\ q(s, todo).todo = todo
  BY <1>0 DEF Idle, Proc, Step
<1>2. ASSUME NEW p \in Procs, NEW s \in {"remove", "beat"},
             NEW todo \in SUBSET conns, proc' = [proc EXCEPT ![p] = q(s, todo)],
             conns' = conns, labelIp' = labelIp, UNCHANGED poolVars
      PROVE  AddressStep
  <2> HIDE DEF q
  <2>1. /\ q(s, todo) \in Proc
        /\ q(s, todo).ip = NoIp
        /\ \A c \in q(s, todo).todo : c \in ClientRecords
    BY <1>0, <1>1
  <2>2. QED
    BY <1>0, <1>2, <2>1, ProcPlaces, ClientPlaces, ConnCopies DEF poolVars
<1>3. ASSUME NEW r \in Slots, NEW c \in conns, Disconnect(r, c) \/ BeatRead(r, c)
      PROVE  AddressStep
  <2>1. r \in Procs /\ {c} \in SUBSET conns
    BY DEF Procs
  <2>2. /\ \/ proc' = [proc EXCEPT ![r] = q("remove", {c})]
           \/ proc' = [proc EXCEPT ![r] = q("beat", {c})]
        /\ conns' = conns /\ labelIp' = labelIp /\ UNCHANGED poolVars
    BY <1>3 DEF Disconnect, BeatRead
  <2> HIDE DEF q
  <2>3. QED
    BY <1>2, <2>1, <2>2
<1>4. ASSUME NEW r \in Slots, BeatWrite(r)
      PROVE  AddressStep
  <2>1. PICK b \in proc[r].todo :
          conns' = {c \in conns : c.id # b.id} \cup {[b EXCEPT !.fresh = TRUE]}
    BY <1>4 DEF BeatWrite
  <2>2. r \in Procs /\ b \in Conn /\ ClientHas(b.ip)
    <3>1. r \in Procs
      BY DEF Procs
    <3>2. b \in Conn /\ b \in ClientRecords
      BY <3>1, RecordType, ClientPlaces DEF TypeOK
    <3>3. QED
      BY <3>1, <3>2, ClientPlaces
  <2>3. \A c \in conns' : c \in conns \/ c.ip = b.ip
    BY <2>1, <2>2 DEF Conn
  <2>4. /\ proc' = [proc EXCEPT ![r] = Idle]
        /\ labelIp' = labelIp /\ UNCHANGED poolVars
    BY <1>4 DEF BeatWrite
  <2>5. QED
    BY <1>0, <2>2, <2>3, <2>4, ProcPlaces, ClientPlaces, ConnCopies DEF poolVars
<1>5. ASSUME NEW d \in conns, GoSilent(d)
      PROVE  AddressStep
  <2>1. \A c \in conns' : ClientHas(c.ip)
    BY <1>0, <1>5 DEF GoSilent, Conn
  <2>2. /\ proc' = proc /\ labelIp' = labelIp /\ UNCHANGED poolVars
    BY <1>5 DEF GoSilent
  <2>3. \A c \in ClientRecords' : ClientHas(c.ip)
    BY <2>1, <2>2, ClientPlaces DEF ClientRecords
  <2>4. QED
    BY <2>2, <2>3, ClientPlaces, ConnCopies DEF poolVars
<1>6. ASSUME NEW listed \in SUBSET Silent, SweepOf(listed)
      PROVE  AddressStep
  <2>1. Sweeper \in Procs /\ listed \in SUBSET conns
    BY DEF Procs, Silent
  <2>2. /\ proc' = [proc EXCEPT ![Sweeper] = q("remove", listed)]
        /\ conns' = conns /\ labelIp' = labelIp /\ UNCHANGED poolVars
    BY <1>6 DEF SweepOf
  <2> HIDE DEF q
  <2>3. QED
    BY <1>2, <2>1, <2>2
<1>7. ASSUME NEW r \in Slots, BeatFails(r)
      PROVE  AddressStep
  <2>1. /\ r \in Procs /\ proc' = [proc EXCEPT ![r] = Idle]
        /\ conns' = conns /\ labelIp' = labelIp /\ UNCHANGED poolVars
    BY <1>7 DEF BeatFails, Procs
  <2>2. QED
    BY <1>0, <2>1, ProcPlaces, ClientPlaces, ConnCopies DEF poolVars
<1>8. QED
  BY <1>3, <1>4, <1>5, <1>6, <1>7

LEMMA ConnNextAddress ==
    ASSUME AddressInv, TypeOK, ConnNext, UNCHANGED <<joinVars, restarts>>
    PROVE  AddressStep
<1>1. UNCHANGED joinVars
  OBVIOUS
<1>2. CASE ConnectCase
  BY <1>1, <1>2, ConnectAddress DEF ConnectCase
<1>3. CASE RequestCase
  BY <1>1, <1>3, ConnectStepAddress DEF RequestCase
<1>4. CASE RemoveCase
  BY <1>1, <1>4, RemoveAddress DEF RemoveCase
<1>5. CASE OtherCase
  BY <1>1, <1>5, OtherConnAddress DEF OtherCase
<1>6. QED
  BY <1>2, <1>3, <1>4, <1>5, ConnCases

\* A restart keeps a part of what was recorded and puts next_ip above it.
LEMMA RestartAddress == ASSUME AddressInv, TypeOK, Restart PROVE AddressStep
<1>0. /\ peers' = savedPeers /\ savedPeers' = savedPeers
      /\ tasks' = {} /\ joining' = NotJoining
      /\ \A k \in NodeKeys : wg'[k] = savedPeers[k].ip
      /\ \A k \in ClientKeys : wg'[k] = NoIp
      /\ conns' = conns /\ labelIp' = labelIp
      /\ \A p \in Procs : proc'[p].ip = NoIp /\ proc'[p].todo = {}
  BY PoolAssumption DEF Restart, SavedTable, Idle, Keys
<1>1. \A j \in NodeKeys, a \in Ip : NodeHas(j, a)' => savedPeers[j].ip = a
  BY <1>0, IpFacts DEF NodeHas, NotJoining
<1>2. \A a \in Ip : ClientHas(a)' => \/ \E c \in conns : c.ip = a
                                     \/ \E l \in Labels : labelIp[l] = a
  BY <1>0, IpFacts DEF ClientHas, ClientRecords
<1>3. \A l \in Labels, a \in Ip : LabelHas(l, a)' => labelIp[l] = a
  BY <1>0, IpFacts DEF LabelHas
<1>4. \A j \in NodeKeys, a \in Ip : NodeHas(j, a)' => NodeHas(j, a)
  BY <1>1, IpFacts DEF NodeHas
<1>5. \A a \in Ip : ClientHas(a)' => ClientHas(a)
  BY <1>2, IpFacts DEF ClientHas, ClientRecords
<1>6. \A l \in Labels, a \in Ip : LabelHas(l, a)' => LabelHas(l, a)
  BY <1>3, IpFacts DEF LabelHas
<1>7. BelowNext'
  <2>1. PICK m \in RecordedIps :
          (\A i \in RecordedIps : i <= m) /\ nextIp' = m + 1
    BY DEF Restart, FirstFreeAfter
  <2>2. RecordedIps \subseteq Ip
    BY IpFacts DEF RecordedIps, TypeOK, JoinTypeOK, ConnTypeOK, PeerMap, Peer,
                   Conn, Ip, OptIp, NoIp
  <2>3. \A a \in RecordedIps : a < nextIp'
    BY <2>1, <2>2 DEF Ip
  <2>4. \A j \in NodeKeys, a \in Ip : NodeHas(j, a)' => a \in RecordedIps
    BY <1>1, IpFacts DEF RecordedIps
  <2>5. \A a \in Ip : ClientHas(a)' => a \in RecordedIps
    BY <1>2, IpFacts DEF RecordedIps
  <2>6. QED
    BY <2>3, <2>4, <2>5 DEF BelowNext
<1>8. QED
  BY <1>4, <1>5, <1>6, <1>7, CopyKeeps

LEMMA NextAddress == TypeOK /\ AddressInv /\ [Next]_vars => AddressStep
<1> SUFFICES ASSUME TypeOK, AddressInv, [Next]_vars PROVE AddressStep
  OBVIOUS
<1>1. CASE JoinNext /\ UNCHANGED <<connVars, restarts>>
  BY <1>1, JoinCases, JoinBeginAddress, JoinEndAddress, JoinTaskAddress
<1>2. CASE ConnNext /\ UNCHANGED <<joinVars, restarts>>
  BY <1>2, ConnNextAddress
<1>3. CASE Restart
  BY <1>3, RestartAddress
<1>4. CASE UNCHANGED vars
  <2>1. /\ UNCHANGED <<nextIp, wg, peers, savedPeers, joining, tasks>>
        /\ UNCHANGED <<conns, labelIp, proc>>
    BY <1>4 DEF vars, poolVars, joinVars, connVars
  <2>2. QED
    BY <2>1, CopyKeeps DEF NodeHas, ClientHas, LabelHas, ClientRecords
<1>5. QED
  BY <1>1, <1>2, <1>3, <1>4 DEF Next

\* All places that record an address agree on its owner, and the pool is
\* above all of them, whatever handlers interleave and whenever the master is
\* killed and started again.
THEOREM AddressInvariance == Spec => []AddressInv
<1>1. TypeOK /\ AddressInv /\ [Next]_vars => AddressInv'
  BY NextAddress DEF AddressStep
<1>2. QED
  BY <1>1, AddressInit, TypeCorrect, PTL DEF Spec

LEMMA AddressInvGivesUnique ==
    ASSUME TypeOK, AddressInv
    PROVE  AddressesUnique
<1> SUFFICES ASSUME NEW o \in NodeKeys \cup Labels, NEW q \in NodeKeys \cup Labels,
                    Registered(o) # NoIp, Registered(o) = Registered(q)
             PROVE  o = q
  BY DEF AddressesUnique
<1> DEFINE a == Registered(o)
<1>1. a \in Ip
  BY DEF Registered, TypeOK, JoinTypeOK, ConnTypeOK, PeerMap, Peer, Ip, OptIp, NoIp
<1>2. \A k \in NodeKeys : Registered(k) = a => NodeHas(k, a)
  BY DEF NodeHas, Registered
<1>3. \A l \in Labels : l \notin NodeKeys /\ Registered(l) = a => LabelHas(l, a)
  BY DEF LabelHas, Registered
<1>4. \A l \in Labels : LabelHas(l, a) => ClientHas(a)
  BY LabelIsClient
<1> HIDE DEF a
<1>5. Registered(o) = a /\ Registered(q) = a
  BY DEF a
<1>6. QED
  BY <1>1, <1>2, <1>3, <1>4, <1>5
     DEF AddressInv, OneNodePerAddress, NodesApartFromClients, OneLabelPerAddress

\* An address on the master's books has one owner, before and after restarts.
THEOREM AddressesAreUnique == Spec => []AddressesUnique
BY TypeCorrect, AddressInvariance, AddressInvGivesUnique, PTL

\* Only its owner's key has a registered agent's address in the WireGuard
\* table, even when `wg` commands fail.
THEOREM WireGuardRoutesOwners == Spec => []WgRoutesOwners
<1>1. ASSUME TypeOK, AddressInv PROVE WgRoutesOwners
  <2> SUFFICES ASSUME NEW j \in NodeKeys, NEW k \in Keys,
                      peers[j].ip # NoIp, wg[k] = peers[j].ip
               PROVE  k = j
    BY DEF WgRoutesOwners
  <2> DEFINE a == peers[j].ip
  <2>1. a \in Ip
    BY <1>1 DEF TypeOK, JoinTypeOK, PeerMap, Peer, Ip, OptIp, NoIp
  <2>2. NodeHas(j, a)
    BY DEF NodeHas
  <2>3. k \in NodeKeys => NodeHas(k, a)
    BY DEF NodeHas
  <2>4. k \in ClientKeys => ClientHas(a)
    BY DEF ClientHas
  <2> HIDE DEF a
  <2>5. QED
    BY <1>1, <2>1, <2>2, <2>3, <2>4
       DEF AddressInv, OneNodePerAddress, NodesApartFromClients, Keys
<1>2. QED
  BY <1>1, TypeCorrect, AddressInvariance, PTL

\* An owner's registered address is recorded as its own.
LEMMA RegisteredHas ==
    ASSUME TypeOK, NEW o \in NodeKeys \cup Labels, Registered(o) # NoIp
    PROVE  /\ Registered(o) \in Ip
           /\ o \in NodeKeys => NodeHas(o, Registered(o))
           /\ o \notin NodeKeys => /\ o \in Labels
                                   /\ LabelHas(o, Registered(o))
                                   /\ ClientHas(Registered(o))
<1>1. Registered(o) \in Ip
  BY DEF Registered, TypeOK, JoinTypeOK, ConnTypeOK, PeerMap, Peer, Ip, OptIp, NoIp
<1>2. o \in NodeKeys => NodeHas(o, Registered(o))
  BY DEF NodeHas, Registered
<1>3. o \notin NodeKeys => LabelHas(o, Registered(o))
  BY DEF LabelHas, Registered
<1>4. QED
  BY <1>1, <1>2, <1>3, LabelIsClient

\* An address an owner has before a step is with nobody else after it.
LEMMA StepDoesNotPassOn ==
    ASSUME TypeOK, TypeOK', AddressInv, OnlyFreshIsNew,
           NEW o \in NodeKeys \cup Labels, NEW q \in NodeKeys \cup Labels,
           Registered(o) # NoIp, Registered(q)' = Registered(o)
    PROVE  q = o
<1>0. PICK a \in Ip : a = Registered(o)
  BY RegisteredHas
<1>1. /\ a \in Ip
      /\ o \in NodeKeys => NodeHas(o, a)
      /\ o \notin NodeKeys => o \in Labels /\ LabelHas(o, a) /\ ClientHas(a)
  BY <1>0, RegisteredHas
<1>2. a # nextIp
  BY <1>1, PoolAssumption DEF AddressInv, BelowNext, TypeOK, Ip
<1>3. /\ q \in NodeKeys => NodeHas(q, a)'
      /\ q \notin NodeKeys => q \in Labels /\ LabelHas(q, a)' /\ ClientHas(a)'
  <2>1. q \in NodeKeys => NodeHas(q, a)'
    BY <1>0, IpFacts DEF NodeHas, Registered
  <2>2. q \notin NodeKeys => LabelHas(q, a)' /\ ClientHas(a)'
    BY <1>0, IpFacts DEF LabelHas, ClientHas, Registered
  <2>3. QED
    BY <2>1, <2>2
<1>4. /\ q \in NodeKeys => NodeHas(q, a)
      /\ q \notin NodeKeys => q \in Labels /\ LabelHas(q, a) /\ ClientHas(a)
  BY <1>1, <1>2, <1>3, Zenon DEF OnlyFreshIsNew
<1>5. QED
  BY <1>1, <1>4, Zenon
     DEF AddressInv, OneNodePerAddress, NodesApartFromClients, OneLabelPerAddress

\* The pool implements the abstract lease: every behaviour of the master is,
\* seen through the registered addresses, a behaviour of AddressLease.
THEOREM PoolImplementsLease == Spec => LeaseImplemented
<1> DEFINE L == [o \in NodeKeys \cup Labels |-> Registered(o)]
<1>1. Init => Lease!LeaseInit
  BY DEF Init, JoinInit, ConnInit, Lease!LeaseInit, Registered, Absent
<1>2. TypeOK /\ TypeOK' /\ AddressInv /\ AddressesUnique' /\ [Next]_vars
        => [Lease!LeaseNext]_L
  <2> SUFFICES ASSUME TypeOK, TypeOK', AddressInv, AddressesUnique', [Next]_vars
               PROVE  Lease!LeaseNext
    OBVIOUS
  <2>1. L' \in [NodeKeys \cup Labels -> Ip \cup {NoIp}]
    BY DEF Registered, TypeOK, JoinTypeOK, ConnTypeOK, PeerMap, Peer, Ip,
           OptIp, NoIp
  <2>2. Lease!Unique(L')
    BY DEF AddressesUnique, Lease!Unique
  <2>3. OnlyFreshIsNew
    BY NextAddress DEF AddressStep
  <2>4. \A o \in NodeKeys \cup Labels : Lease!NotPassedOn(o)
    BY <2>3, StepDoesNotPassOn DEF Lease!NotPassedOn
  <2>5. QED
    BY <2>1, <2>2, <2>4 DEF Lease!LeaseNext
<1>3. QED
  BY <1>1, <1>2, TypeCorrect, AddressInvariance, AddressesAreUnique, PTL
     DEF Spec, LeaseImplemented, Lease!LeaseSpec

-----------------------------------------------------------------------------
(* Tokens *)

LEMMA JoinBeginFields ==
    ASSUME TypeOK, NEW k \in NodeKeys, NEW n \in Names, NEW ip \in Ip,
           NEW kept, BeginStep(k, n, ip, kept)
    PROVE  /\ joining = NotJoining /\ joining' # NotJoining /\ joining'.key = k
           /\ joining'.ip = ip /\ peers'[k] = peers[k]
           /\ peers[k].ip = ip \/ peers[k].ip = NoIp
           /\ \A j \in NodeKeys : peers'[j] = Absent \/ peers'[j] = peers[j]
           /\ \A j \in NodeKeys \ {k} : peers[j].name = n => peers'[j] = Absent
           /\ tokens' = {t \in tokens : t.username # n} \cup kept
           /\ kept \subseteq tokens
           /\ UNCHANGED <<tasks, policies, bindings, agentToken, refused>>
<1> USE DEF BeginStep
<1>1. joining' = [key |-> k, name |-> n, ip |-> ip] /\ ip # NoIp
  BY IpFacts DEF JoinBegin
<1>2. joining' # NotJoining /\ joining'.key = k /\ joining'.ip = ip
  BY <1>1 DEF NotJoining
<1>3. \A j \in NodeKeys : peers'[j] = IF j \in Namesakes(k, n) THEN Absent ELSE peers[j]
  BY DEF JoinBegin
<1>4. peers[k].ip = ip \/ peers[k].ip = NoIp
  BY DEF JoinBegin, AddressOf
<1>5. QED
  BY <1>2, <1>3, <1>4 DEF JoinBegin, Namesakes

LEMMA TokenInit == Init => TokenInv
BY DEF Init, JoinInit, TokenInv, TasksInOrder, TokenAuthorised, TokenOnItsWay, Absent

LEMMA JoinBeginTokens ==
    ASSUME TypeOK, TokenInv, NEW k \in NodeKeys, NEW n \in Names, NEW ip \in Ip,
           NEW kept, BeginStep(k, n, ip, kept), UNCHANGED <<connVars, restarts>>
    PROVE  TokenInv'
<1>1. TasksInOrder' /\ TokenAuthorised'
  BY JoinBeginFields DEF TokenInv, TasksInOrder, TokenAuthorised
<1>2. TokenOnItsWay'
  <2> SUFFICES ASSUME restarts = 0, NEW j \in NodeKeys, peers'[j].ip # NoIp, j # k
               PROVE  LET token == [id |-> agentToken[j], username |-> peers[j].name]'
                      IN  \/ token \in tokens'
                          \/ <<"token", token.id>> \in refused'
                          \/ \E t \in tasks' : t.token = token /\ t.step # "peers"
    BY JoinBeginFields DEF TokenOnItsWay
  <2>1. peers'[j] = peers[j] /\ peers[j].name # n
    BY JoinBeginFields DEF Absent
  <2>2. PICK token : token = [id |-> agentToken[j], username |-> peers[j].name]
    OBVIOUS
  <2>3. \/ token \in tokens
        \/ <<"token", token.id>> \in refused
        \/ \E t \in tasks : t.token = token /\ t.step # "peers"
    BY <2>1, <2>2, JoinBeginFields DEF TokenInv, TokenOnItsWay
  <2>4. token.username # n
    BY <2>1, <2>2
  <2>5. token = [id |-> agentToken[j], username |-> peers[j].name]'
    BY <2>1, <2>2, JoinBeginFields
  <2>6. \/ token \in tokens'
        \/ <<"token", token.id>> \in refused'
        \/ \E t \in tasks' : t.token = token /\ t.step # "peers"
    BY <2>3, <2>4, JoinBeginFields
  <2>7. QED
    BY <2>5, <2>6
<1>3. QED
  BY <1>1, <1>2 DEF TokenInv

LEMMA JoinEndTokens ==
    ASSUME TypeOK, TokenInv, NEW u, EndStep(u), UNCHANGED <<connVars, restarts>>
    PROVE  TokenInv'
<1> USE DEF EndStep
<1>0. PICK k, n : k = joining.key /\ n = joining.name
  OBVIOUS
<1>1. k \in NodeKeys /\ n \in Names
  BY <1>0 DEF TypeOK, JoinTypeOK, Joining, JoinEnd
<1>2. /\ agentToken' = [agentToken EXCEPT ![k] = u.id]
      /\ tasks' = tasks \cup {[join |-> joins + 1, step |-> "policy", token |-> u,
                              snapshot |-> peers']}
  BY <1>0 DEF JoinEnd
<1>3. /\ peers' = [peers EXCEPT ![k] = [ip |-> joining.ip, name |-> n]]
      /\ UNCHANGED <<policies, bindings, tokens, refused>> /\ joining # NotJoining
  BY <1>0 DEF JoinEnd
<1>4. u = [id |-> u.id, username |-> n]
  BY <1>0 DEF TokenFor, NewToken, TypeOK, JoinTypeOK, Token
<1>5. PICK w : w = [join |-> joins + 1, step |-> "policy", token |-> u, snapshot |-> peers']
  OBVIOUS
<1>6. tasks' = tasks \cup {w} /\ w.step = "policy" /\ w.token = u
  BY <1>2, <1>5
<1>7. TasksInOrder' /\ TokenAuthorised'
  BY <1>3, <1>6 DEF TokenInv, TasksInOrder, TokenAuthorised
<1>8. TokenOnItsWay'
  <2> SUFFICES ASSUME restarts = 0, NEW j \in NodeKeys, peers'[j].ip # NoIp
               PROVE  LET token == [id |-> agentToken[j], username |-> peers[j].name]'
                      IN  \/ token \in tokens'
                          \/ <<"token", token.id>> \in refused'
                          \/ \E t \in tasks' : t.token = token /\ t.step # "peers"
    BY DEF TokenOnItsWay
  <2>1. CASE j = k
    <3>1. agentToken'[j] = u.id /\ peers'[j].name = n
      BY <1>1, <1>2, <1>3, <2>1 DEF TypeOK, JoinTypeOK, PeerMap
    <3>2. u = [id |-> agentToken[j], username |-> peers[j].name]'
      BY <1>4, <3>1
    <3>3. QED
      BY <1>6, <3>2
  <2>2. CASE j # k
    <3>1. agentToken'[j] = agentToken[j] /\ peers'[j] = peers[j]
      BY <1>1, <1>2, <1>3, <2>2 DEF TypeOK, JoinTypeOK, PeerMap
    <3>2. PICK token : token = [id |-> agentToken[j], username |-> peers[j].name]
      OBVIOUS
    <3>3. \/ token \in tokens
          \/ <<"token", token.id>> \in refused
          \/ \E t \in tasks : t.token = token /\ t.step # "peers"
      BY <1>0, <2>2, <3>1, <3>2 DEF TokenInv, TokenOnItsWay
    <3>4. token = [id |-> agentToken[j], username |-> peers[j].name]'
      BY <3>1, <3>2
    <3>5. QED
      BY <1>3, <1>6, <3>3, <3>4
  <2>3. QED
    BY <2>1, <2>2
<1>9. QED
  BY <1>7, <1>8 DEF TokenInv

\* What a step of task t does to the store, and the task u that it leaves.
TaskMove(t, u) ==
    /\ refused \subseteq refused'
    /\ u.token = t.token
    /\ \/ /\ t.step = "policy" /\ u.step = "binding"
          /\ tasks' = (tasks \ {t}) \cup {u}
          /\ \/ policies' = policies \cup {t.token.id}
             \/ UNCHANGED policies /\ <<"policy", t.token.id>> \in refused'
          /\ UNCHANGED <<bindings, tokens>>
       \/ /\ t.step = "binding" /\ u.step = "token"
          /\ tasks' = (tasks \ {t}) \cup {u}
          /\ \/ bindings' = bindings \cup
                  {[subject |-> t.token.username, policy |-> t.token.id]}
             \/ UNCHANGED bindings /\ <<"binding", t.token.id>> \in refused'
          /\ UNCHANGED <<policies, tokens>>
       \/ /\ t.step = "token" /\ u.step = "peers"
          /\ tasks' = (tasks \ {t}) \cup {u}
          /\ \/ tokens' = tokens \cup {t.token}
             \/ UNCHANGED tokens /\ <<"token", t.token.id>> \in refused'
          /\ UNCHANGED <<policies, bindings>>
       \/ /\ t.step = "peers"
          /\ tasks' = tasks \ {t}
          /\ UNCHANGED <<policies, bindings, tokens>>

LEMMA TaskMoves ==
    ASSUME TypeOK, NEW t \in tasks, TaskStepOf(t)
    PROVE  \E u : TaskMove(t, u)
<1>1. t \in Task
  BY DEF TypeOK, JoinTypeOK
<1>2. ASSUME NEW step PROVE LET u == [t EXCEPT !.step = step]
                            IN  u.step = step /\ u.token = t.token
  BY <1>1 DEF Task
<1>3. CASE TaskPutPolicy(t) /\ UNCHANGED refused
  <2> DEFINE u == [t EXCEPT !.step = "binding"]
  <2>1. tasks' = (tasks \ {t}) \cup {u} /\ u.step = "binding" /\ u.token = t.token
    BY <1>2, <1>3 DEF TaskPutPolicy, Advance
  <2>2. TaskMove(t, u)
    BY <1>3, <2>1 DEF TaskPutPolicy, TaskMove
  <2>3. QED
    BY <2>2
<1>4. CASE TaskPutBinding(t) /\ UNCHANGED refused
  <2> DEFINE u == [t EXCEPT !.step = "token"]
  <2>1. tasks' = (tasks \ {t}) \cup {u} /\ u.step = "token" /\ u.token = t.token
    BY <1>2, <1>4 DEF TaskPutBinding, Advance
  <2>2. TaskMove(t, u)
    BY <1>4, <2>1 DEF TaskPutBinding, TaskMove
  <2>3. QED
    BY <2>2
<1>5. CASE TaskPutToken(t) /\ UNCHANGED refused
  <2> DEFINE u == [t EXCEPT !.step = "peers"]
  <2>1. tasks' = (tasks \ {t}) \cup {u} /\ u.step = "peers" /\ u.token = t.token
    BY <1>2, <1>5 DEF TaskPutToken, Advance
  <2>2. TaskMove(t, u)
    BY <1>5, <2>1 DEF TaskPutToken, TaskMove
  <2>3. QED
    BY <2>2
<1>6. CASE TaskRefused(t)
  <2> DEFINE u == [t EXCEPT !.step = After(t.step)]
  <2>1. /\ tasks' = (tasks \ {t}) \cup {u}
        /\ u.step = After(t.step) /\ u.token = t.token
    BY <1>2, <1>6 DEF TaskRefused, Advance
  <2>2. \/ t.step = "policy" /\ After(t.step) = "binding"
        \/ t.step = "binding" /\ After(t.step) = "token"
        \/ t.step = "token" /\ After(t.step) = "peers"
    BY <1>1, <1>6 DEF TaskRefused, After, Task, TaskStep
  <2>3. TaskMove(t, u)
    BY <1>6, <2>1, <2>2 DEF TaskRefused, TaskMove
  <2>4. QED
    BY <2>3
<1>7. CASE (TaskSavePeers(t) /\ UNCHANGED refused) \/ TaskSaveFails(t)
  <2>1. TaskMove(t, t)
    BY <1>7 DEF TaskSavePeers, TaskSaveFails, TaskMove
  <2>2. QED
    BY <2>1
<1>8. QED
  BY <1>3, <1>4, <1>5, <1>6, <1>7 DEF TaskStepOf, JoinTask

LEMMA JoinTaskTokens ==
    ASSUME TypeOK, TokenInv, NEW t \in tasks, TaskStepOf(t),
           UNCHANGED <<connVars, restarts>>
    PROVE  TokenInv'
<1>1. UNCHANGED <<peers, joining, agentToken>>
  BY DEF TaskStepOf, JoinTask, TaskPutPolicy, TaskPutBinding, TaskPutToken,
         TaskSavePeers, TaskRefused, TaskSaveFails
<1>2. PICK u : TaskMove(t, u)
  BY TaskMoves
<1>3. TasksInOrder'
  BY <1>2 DEF TokenInv, TasksInOrder, TaskMove
<1>4. TokenAuthorised'
  BY <1>2 DEF TokenInv, TasksInOrder, TokenAuthorised, TaskMove
<1>5. ASSUME NEW token,
             \/ token \in tokens
             \/ <<"token", token.id>> \in refused
             \/ \E w \in tasks : w.token = token /\ w.step # "peers"
      PROVE  \/ token \in tokens'
             \/ <<"token", token.id>> \in refused'
             \/ \E w \in tasks' : w.token = token /\ w.step # "peers"
  <2>1. CASE token \in tokens \/ <<"token", token.id>> \in refused
    BY <1>2, <2>1 DEF TaskMove
  <2>2. ASSUME NEW w \in tasks, w.token = token, w.step # "peers"
        PROVE  \/ token \in tokens'
               \/ <<"token", token.id>> \in refused'
               \/ \E v \in tasks' : v.token = token /\ v.step # "peers"
    <3>1. CASE w = t
      BY <1>2, <2>2, <3>1 DEF TaskMove
    <3>2. CASE w # t
      BY <1>2, <2>2, <3>2 DEF TaskMove
    <3>3. QED
      BY <3>1, <3>2
  <2>3. QED
    BY <1>5, <2>1, <2>2
<1>6. TokenOnItsWay'
  BY <1>1, <1>5 DEF TokenInv, TokenOnItsWay
<1>7. QED
  BY <1>3, <1>4, <1>6 DEF TokenInv

\* A task comes to the token after its policy and binding, each stored or
\* refused by the store, and the token that an agent was given is stored,
\* refused or on its way: TokenInv is inductive.
THEOREM TokenInvariance == Spec => []TokenInv
<1>1. TypeOK /\ TokenInv /\ [Next]_vars => TokenInv'
  <2> SUFFICES ASSUME TypeOK, TokenInv, [Next]_vars PROVE TokenInv'
    OBVIOUS
  <2>1. CASE UNCHANGED <<joinVars, restarts>>
    BY <2>1 DEF joinVars, TokenInv, TasksInOrder, TokenAuthorised, TokenOnItsWay
  <2>2. CASE JoinNext /\ UNCHANGED <<connVars, restarts>>
    BY <2>2, JoinCases, JoinBeginTokens, JoinEndTokens, JoinTaskTokens
  <2>3. CASE Restart
    <3>1. restarts' # 0 /\ tasks' = {} /\ UNCHANGED <<policies, bindings, tokens, refused>>
      BY <2>3, RestartAssumption DEF Restart, TypeOK
    <3>2. QED
      BY <3>1 DEF TokenInv, TasksInOrder, TokenAuthorised, TokenOnItsWay
  <2>4. QED
    BY <2>1, <2>2, <2>3 DEF Next, vars
<1>2. QED
  BY TokenInit, <1>1, TypeCorrect, PTL DEF Spec

\* The token of an agent is not stored without what it grants, in whatever
\* order the tasks of joins run and wherever the master is killed, unless the
\* store failed to write the very policy or binding that is missing.
THEOREM TokensAreAuthorised == Spec => []TokenAuthorised
<1>1. TokenInv => TokenAuthorised
  BY DEF TokenInv
<1>2. QED
  BY <1>1, TokenInvariance, PTL

\* Once its joins are over, a master that was not restarted has the token of
\* each of its agents but those that the store failed to write: no other error
\* loses one.
THEOREM AgentsHaveTokens == Spec => []AgentTokenStored
<1>1. TokenInv => AgentTokenStored
  BY DEF TokenInv, TokenOnItsWay, AgentTokenStored
<1>2. QED
  BY <1>1, TokenInvariance, PTL

\* An agent that joins again keeps its address, whatever is between the two
\* parts of its join.
THEOREM AddressIsKept == Spec => AddressKept
<1> DEFINE Keeps == restarts' = restarts =>
                      \A k \in NodeKeys : peers[k].ip # NoIp /\ peers'[k].ip # NoIp
                                            => peers'[k].ip = peers[k].ip
<1>1. Init => JoiningKeeps
  BY DEF Init, JoinInit, JoiningKeeps
<1>2. TypeOK /\ JoiningKeeps /\ [Next]_vars => JoiningKeeps' /\ [Keeps]_vars
  <2> SUFFICES ASSUME TypeOK, JoiningKeeps, [Next]_vars PROVE JoiningKeeps' /\ Keeps
    OBVIOUS
  <2>1. CASE UNCHANGED <<peers, joining>>
    BY <2>1 DEF JoiningKeeps
  <2>2. ASSUME NEW k \in NodeKeys, NEW n \in Names, NEW ip \in Ip,
               NEW kept \in SUBSET tokens, BeginStep(k, n, ip, kept)
        PROVE  JoiningKeeps' /\ Keeps
    BY <2>2, JoinBeginFields DEF JoiningKeeps, Absent
  <2>3. CASE \E t : EndStep(t)
    <3>1. PICK k : k = joining.key
      OBVIOUS
    <3>2. /\ joining # NotJoining /\ joining' = NotJoining /\ k \in NodeKeys
          /\ peers' = [peers EXCEPT ![k] = [ip |-> joining.ip, name |-> joining.name]]
      BY <2>3, <3>1 DEF EndStep, JoinEnd, TypeOK, JoinTypeOK, Joining
    <3>3. \A j \in NodeKeys : peers'[j] = IF j = k THEN [ip |-> joining.ip, name |-> joining.name]
                                         ELSE peers[j]
      BY <3>2 DEF TypeOK, JoinTypeOK, PeerMap
    <3>4. QED
      BY <3>1, <3>2, <3>3 DEF JoiningKeeps
  <2>4. ASSUME NEW t \in tasks, TaskStepOf(t) PROVE UNCHANGED <<peers, joining>>
    BY <2>4 DEF TaskStepOf, JoinTask, TaskPutPolicy, TaskPutBinding, TaskPutToken,
                TaskSavePeers, TaskRefused, TaskSaveFails
  <2>5. CASE Restart
    BY <2>5 DEF Restart, TypeOK, JoiningKeeps
  <2>6. QED
    BY <2>1, <2>2, <2>3, <2>4, <2>5, JoinCases DEF Next, joinVars, vars
<1>3. QED
  BY <1>1, <1>2, TypeCorrect, PTL DEF Spec, AddressKept

-----------------------------------------------------------------------------
(* Labels.  A connect that nothing disturbs finds, pins and uses one        *)
(* address and ends as the only connection of its label.                   *)

\* What a request other than the one that moves relies on: the pins stay, every
\* connection was there, perhaps with another time, no label becomes settled
\* and no connect undisturbed.
Shrinks ==
    /\ labelIp' = labelIp
    /\ settled' \subseteq settled
    /\ calm' \subseteq calm
    /\ \A c \in conns' : \E d \in conns : d.id = c.id /\ d.label = c.label /\ d.ip = c.ip

\* A connect that is disturbed is one of a label that is not settled.
Yields == \A s \in calm \ calm' : proc'[s].label \notin settled'

LEMMA DisturbYields ==
    ASSUME TypeOK, LabelInv, NEW p \in Procs, NEW l,
           Disturb(l) \/ UNCHANGED <<calm, settled>>,
           \A o \in Procs \ {p} : proc'[o] = proc[o],
           proc'[p].label \in {proc[p].label, NoLabel}
    PROVE  settled' \subseteq settled /\ calm' \subseteq calm /\ Yields
<1>1. NoLabel \notin settled /\ calm \subseteq Procs
  BY ConnectionAssumption DEF TypeOK, ConnTypeOK, Procs
<1>2. QED
  BY <1>1 DEF Disturb, Connecting, Yields

\* A request that moves keeps its label or is done with it.
LEMMA OtherLabels ==
    ASSUME NEW o, SlotLabels(o), proc'[o] = proc[o], labelIp' = labelIp,
           settled' \subseteq settled, o \in calm' => o \in calm,
           \A c \in conns' : \E d \in conns : d.id = c.id /\ d.label = c.label /\ d.ip = c.ip
    PROVE  SlotLabels(o)'
<1>1. Beats(o)' = Beats(o) /\ Listed(o)' = Listed(o)
  BY DEF Beats, Listed
<1>2. PinsKept(o)' /\ RecordsPinned(Beats(o))'
  BY <1>1 DEF SlotLabels, PinsKept, RecordsPinned
<1>3. OthersEvicted(o)' /\ BeatsOwn(o)'
  BY <1>1 DEF SlotLabels, OthersEvicted, BeatsOwn
<1>4. QED
  BY <1>2, <1>3 DEF SlotLabels

LEMMA ApartStep ==
    ASSUME TypeOK, LabelInv, NEW p \in Procs, calm' \subseteq calm,
           \A o \in Procs \ {p} : proc'[o] = proc[o],
           proc'[p].label \in {proc[p].label, NoLabel},
           Beats(p)' \subseteq Beats(p),
           p \in calm' => proc'[p].label \in Labels
    PROVE  ConnectsApart'
<1> SUFFICES ASSUME NEW r \in Slots, NEW s \in Slots, r # s, r \in calm'
             PROVE  proc'[r].label \notin Touched(s)'
  BY DEF ConnectsApart
<1>1. r \in Procs /\ s \in Procs /\ r \in calm /\ NoLabel \notin Labels
  BY ConnectionAssumption DEF Procs
<1>2. proc'[r].label = proc[r].label /\ proc[r].label \in Labels
  BY <1>1 DEF LabelInv, SlotLabels, PinsKept
<1>3. Touched(s)' \subseteq Touched(s) \cup {NoLabel}
  BY <1>1 DEF Touched, Beats
<1>4. proc[r].label \notin Touched(s)
  BY <1>1 DEF LabelInv, ConnectsApart
<1>5. QED
  BY <1>1, <1>2, <1>3, <1>4

\* A step of one process that pins nothing and adds no connection.
LEMMA ShrinkStep ==
    ASSUME TypeOK, LabelInv, NEW p \in Procs, Shrinks, Yields,
           \A o \in Procs \ {p} : proc'[o] = proc[o],
           proc'[p].label \in {proc[p].label, NoLabel},
           Beats(p)' \subseteq Beats(p),
           p \in Slots => PinsKept(p)' /\ OthersEvicted(p)',
           OneConnectionPerLabel'
    PROVE  LabelInv'
<1>1. ASSUME NEW o \in Slots PROVE SlotLabels(o)'
  <2>1. SlotLabels(o) /\ o \in Procs
    BY DEF LabelInv, Procs
  <2>2. CASE o = p
    <3>1. RecordsPinned(Beats(p))' /\ BeatsOwn(p)'
      BY <2>1, <2>2 DEF SlotLabels, RecordsPinned, BeatsOwn, Shrinks
    <3>2. QED
      BY <2>2, <3>1 DEF SlotLabels
  <2>3. CASE o # p
    <3>1. /\ proc'[o] = proc[o] /\ labelIp' = labelIp /\ settled' \subseteq settled
          /\ o \in calm' => o \in calm
      BY <2>1, <2>3 DEF Shrinks
    <3>2. QED
      BY <2>1, <3>1, OtherLabels DEF Shrinks
  <2>4. QED
    BY <2>2, <2>3
<1>2. RecordsPinned(conns)'
  BY DEF LabelInv, RecordsPinned, Shrinks
<1>3. ConnectsApart'
  <2>1. p \in calm' => p \in Slots
    BY DEF Shrinks, TypeOK, ConnTypeOK
  <2>2. p \in calm' => proc'[p].label \in Labels
    BY <2>1 DEF PinsKept
  <2>3. QED
    BY <2>2, ApartStep DEF Shrinks
<1>4. SettledConnects'
  <2> SUFFICES ASSUME NEW r \in Slots, proc'[r].label \in settled' PROVE r \in calm'
    BY DEF SettledConnects
  <2>1. NoLabel \notin settled /\ r \in Procs
    BY ConnectionAssumption DEF TypeOK, ConnTypeOK, Procs
  <2>2. proc'[r].label = proc[r].label /\ proc[r].label \in settled
    BY <2>1 DEF Shrinks
  <2>3. r \in calm
    BY <2>2 DEF LabelInv, SettledConnects
  <2>4. QED
    BY <2>3 DEF Yields
<1>5. BeatsAgree'
  <2>1. \A o \in Slots : Beats(o)' \subseteq Beats(o)
    BY DEF Beats, Procs
  <2>2. QED
    BY <2>1 DEF LabelInv, BeatsAgree, Shrinks
<1>6. QED
  BY <1>1, <1>2, <1>3, <1>4, <1>5 DEF LabelInv

\* The connections and the pins stay.
LEMMA QuietStep ==
    ASSUME TypeOK, LabelInv, NEW p \in Procs, UNCHANGED <<conns, labelIp>>,
           settled' \subseteq settled, calm' \subseteq calm, Yields,
           \A o \in Procs \ {p} : proc'[o] = proc[o],
           proc'[p].label \in {proc[p].label, NoLabel},
           Beats(p)' \subseteq Beats(p),
           p \in Slots => PinsKept(p)' /\ OthersEvicted(p)'
    PROVE  LabelInv'
<1>1. Shrinks
  BY DEF Shrinks
<1>2. OneConnectionPerLabel'
  BY DEF LabelInv, OneConnectionPerLabel
<1>3. QED
  BY <1>1, <1>2, ShrinkStep

\* A request that the step leaves disturbed or without a label.
LEMMA DoneLabels ==
    ASSUME NEW p, p \notin calm'
    PROVE  PinsKept(p)' /\ OthersEvicted(p)'
BY DEF PinsKept, OthersEvicted

\* The entry of a process after it changed.
LEMMA EntryOf ==
    ASSUME ConnTypeOK, NEW p \in Procs, NEW q, proc' = [proc EXCEPT ![p] = q]
    PROVE  proc'[p] = q /\ \A o \in Procs \ {p} : proc'[o] = proc[o]
BY DEF ConnTypeOK

\* A process that does not connect is not an undisturbed connect.
LEMMA OnlyConnectsCalm ==
    ASSUME TypeOK, LabelInv, NEW p \in Procs, proc[p].step \in {"idle", "remove", "beat"}
    PROVE  p \notin calm /\ proc[p].label = NoLabel
<1>1. proc[p].label = NoLabel
  BY RecordType DEF TypeOK, WellFormed
<1>2. p \in calm => proc[p].label \in Labels
  BY DEF LabelInv, SlotLabels, PinsKept, TypeOK, ConnTypeOK
<1>3. QED
  BY <1>1, <1>2, ConnectionAssumption

LEMMA ConnectLabels ==
    ASSUME TypeOK, LabelInv, NEW r \in Slots, NEW k \in ClientKeys,
           NEW l \in Labels \cup {NoLabel}, NEW listed \in SUBSET Replaced(k, l),
           ConnectStart(r, k, l, listed)
    PROVE  LabelInv'
<1> DEFINE q == [step |-> "evict", key |-> k, label |-> l, ip |-> NoIp,
                 id |-> connSeq + 1, todo |-> listed, victim |-> 0]
<1>1. /\ proc' = [proc EXCEPT ![r] = q] /\ UNCHANGED <<conns, labelIp>>
      /\ r \in Procs /\ proc[r].step = "idle"
  BY DEF ConnectStart, ConnectWith, Procs, Idle
<1>2. q.step = "evict" /\ q.label = l /\ q.todo = listed
  OBVIOUS
<1> HIDE DEF q
<1>3. proc'[r] = q /\ \A o \in Procs \ {r} : proc'[o] = proc[o]
  BY <1>1, EntryOf DEF TypeOK
<1>4. Beats(r)' = {} /\ Touched(r)' = {l}
  BY <1>2, <1>3 DEF Beats, Touched
<1>5. r \notin calm /\ NoLabel \notin settled /\ NoLabel \notin Labels
  BY <1>1, OnlyConnectsCalm, ConnectionAssumption DEF TypeOK, ConnTypeOK
<1>6. \/ /\ l \in Labels /\ \A s \in Slots : l \notin Touched(s)
         /\ listed = Replaced(k, l)
         /\ calm' = calm \cup {r} /\ settled' = settled
      \/ Disturb(l)
  BY DEF ConnectStart
<1>7. settled' \subseteq settled /\ \A o \in Slots \ {r} : o \in calm' => o \in calm
  BY <1>6 DEF Disturb
<1>8. PinsKept(r)' /\ OthersEvicted(r)'
  <2>1. CASE r \in calm'
    <3>1. l \in Labels /\ listed = Replaced(k, l)
      BY <1>5, <1>6, <2>1 DEF Disturb
    <3>2. PinsKept(r)'
      BY <1>2, <1>3, <3>1 DEF PinsKept
    <3>3. OthersEvicted(r)'
      BY <1>1, <1>2, <1>3, <1>5, <3>1 DEF OthersEvicted, Listed, Replaced
    <3>4. QED
      BY <3>2, <3>3
  <2>2. QED
    BY <2>1, DoneLabels
<1>9. SlotLabels(r)'
  BY <1>4, <1>8 DEF SlotLabels, RecordsPinned, BeatsOwn
<1>10. \A o \in Slots : SlotLabels(o)'
  <2>1. ASSUME NEW o \in Slots, o # r PROVE SlotLabels(o)'
    <3>1. SlotLabels(o) /\ proc'[o] = proc[o]
      BY <1>3, <2>1 DEF LabelInv, Procs
    <3>2. QED
      BY <1>1, <1>7, <2>1, <3>1, OtherLabels
  <2>2. QED
    BY <1>9, <2>1
<1>11. ConnectsApart'
  <2> SUFFICES ASSUME NEW a \in Slots, NEW b \in Slots, a # b, a \in calm'
               PROVE  proc'[a].label \notin Touched(b)'
    BY DEF ConnectsApart
  <2>1. CASE a = r
    <3>1. l \notin Touched(b) /\ Touched(b)' = Touched(b)
      BY <1>3, <1>5, <1>6, <2>1 DEF Disturb, Touched, Procs
    <3>2. QED
      BY <1>2, <1>3, <2>1, <3>1
  <2>2. CASE b = r
    <3>1. proc'[a] = proc[a] /\ a \in calm
      BY <1>3, <1>7, <2>2 DEF Procs
    <3>2. proc[a].label # l
      BY <1>6, <3>1 DEF Disturb, Connecting, Touched
    <3>3. QED
      BY <1>4, <2>2, <3>1, <3>2
  <2>3. CASE a # r /\ b # r
    <3>1. proc'[a] = proc[a] /\ Touched(b)' = Touched(b) /\ a \in calm
      BY <1>3, <1>7, <2>3 DEF Touched, Procs
    <3>2. QED
      BY <3>1 DEF LabelInv, ConnectsApart
  <2>4. QED
    BY <2>1, <2>2, <2>3
<1>12. SettledConnects'
  <2> SUFFICES ASSUME NEW o \in Slots, proc'[o].label \in settled' PROVE o \in calm'
    BY DEF SettledConnects
  <2>1. CASE o = r
    BY <1>2, <1>3, <1>6, <2>1 DEF Disturb
  <2>2. CASE o # r
    <3>1. proc'[o] = proc[o] /\ o \in calm
      BY <1>3, <1>7, <2>2 DEF LabelInv, SettledConnects, Procs
    <3>2. QED
      BY <1>6, <3>1 DEF Disturb, Connecting
  <2>3. QED
    BY <2>1, <2>2
<1>13. BeatsAgree'
  <2>1. \A o \in Slots : Beats(o)' \subseteq Beats(o)
    BY <1>3, <1>4 DEF Beats, Procs
  <2>2. QED
    BY <1>7, <2>1 DEF LabelInv, BeatsAgree
<1>14. RecordsPinned(conns)' /\ OneConnectionPerLabel'
  BY <1>1, <1>7 DEF LabelInv, RecordsPinned, OneConnectionPerLabel
<1>15. QED
  BY <1>10, <1>11, <1>12, <1>13, <1>14 DEF LabelInv

LEMMA RemoveLabels ==
    ASSUME TypeOK, LabelInv, NEW p \in Procs, Remove(p) \/ DeleteFails(p)
    PROVE  LabelInv'
<1>0. /\ proc[p] \in Proc /\ ConnTypeOK
      /\ p \in Slots => SlotLabels(p)
      /\ calm \subseteq Slots
      /\ \A c \in conns : c.id # 0
  BY RecordType DEF TypeOK, ConnTypeOK, LabelInv, Conn, ConnId
<1>1. ASSUME NEW c \in proc[p].todo, RemoveTunnel(p, c)
      PROVE  LabelInv'
  <2> DEFINE q == [proc[p] EXCEPT !.victim = c.id, !.todo = @ \ {c}]
  <2>1. /\ proc' = [proc EXCEPT ![p] = q] /\ UNCHANGED <<conns, labelIp, calm, settled>>
        /\ proc[p].step \in {"evict", "remove"} /\ proc[p].victim = 0
    BY <1>0, <1>1 DEF RemoveTunnel, ConnTypeOK
  <2>2. /\ q.step = proc[p].step /\ q.label = proc[p].label /\ q.ip = proc[p].ip
        /\ q.victim = c.id /\ q.todo = proc[p].todo \ {c}
    BY <1>0 DEF Proc
  <2> HIDE DEF q
  <2>3. proc'[p] = q /\ \A o \in Procs \ {p} : proc'[o] = proc[o]
    BY <1>0, <2>1, EntryOf
  <2>4. p \in Slots => PinsKept(p)'
    BY <1>0, <2>1, <2>2, <2>3 DEF SlotLabels, PinsKept
  <2>5. \A d \in conns : d.id \in Listed(p) => d.id \in Listed(p)'
    BY <1>0, <2>1, <2>2, <2>3 DEF Listed
  <2>6. p \in Slots => OthersEvicted(p)'
    BY <1>0, <2>1, <2>2, <2>3, <2>5 DEF SlotLabels, OthersEvicted
  <2>7. Beats(p)' \subseteq Beats(p) /\ Yields
    BY <2>1, <2>2, <2>3 DEF Beats, Yields
  <2>8. QED
    BY <2>1, <2>2, <2>3, <2>4, <2>6, <2>7, QuietStep
<1>2. CASE DeleteRecord(p) \/ DeleteFails(p)
  <2> DEFINE q == [proc[p] EXCEPT !.victim = 0]
  <2>1. proc' = [proc EXCEPT ![p] = q] /\ labelIp' = labelIp
    BY <1>2 DEF DeleteRecord, DeleteFails
  <2>2. /\ q.step = proc[p].step /\ q.label = proc[p].label /\ q.ip = proc[p].ip
        /\ q.victim = 0 /\ q.todo = proc[p].todo
    BY <1>0 DEF Proc
  <2> HIDE DEF q
  <2>3. proc'[p] = q /\ \A o \in Procs \ {p} : proc'[o] = proc[o]
    BY <1>0, <2>1, EntryOf
  <2>4. \/ /\ conns' = {c \in conns : c.id # proc[p].victim}
           /\ UNCHANGED <<calm, settled>>
        \/ conns' = conns /\ Disturb(proc[p].label)
    BY <1>2 DEF DeleteRecord, DeleteFails
  <2>5. settled' \subseteq settled /\ calm' \subseteq calm /\ Yields
    BY <2>2, <2>3, <2>4, DisturbYields
  <2>6. ASSUME p \in Slots PROVE PinsKept(p)' /\ OthersEvicted(p)'
    <3>1. CASE Disturb(proc[p].label)
      BY <2>6, <3>1, DoneLabels DEF Disturb, Connecting
    <3>2. CASE UNCHANGED <<calm, settled>> /\ conns' = {c \in conns : c.id # proc[p].victim}
      <4>1. PinsKept(p)'
        BY <1>0, <2>1, <2>2, <2>3, <2>6, <3>2 DEF SlotLabels, PinsKept
      <4>2. OthersEvicted(p)'
        BY <1>0, <2>2, <2>3, <2>6, <3>2 DEF SlotLabels, OthersEvicted, Listed
      <4>3. QED
        BY <4>1, <4>2
    <3>3. QED
      BY <2>4, <3>1, <3>2
  <2>7. Shrinks /\ OneConnectionPerLabel'
    BY <2>1, <2>4, <2>5 DEF Shrinks, LabelInv, OneConnectionPerLabel
  <2>8. Beats(p)' \subseteq Beats(p)
    BY <2>2, <2>3 DEF Beats
  <2>9. QED
    BY <2>2, <2>3, <2>5, <2>6, <2>7, <2>8, ShrinkStep
<1>3. CASE Removed(p)
  <2>1. /\ UNCHANGED <<conns, labelIp, calm, settled>>
        /\ proc[p].step \in {"evict", "remove"}
        /\ proc[p].victim = 0 /\ proc[p].todo = {}
        /\ proc' = [proc EXCEPT ![p] = IF proc[p].step = "evict"
                                       THEN [proc[p] EXCEPT !.step = "address"] ELSE Idle]
        /\ Yields
    BY <1>0, <1>3 DEF Removed, ConnTypeOK, Yields
  <2>2. CASE proc[p].step # "evict"
    <3>1. proc'[p] = Idle /\ \A o \in Procs \ {p} : proc'[o] = proc[o]
      BY <1>0, <2>1, <2>2, EntryOf
    <3>2. proc'[p].label = NoLabel /\ Beats(p)' = {}
      BY <3>1 DEF Idle, Beats
    <3>3. p \notin calm'
      BY <2>1, <2>2, OnlyConnectsCalm
    <3>4. QED
      BY <2>1, <3>1, <3>2, <3>3, DoneLabels, QuietStep
  <2>3. CASE proc[p].step = "evict"
    <3> DEFINE q == [proc[p] EXCEPT !.step = "address"]
    <3>1. q.step = "address" /\ q.label = proc[p].label /\ q.todo = {}
      BY <1>0, <2>1 DEF Proc
    <3>2. proc' = [proc EXCEPT ![p] = q]
      BY <2>1, <2>3
    <3> HIDE DEF q
    <3>3. proc'[p] = q /\ \A o \in Procs \ {p} : proc'[o] = proc[o]
      BY <1>0, <3>2, EntryOf
    <3>4. \A c \in conns : c.id \notin Listed(p)
      BY <1>0, <2>1 DEF Listed
    <3>5. p \in Slots => OthersEvicted(p)' /\ PinsKept(p)'
      BY <1>0, <2>1, <2>3, <3>1, <3>3, <3>4 DEF SlotLabels, OthersEvicted, PinsKept
    <3>6. Beats(p)' = {}
      BY <3>1, <3>3 DEF Beats
    <3>7. QED
      BY <2>1, <3>1, <3>3, <3>5, <3>6, QuietStep
  <2>4. QED
    BY <2>2, <2>3
<1>4. QED
  BY <1>1, <1>2, <1>3 DEF Remove

\* The step of a connect ends it, or disturbs it and goes on.
LEMMA EndedLabels ==
    ASSUME TypeOK, LabelInv, NEW r \in Slots,
           \/ RefuseConnect(r) \/ RecordFails(r) \/ PinUnread(r) \/ PinFails(r)
    PROVE  LabelInv'
<1>0. /\ proc[r] \in Proc /\ ConnTypeOK /\ r \in Procs
      /\ UNCHANGED <<conns, labelIp>>
  BY RecordType DEF TypeOK, Procs, RefuseConnect, RecordFails, PinUnread, WillPin, PinFails
<1>1. CASE RefuseConnect(r) \/ RecordFails(r)
  <2>1. calm' = calm \ {r} /\ settled' = settled
    BY <1>1 DEF RefuseConnect, RecordFails
  <2>2. proc'[r] = Idle /\ \A o \in Procs \ {r} : proc'[o] = proc[o]
    BY <1>0, <1>1, EntryOf DEF RefuseConnect, RecordFails
  <2>3. proc'[r].label = NoLabel /\ Beats(r)' = {}
    BY <2>2 DEF Idle, Beats
  <2>4. Yields
    BY <2>1, <2>3, ConnectionAssumption DEF Yields, TypeOK, ConnTypeOK
  <2>5. QED
    BY <1>0, <2>1, <2>2, <2>3, <2>4, DoneLabels, QuietStep
<1>2. CASE PinUnread(r) \/ PinFails(r)
  <2>1. PICK step \in {"pin", "tunnel"} :
          proc' = [proc EXCEPT ![r] = [proc[r] EXCEPT !.step = step]]
    BY <1>2 DEF PinUnread, WillPin, PinFails
  <2> DEFINE q == [proc[r] EXCEPT !.step = step]
  <2>2. q.step = step /\ q.label = proc[r].label
    BY <1>0 DEF Proc
  <2>3. proc' = [proc EXCEPT ![r] = q]
    BY <2>1
  <2> HIDE DEF q
  <2>4. proc'[r] = q /\ \A o \in Procs \ {r} : proc'[o] = proc[o]
    BY <1>0, <2>3, EntryOf
  <2>5. Disturb(proc[r].label) /\ Beats(r)' = {}
    BY <1>2, <2>2, <2>4 DEF PinUnread, PinFails, Beats
  <2>6. settled' \subseteq settled /\ calm' \subseteq calm /\ Yields /\ r \notin calm'
    BY <1>0, <2>2, <2>4, <2>5, DisturbYields DEF Disturb, Connecting
  <2>7. QED
    BY <1>0, <2>2, <2>4, <2>5, <2>6, DoneLabels, QuietStep
<1>3. QED
  BY <1>1, <1>2

\* The steps of a connect that change only its own entry.
LEMMA OwnStepLabels ==
    ASSUME TypeOK, LabelInv, NEW r \in Slots,
           \/ ReadPin(r) \/ MissPin(r) \/ AddTunnel(r)
           \/ \E ip \in Ip : TakeAddress(r, ip)
    PROVE  LabelInv'
<1>0. /\ proc[r] \in Proc /\ ConnTypeOK /\ r \in Procs
      /\ SlotLabels(r)
      /\ UNCHANGED <<conns, labelIp, calm, settled>>
  BY RecordType
     DEF TypeOK, LabelInv, Procs, ReadPin, MissPin, WillPin, AddTunnel, TakeAddress
<1>1. PICK q :
        /\ proc' = [proc EXCEPT ![r] = q]
        /\ proc[r].step \in {"address", "pin", "tunnel"}
        /\ q.label = proc[r].label
        /\ \/ q.step = "pin" /\ (proc[r].step = "pin" \/ ~Pinned(q.label))
                             /\ q.label # NoLabel
           \/ q.step = "tunnel" /\ (q.label = NoLabel \/ q.ip = labelIp[q.label])
           \/ q.step = "record" /\ proc[r].step = "tunnel" /\ q.ip = proc[r].ip
  <2>1. CASE ReadPin(r)
    <3> DEFINE q == [proc[r] EXCEPT !.step = "tunnel", !.ip = labelIp[proc[r].label]]
    <3>1. proc' = [proc EXCEPT ![r] = q]
      BY <1>0, <2>1 DEF ReadPin, ConnTypeOK
    <3>2. q.step = "tunnel" /\ q.ip = labelIp[proc[r].label] /\ q.label = proc[r].label
      BY <1>0 DEF Proc
    <3>3. QED
      BY <2>1, <3>1, <3>2 DEF ReadPin
  <2>2. CASE MissPin(r)
    <3> DEFINE q == [proc[r] EXCEPT !.step = "pin"]
    <3>1. q.step = "pin" /\ q.label = proc[r].label
      BY <1>0 DEF Proc
    <3>2. QED
      BY <2>2, <3>1 DEF MissPin, WillPin
  <2>3. CASE AddTunnel(r)
    <3> DEFINE q == [proc[r] EXCEPT !.step = "record"]
    <3>1. q.step = "record" /\ q.ip = proc[r].ip /\ q.label = proc[r].label
      BY <1>0 DEF Proc
    <3>2. QED
      BY <2>3, <3>1 DEF AddTunnel
  <2>4. ASSUME NEW ip \in Ip, TakeAddress(r, ip)
        PROVE  \E q :
                 /\ proc' = [proc EXCEPT ![r] = q]
                 /\ proc[r].step \in {"address", "pin"}
                 /\ q.label = proc[r].label
                 /\ \/ q.step = "pin" /\ proc[r].step = "pin" /\ q.label # NoLabel
                    \/ q.step = "tunnel" /\ q.label = NoLabel
    <3> DEFINE s == IF proc[r].step = "pin" THEN "pin" ELSE "tunnel"
               q == [proc[r] EXCEPT !.ip = ip, !.step = s]
    <3>1. proc' = [proc EXCEPT ![r] = q]
      BY <1>0, <2>4 DEF TakeAddress, ConnTypeOK, Proc
    <3>2. q.step = s /\ q.label = proc[r].label
      BY <1>0 DEF Proc
    <3>3. \/ proc[r].step = "pin" /\ proc[r].label # NoLabel
          \/ proc[r].step = "address" /\ proc[r].label = NoLabel
      BY <1>0, <2>4 DEF TakeAddress, ConnTypeOK, WellFormed
    <3> HIDE DEF q
    <3>4. QED
      BY <3>1, <3>2, <3>3
  <2>5. QED
    BY <2>1, <2>2, <2>3, <2>4
<1>2. proc'[r] = q /\ \A o \in Procs \ {r} : proc'[o] = proc[o]
  BY <1>0, <1>1, EntryOf
<1>3. PinsKept(r)'
  BY <1>0, <1>1, <1>2, ConnectionAssumption DEF SlotLabels, PinsKept, Pinned
<1>4. OthersEvicted(r)'
  BY <1>0, <1>1, <1>2 DEF SlotLabels, OthersEvicted
<1>5. Beats(r)' = {} /\ Yields
  BY <1>0, <1>1, <1>2 DEF Beats, Yields
<1>6. QED
  BY <1>0, <1>1, <1>2, <1>3, <1>4, <1>5, QuietStep

LEMMA PinLabelLabels ==
    ASSUME TypeOK, LabelInv, NEW r \in Slots, PinLabel(r)
    PROVE  LabelInv'
<1>0. /\ proc[r] \in Proc /\ ConnTypeOK /\ r \in Procs
      /\ SlotLabels(r) /\ WellFormed(proc[r])
  BY RecordType DEF TypeOK, LabelInv, Procs
<1> PICK l, ip : l = proc[r].label /\ ip = proc[r].ip
  OBVIOUS
<1> DEFINE q == [proc[r] EXCEPT !.step = "tunnel"]
<1>1. /\ proc' = [proc EXCEPT ![r] = q] /\ UNCHANGED <<conns, calm, settled>>
      /\ labelIp' = [labelIp EXCEPT ![l] = ip] /\ proc[r].step = "pin"
  BY DEF PinLabel
<1>2. q.step = "tunnel" /\ q.label = l /\ q.ip = ip
  BY <1>0 DEF Proc
<1> HIDE DEF q
<1>3. proc'[r] = q /\ \A o \in Procs \ {r} : proc'[o] = proc[o]
  BY <1>0, <1>1, EntryOf
<1>4. /\ l \in Labels
      /\ labelIp'[l] = ip /\ \A m \in Labels \ {l} : labelIp'[m] = labelIp[m]
  BY <1>0, <1>1 DEF WellFormed, Proc, ConnTypeOK
<1>5. l \in settled => labelIp[l] = NoIp
  BY <1>0, <1>1 DEF LabelInv, SettledConnects, SlotLabels, PinsKept
<1>6. ASSUME NEW records \in SUBSET Conn,
             \A c \in records : c.label \in settled => labelIp[c.label] = c.ip
      PROVE  \A c \in records : c.label \in settled => labelIp'[c.label] = c.ip
  <2> SUFFICES ASSUME NEW c \in records, c.label \in settled PROVE labelIp'[c.label] = c.ip
    OBVIOUS
  <2>1. c.label \in Labels /\ c.ip # NoIp /\ labelIp[c.label] = c.ip
    BY <1>0, <1>6, IpFacts DEF Conn, ConnTypeOK
  <2>2. QED
    BY <1>4, <1>5, <2>1
<1>7. conns \in SUBSET Conn /\ \A p \in Slots : Beats(p) \in SUBSET Conn
  BY <1>0 DEF ConnTypeOK, Proc, Beats, Procs
<1>8. RecordsPinned(conns)'
  <2>1. \A c \in conns : c.label \in settled => labelIp[c.label] = c.ip
    BY DEF LabelInv, RecordsPinned
  <2>2. QED
    BY <1>1, <1>6, <1>7, <2>1 DEF RecordsPinned
<1>9. SlotLabels(r)'
  <2>1. Beats(r)' = {}
    BY <1>2, <1>3 DEF Beats
  <2>2. PinsKept(r)'
    BY <1>2, <1>3, <1>4 DEF PinsKept
  <2>3. OthersEvicted(r)'
    BY <1>0, <1>1, <1>2, <1>3 DEF SlotLabels, OthersEvicted
  <2>4. QED
    BY <2>1, <2>2, <2>3 DEF SlotLabels, RecordsPinned, BeatsOwn
<1>10. ASSUME NEW s \in Slots, s # r PROVE SlotLabels(s)'
  <2>1. SlotLabels(s) /\ proc'[s] = proc[s] /\ Beats(s)' = Beats(s)
    BY <1>3, <1>10 DEF LabelInv, Procs, Beats
  <2>2. s \in calm => proc[s].label \in Labels \ {l}
    BY <1>10, <2>1 DEF LabelInv, ConnectsApart, Touched, SlotLabels, PinsKept
  <2>3. PinsKept(s)'
    BY <1>1, <1>4, <2>1, <2>2 DEF SlotLabels, PinsKept
  <2>4. RecordsPinned(Beats(s))'
    <3>1. \A c \in Beats(s) : c.label \in settled => labelIp[c.label] = c.ip
      BY <2>1 DEF SlotLabels, RecordsPinned
    <3>2. QED
      BY <1>1, <1>6, <1>7, <2>1, <3>1 DEF RecordsPinned
  <2>5. OthersEvicted(s)' /\ BeatsOwn(s)'
    BY <1>1, <2>1 DEF SlotLabels, OthersEvicted, Listed, BeatsOwn
  <2>6. QED
    BY <2>3, <2>4, <2>5 DEF SlotLabels
<1>11. \A p \in Procs : Beats(p)' \subseteq Beats(p) /\ proc'[p].label = proc[p].label
  BY <1>2, <1>3 DEF Beats
<1>12. ConnectsApart'
  <2>1. r \in calm' => proc'[r].label \in Labels
    BY <1>2, <1>3, <1>4
  <2>2. calm' \subseteq calm /\ proc'[r].label \in {proc[r].label, NoLabel}
    BY <1>1, <1>11, <1>0
  <2>3. QED
    BY <1>0, <1>3, <1>11, <2>1, <2>2, ApartStep
<1>13. SettledConnects' /\ BeatsAgree'
  BY <1>1, <1>11 DEF LabelInv, SettledConnects, BeatsAgree, Procs
<1>14. OneConnectionPerLabel'
  BY <1>1 DEF LabelInv, OneConnectionPerLabel
<1>15. QED
  BY <1>8, <1>9, <1>10, <1>12, <1>13, <1>14 DEF LabelInv

\* b is added, with the address of its label, of which it is then the only one.
Adds(b) ==
    /\ conns' \subseteq conns \cup {b}
    /\ b.label \in settled' =>
          /\ labelIp[b.label] = b.ip
          /\ \A c \in conns' : c.label = b.label => c = b

\* No other request that is undisturbed connects the label of b, or has
\* another record of it, and none at all touches it if it becomes settled.
Alone(r, b) ==
    \A s \in Slots \ {r} :
        /\ s \in calm => proc[s].label # b.label
        /\ b.label \in settled' => \A a \in Beats(s) : a.label = b.label => a.id = b.id
        /\ b.label \in settled' => b.label \in settled \/ b.label \notin Touched(s)

\* A request adds such a connection, or replaces one by it, and is idle then.
LEMMA AddedLabels ==
    ASSUME TypeOK, LabelInv, NEW r \in Slots, NEW b,
           labelIp' = labelIp, proc' = [proc EXCEPT ![r] = Idle],
           calm' = calm \ {r}, settled' \subseteq settled \cup {b.label},
           settled' \subseteq Labels, Adds(b), Alone(r, b)
    PROVE  LabelInv'
<1>1. /\ r \in Procs /\ proc'[r] = Idle
      /\ \A o \in Procs \ {r} : proc'[o] = proc[o]
      /\ Beats(r)' = {} /\ proc'[r].label = NoLabel
      /\ NoLabel \notin settled'
  BY ConnectionAssumption DEF TypeOK, ConnTypeOK, Procs, Idle, Beats
<1>2. ASSUME NEW s \in Slots, s # r
      PROVE  /\ SlotLabels(s) /\ proc'[s] = proc[s] /\ s \in Procs
             /\ Beats(s)' = Beats(s) /\ Listed(s)' = Listed(s)
             /\ \A c \in Beats(s) : c.label \in settled' =>
                   c.label \in settled /\ (c.label = b.label => c.id = b.id)
  <2>1. SlotLabels(s) /\ proc'[s] = proc[s] /\ s \in Procs
    BY <1>1, <1>2 DEF LabelInv, Procs
  <2>2. \A c \in Beats(s) : c.label \in Touched(s)
    BY DEF Beats, Touched
  <2>3. QED
    BY <1>2, <2>1, <2>2 DEF Beats, Listed, Alone
<1>3. SlotLabels(r)'
  BY <1>1 DEF SlotLabels, PinsKept, OthersEvicted, RecordsPinned, BeatsOwn
<1>4. ASSUME NEW s \in Slots, s # r PROVE SlotLabels(s)'
  <2>1. PinsKept(s)' /\ RecordsPinned(Beats(s))'
    BY <1>2, <1>4 DEF SlotLabels, PinsKept, RecordsPinned
  <2>2. OthersEvicted(s)'
    BY <1>2, <1>4 DEF SlotLabels, OthersEvicted, Alone, Adds
  <2>3. BeatsOwn(s)'
    BY <1>2, <1>4 DEF SlotLabels, BeatsOwn, Adds
  <2>4. QED
    BY <2>1, <2>2, <2>3 DEF SlotLabels
<1>5. RecordsPinned(conns)'
  BY DEF LabelInv, RecordsPinned, Adds
<1>6. OneConnectionPerLabel'
  BY DEF LabelInv, OneConnectionPerLabel, Adds
<1>7. ConnectsApart'
  <2>1. calm' \subseteq calm /\ (r \in calm' => proc'[r].label \in Labels)
    OBVIOUS
  <2>2. QED
    BY <1>1, <2>1, ApartStep
<1>8. SettledConnects'
  <2> SUFFICES ASSUME NEW s \in Slots, proc'[s].label \in settled' PROVE s \in calm'
    BY DEF SettledConnects
  <2>1. s # r
    BY <1>1
  <2>2. proc[s].label \in settled' /\ proc[s].label \in Touched(s)
    BY <1>2, <2>1 DEF Touched
  <2>3. proc[s].label \in settled
    BY <2>1, <2>2 DEF Alone
  <2>4. QED
    BY <2>1, <2>3 DEF LabelInv, SettledConnects
<1>9. BeatsAgree'
  <2> SUFFICES ASSUME NEW s \in Slots, NEW t \in Slots, NEW c \in Beats(s)', NEW d \in Beats(t)',
                      c.label \in settled', d.label = c.label
               PROVE  d.id = c.id
    BY DEF BeatsAgree
  <2>1. s # r /\ t # r
    BY <1>1
  <2>2. c \in Beats(s) /\ d \in Beats(t) /\ c.label \in settled
    BY <1>2, <2>1
  <2>3. QED
    BY <2>2 DEF LabelInv, BeatsAgree
<1>10. QED
  BY <1>3, <1>4, <1>5, <1>6, <1>7, <1>8, <1>9 DEF LabelInv

LEMMA PutRecordLabels ==
    ASSUME TypeOK, LabelInv, NEW r \in Slots, PutRecord(r)
    PROVE  LabelInv'
<1> DEFINE b == [id |-> proc[r].id, key |-> proc[r].key, label |-> proc[r].label,
                 ip |-> proc[r].ip, fresh |-> TRUE]
<1>1. /\ proc[r].step = "record" /\ labelIp' = labelIp
      /\ proc' = [proc EXCEPT ![r] = Idle] /\ conns' = conns \cup {b}
      /\ settled' = settled \cup {l \in Labels : r \in calm /\ proc[r].label = l}
      /\ calm' = calm \ {r}
  BY DEF PutRecord
<1>2. b.label = proc[r].label /\ b.ip = proc[r].ip
  OBVIOUS
<1> HIDE DEF b
<1>3. SlotLabels(r) /\ settled \subseteq Labels
  BY DEF LabelInv, TypeOK, ConnTypeOK
<1>4. b.label \in settled' => r \in calm
  BY <1>1, <1>2 DEF LabelInv, SettledConnects
<1>5. Adds(b)
  <2>1. r \in calm => labelIp[b.label] = b.ip /\ \A c \in conns : c.label # b.label
    BY <1>1, <1>2, <1>3 DEF SlotLabels, PinsKept, OthersEvicted
  <2>2. QED
    BY <1>1, <1>4, <2>1 DEF Adds
<1>6. Alone(r, b)
  <2> SUFFICES ASSUME NEW s \in Slots \ {r}
               PROVE  /\ s \in calm => proc[s].label # b.label
                      /\ b.label \in settled' => b.label \notin Touched(s)
    BY DEF Alone, Touched, Beats
  <2>1. b.label \in Touched(r)
    BY <1>2 DEF Touched
  <2>2. QED
    BY <1>2, <1>4, <2>1 DEF LabelInv, ConnectsApart
<1>7. settled' \subseteq settled \cup {b.label} /\ settled' \subseteq Labels
  BY <1>1, <1>2, <1>3
<1>8. QED
  BY <1>1, <1>5, <1>6, <1>7, AddedLabels

LEMMA BeatWriteLabels ==
    ASSUME TypeOK, LabelInv, NEW r \in Slots, BeatWrite(r)
    PROVE  LabelInv'
<1>1. PICK a \in proc[r].todo :
        conns' = {c \in conns : c.id # a.id} \cup {[a EXCEPT !.fresh = TRUE]}
  BY DEF BeatWrite
<1>2. /\ proc[r].step = "beat" /\ UNCHANGED <<labelIp, calm, settled>>
      /\ proc' = [proc EXCEPT ![r] = Idle]
      /\ a \in Beats(r)
  BY DEF BeatWrite, Beats
<1>3. a \in Conn /\ SlotLabels(r) /\ settled \subseteq Labels
  BY RecordType DEF TypeOK, ConnTypeOK, LabelInv, Procs
<1>4. PICK b : b = [a EXCEPT !.fresh = TRUE]
  OBVIOUS
<1>5. /\ b.label = a.label /\ b.ip = a.ip /\ b.id = a.id
      /\ conns' = {c \in conns : c.id # a.id} \cup {b}
  BY <1>1, <1>3, <1>4 DEF Conn
<1>6. b.label \in settled => labelIp[b.label] = b.ip
  BY <1>2, <1>3, <1>5 DEF SlotLabels, RecordsPinned
<1>7. \A c \in conns : b.label \in settled /\ c.label = b.label => c.id = a.id
  BY <1>2, <1>3, <1>5 DEF SlotLabels, BeatsOwn
<1>8. b.label \in Touched(r) /\ Adds(b)
  BY <1>2, <1>5, <1>6, <1>7 DEF Touched, Beats, Adds
<1>9. Alone(r, b)
  <2> SUFFICES ASSUME NEW s \in Slots \ {r}
               PROVE  /\ s \in calm => proc[s].label # b.label
                      /\ b.label \in settled =>
                            \A d \in Beats(s) : d.label = b.label => d.id = b.id
    BY <1>2 DEF Alone
  <2>1. s \in calm => proc[s].label # b.label
    BY <1>8 DEF LabelInv, ConnectsApart
  <2>2. b.label \in settled => \A d \in Beats(s) : d.label = b.label => d.id = b.id
    BY <1>2, <1>5 DEF LabelInv, BeatsAgree
  <2>3. QED
    BY <2>1, <2>2
<1>10. r \notin calm
  BY <1>2, OnlyConnectsCalm DEF Procs
<1>11. calm' = calm \ {r}
  BY <1>2, <1>10
<1>12. QED
  BY <1>2, <1>3, <1>8, <1>9, <1>11, AddedLabels

\* The expiry loop or a disconnect reads records, or a heartbeat cannot write.
LEMMA ListLabels ==
    ASSUME TypeOK, LabelInv,
           \/ \E listed \in SUBSET Silent : SweepOf(listed)
           \/ \E r \in Slots, c \in conns : Disconnect(r, c)
           \/ \E r \in Slots : BeatFails(r)
    PROVE  LabelInv'
<1>1. PICK p, q :
        /\ p \in Procs
        /\ proc' = [proc EXCEPT ![p] = q]
        /\ proc[p].step \in {"idle", "beat"}
        /\ q.step \in {"idle", "remove"} /\ q.label = NoLabel
  <2> DEFINE q(todo) == [Idle EXCEPT !.step = "remove", !.todo = todo]
  <2>0. /\ \A todo : q(todo).step = "remove" /\ q(todo).label = NoLabel
        /\ Idle.step = "idle" /\ Idle.label = NoLabel
    BY DEF Idle
  <2>1. ASSUME NEW listed \in SUBSET Silent, SweepOf(listed)
        PROVE  /\ proc' = [proc EXCEPT ![Sweeper] = q(listed)]
               /\ Sweeper \in Procs /\ proc[Sweeper].step = "idle"
    BY <2>0, <2>1 DEF SweepOf, Procs
  <2>2. ASSUME NEW r \in Slots, NEW c \in conns, Disconnect(r, c)
        PROVE  /\ proc' = [proc EXCEPT ![r] = q({c})]
               /\ r \in Procs /\ proc[r].step = "idle"
    BY <2>0, <2>2 DEF Disconnect, Procs
  <2>3. ASSUME NEW r \in Slots, BeatFails(r)
        PROVE  /\ proc' = [proc EXCEPT ![r] = Idle]
               /\ r \in Procs /\ proc[r].step = "beat"
    BY <2>3 DEF BeatFails, Procs
  <2> HIDE DEF q
  <2>4. CASE \E listed \in SUBSET Silent : SweepOf(listed)
    BY <2>0, <2>1, <2>4
  <2>5. CASE \E r \in Slots, c \in conns : Disconnect(r, c)
    <3>1. PICK r \in Slots, c \in conns : Disconnect(r, c)
      BY <2>5
    <3>2. PICK e : e = q({c})
      OBVIOUS
    <3>3. /\ r \in Procs /\ proc' = [proc EXCEPT ![r] = e]
          /\ proc[r].step = "idle" /\ e.step = "remove" /\ e.label = NoLabel
      BY <2>0, <2>2, <3>1, <3>2
    <3>4. QED
      BY <3>3
  <2>6. CASE \E r \in Slots : BeatFails(r)
    BY <2>0, <2>3, <2>6
  <2>7. QED
    BY <2>4, <2>5, <2>6
<1>2. UNCHANGED <<conns, labelIp, calm, settled>>
  BY DEF Disconnect, SweepOf, BeatFails
<1>3. proc'[p] = q /\ \A o \in Procs \ {p} : proc'[o] = proc[o]
  BY <1>1, EntryOf DEF TypeOK
<1>4. p \notin calm' /\ Yields /\ Beats(p)' = {}
  BY <1>1, <1>2, <1>3, OnlyConnectsCalm DEF Yields, Beats
<1>5. QED
  BY <1>1, <1>2, <1>3, <1>4, DoneLabels, QuietStep

\* A heartbeat reads the record of its connection.
LEMMA BeatReadLabels ==
    ASSUME TypeOK, LabelInv, NEW r \in Slots, NEW c \in conns, BeatRead(r, c)
    PROVE  LabelInv'
<1> DEFINE q == [Idle EXCEPT !.step = "beat", !.todo = {c}]
<1>1. /\ proc' = [proc EXCEPT ![r] = q] /\ UNCHANGED <<conns, labelIp>>
      /\ proc[r].step = "idle"
      /\ Disturb(c.label) \/ (UNCHANGED <<calm, settled>> /\ Connecting(c.label) = {})
  BY DEF BeatRead, Idle
<1>2. q.step = "beat" /\ q.label = NoLabel /\ q.todo = {c}
  BY DEF Idle
<1> HIDE DEF q
<1>3. r \in Procs /\ r \notin calm /\ proc[r].label = NoLabel
  BY <1>1, OnlyConnectsCalm DEF Procs
<1>4. proc'[r] = q /\ \A o \in Procs \ {r} : proc'[o] = proc[o]
  BY <1>1, <1>3, EntryOf DEF TypeOK
<1>5. Beats(r)' = {c} /\ Touched(r)' = {NoLabel, c.label}
  BY <1>2, <1>4 DEF Beats, Touched
<1>6. /\ settled' \subseteq settled /\ calm' \subseteq calm /\ NoLabel \notin Labels
      /\ calm \subseteq Slots /\ settled \subseteq Labels
      /\ \A s \in calm' : proc[s].label # c.label
      /\ \A s \in calm \ calm' : proc[s].label \notin settled'
  BY <1>1, ConnectionAssumption DEF Disturb, Connecting, TypeOK, ConnTypeOK
<1>7. SlotLabels(r)'
  <2>1. PinsKept(r)' /\ OthersEvicted(r)'
    BY <1>3, <1>6, DoneLabels
  <2>2. RecordsPinned(Beats(r))'
    BY <1>1, <1>5, <1>6 DEF LabelInv, RecordsPinned
  <2>3. BeatsOwn(r)'
    BY <1>1, <1>5, <1>6 DEF LabelInv, OneConnectionPerLabel, BeatsOwn
  <2>4. QED
    BY <2>1, <2>2, <2>3 DEF SlotLabels
<1>8. ASSUME NEW s \in Slots, s # r
      PROVE  /\ SlotLabels(s)' /\ proc'[s] = proc[s] /\ SlotLabels(s)
             /\ Beats(s)' = Beats(s) /\ Touched(s)' = Touched(s)
  <2>1. SlotLabels(s) /\ proc'[s] = proc[s]
    BY <1>4, <1>8 DEF LabelInv, Procs
  <2>2. SlotLabels(s)'
    BY <1>1, <1>6, <2>1, OtherLabels
  <2>3. QED
    BY <2>1, <2>2 DEF Beats, Touched
<1>9. ConnectsApart'
  <2> SUFFICES ASSUME NEW a \in Slots, NEW b \in Slots, a # b, a \in calm'
               PROVE  proc'[a].label \notin Touched(b)'
    BY DEF ConnectsApart
  <2>1. a # r /\ a \in calm
    BY <1>3, <1>6
  <2>2. proc'[a] = proc[a] /\ proc[a].label \in Labels
    BY <1>8, <2>1 DEF SlotLabels, PinsKept
  <2>3. CASE b = r
    BY <1>5, <1>6, <2>2, <2>3
  <2>4. CASE b # r
    BY <1>8, <2>1, <2>2, <2>4 DEF LabelInv, ConnectsApart
  <2>5. QED
    BY <2>3, <2>4
<1>10. SettledConnects'
  <2> SUFFICES ASSUME NEW s \in Slots, proc'[s].label \in settled' PROVE s \in calm'
    BY DEF SettledConnects
  <2>1. s # r
    BY <1>2, <1>4, <1>6
  <2>2. proc[s].label \in settled'
    BY <1>8, <2>1
  <2>3. QED
    BY <1>6, <2>2 DEF LabelInv, SettledConnects
<1>11. BeatsAgree'
  <2>1. ASSUME NEW s \in Slots, s # r, NEW b \in Beats(s), b.label \in settled', c.label = b.label
        PROVE  c.id = b.id
    BY <1>6, <1>8, <2>1 DEF SlotLabels, BeatsOwn
  <2> SUFFICES ASSUME NEW a \in Slots, NEW s \in Slots, NEW b \in Beats(a)', NEW d \in Beats(s)',
                      b.label \in settled', d.label = b.label
               PROVE  d.id = b.id
    BY DEF BeatsAgree
  <2>2. CASE a = r
    <3>1. b = c
      BY <1>5, <2>2
    <3>2. QED
      BY <1>5, <1>8, <2>1, <3>1
  <2>3. CASE a # r /\ s = r
    <3>1. d = c /\ b \in Beats(a)
      BY <1>5, <1>8, <2>3
    <3>2. QED
      BY <2>1, <2>3, <3>1
  <2>4. CASE a # r /\ s # r
    BY <1>6, <1>8, <2>4 DEF LabelInv, BeatsAgree
  <2>5. QED
    BY <2>2, <2>3, <2>4
<1>12. RecordsPinned(conns)' /\ OneConnectionPerLabel'
  BY <1>1, <1>6 DEF LabelInv, RecordsPinned, OneConnectionPerLabel
<1>13. QED
  BY <1>7, <1>8, <1>9, <1>10, <1>11, <1>12 DEF LabelInv

LEMMA GoSilentLabels ==
    ASSUME TypeOK, LabelInv, NEW c \in conns, GoSilent(c)
    PROVE  LabelInv'
<1> DEFINE d == [c EXCEPT !.fresh = FALSE]
<1>1. /\ conns' = (conns \ {c}) \cup {d} /\ UNCHANGED <<labelIp, proc, calm, settled>>
  BY DEF GoSilent
<1>2. d.id = c.id /\ d.label = c.label /\ d.ip = c.ip
  BY DEF TypeOK, ConnTypeOK, Conn
<1> HIDE DEF d
<1>3. Shrinks
  BY <1>1, <1>2 DEF Shrinks
<1>4. OneConnectionPerLabel'
  BY <1>1, <1>2 DEF LabelInv, OneConnectionPerLabel
<1>5. \A s \in Slots : SlotLabels(s)'
  BY <1>1, <1>3, OtherLabels DEF LabelInv, Shrinks
<1>6. RecordsPinned(conns)'
  BY <1>1, <1>2 DEF LabelInv, RecordsPinned
<1>7. ConnectsApart' /\ SettledConnects' /\ BeatsAgree'
  BY <1>1 DEF LabelInv, ConnectsApart, SettledConnects, BeatsAgree, Touched, Beats
<1>8. QED
  BY <1>4, <1>5, <1>6, <1>7 DEF LabelInv

LEMMA RestartLabels ==
    ASSUME TypeOK, LabelInv, Restart
    PROVE  LabelInv'
<1>1. /\ \A p \in Slots : proc'[p].label = NoLabel /\ Beats(p)' = {}
      /\ UNCHANGED <<conns, labelIp, settled>> /\ calm' = {}
      /\ NoLabel \notin settled
  BY ConnectionAssumption DEF Restart, Idle, Beats, Procs, TypeOK, ConnTypeOK
<1>2. \A p \in Slots : SlotLabels(p)'
  BY <1>1, DoneLabels DEF SlotLabels, RecordsPinned, BeatsOwn
<1>3. ConnectsApart' /\ SettledConnects' /\ BeatsAgree'
  BY <1>1 DEF ConnectsApart, SettledConnects, BeatsAgree
<1>4. QED
  BY <1>1, <1>2, <1>3 DEF LabelInv, RecordsPinned, OneConnectionPerLabel

LEMMA SameLabels ==
    ASSUME LabelInv, UNCHANGED connVars
    PROVE  LabelInv'
<1>1. UNCHANGED <<conns, labelIp, proc, calm, settled>>
  BY DEF connVars
<1>2. \A s \in Slots : SlotLabels(s)'
  BY <1>1, OtherLabels DEF LabelInv
<1>3. QED
  BY <1>1, <1>2 DEF LabelInv, RecordsPinned, ConnectsApart, SettledConnects, BeatsAgree,
                    Touched, Beats, OneConnectionPerLabel

LEMMA LabelNext ==
    ASSUME TypeOK, LabelInv, [Next]_vars
    PROVE  LabelInv'
<1>1. CASE UNCHANGED vars \/ (JoinNext /\ UNCHANGED <<connVars, restarts>>)
  BY <1>1, SameLabels DEF vars
<1>2. CASE Restart
  BY <1>2, RestartLabels
<1>3. CASE ConnectCase
  BY <1>3, ConnectLabels DEF ConnectCase
<1>4. CASE RequestCase
  BY <1>4, OwnStepLabels, EndedLabels, PinLabelLabels, PutRecordLabels
     DEF RequestCase, ConnectStep
<1>5. CASE RemoveCase
  BY <1>5, RemoveLabels DEF RemoveCase
<1>6. CASE OtherCase
  BY <1>6, BeatWriteLabels, GoSilentLabels, ListLabels, BeatReadLabels DEF OtherCase
<1>7. QED
  BY <1>1, <1>2, <1>3, <1>4, <1>5, <1>6, ConnCases DEF Next

\* An undisturbed connect of a label finds or pins one address and leaves one
\* connection, which the others of a settled label agree with: LabelInv is
\* inductive, with any number of requests at once and any of the store's
\* operations failing.
THEOREM LabelInvariance == Spec => []LabelInv
<1>1. Init => LabelInv
  <2>1. Init => /\ conns = {} /\ calm = {} /\ settled = Labels
                /\ \A p \in Slots : proc[p].label = NoLabel /\ Beats(p) = {}
    BY DEF Init, ConnInit, Idle, Beats, Procs
  <2>2. QED
    BY <2>1, ConnectionAssumption
       DEF LabelInv, SlotLabels, PinsKept, RecordsPinned, OthersEvicted, BeatsOwn,
           ConnectsApart, SettledConnects, BeatsAgree, OneConnectionPerLabel
<1>2. TypeOK /\ LabelInv /\ [Next]_vars => LabelInv'
  BY LabelNext
<1>3. QED
  BY <1>1, <1>2, TypeCorrect, PTL DEF Spec

\* connect_handler leaves one connection of a label: a label is left with more
\* only by a connect that met another request of the label or an error of the
\* store, and the next connect that meets none repairs it.
THEOREM LabelsHaveOneConnection == Spec => []OneConnectionPerLabel
<1>1. LabelInv => OneConnectionPerLabel
  BY DEF LabelInv
<1>2. QED
  BY <1>1, LabelInvariance, PTL

\* dns_resolve answers the name of a settled label, if it has a connection,
\* with its address, unless the query in lower case is another text or the name
\* is taken by the master or a node.
THEOREM DnsAnswersConnections == Spec => []DnsFindsConnection
<1>1. TypeOK /\ LabelInv => DnsFindsConnection
  <2> SUFFICES ASSUME TypeOK, LabelInv, NEW c \in conns, c.label \in settled,
                      Lower(c.label) = c.label, ~NameTaken(c.label)
               PROVE  DnsResolve(c.label) = {c.ip}
    BY DEF DnsFindsConnection
  <2>1. c.label \in Labels /\ c.ip # NoIp /\ labelIp[c.label] = c.ip
    BY IpFacts DEF TypeOK, ConnTypeOK, Conn, LabelInv, RecordsPinned
  <2>2. /\ LastPart(c.label) # MasterName
        /\ NodesNamed(c.label) = {} /\ NodesNamed(LastPart(c.label)) = {}
    BY DEF NameTaken
  <2>3. DnsResolve(c.label) = {labelIp[c.label]} \ {NoIp}
    BY <2>1, <2>2 DEF DnsResolve
  <2>4. QED
    BY <2>1, <2>3
<1>2. QED
  BY <1>1, TypeCorrect, LabelInvariance, PTL

\* set_label_ip overwrites a pinned address only in a connect that met another
\* request of its label or an error of the store.
THEOREM PinsArePermanent == Spec => PinPermanent
<1> DEFINE Stays == \A l \in Labels : \/ labelIp[l] \in {NoIp, labelIp'[l]}
                                      \/ \E r \in Connecting(l) : r \notin calm
<1>1. TypeOK /\ LabelInv /\ [Next]_vars => [Stays]_vars
  <2> SUFFICES ASSUME TypeOK, LabelInv, [Next]_vars PROVE Stays
    OBVIOUS
  <2>1. labelIp' = labelIp \/ \E r \in Slots : PinLabel(r)
    <3>1. CASE ConnectCase
      BY <3>1 DEF ConnectCase, ConnectStart, ConnectWith
    <3>2. CASE RequestCase
      BY <3>2 DEF RequestCase, ConnectStep, ReadPin, MissPin, PinUnread, WillPin, PinFails,
                  RefuseConnect, RecordFails, TakeAddress, AddTunnel, PutRecord
    <3>3. CASE RemoveCase
      BY <3>3 DEF RemoveCase, Remove, RemoveTunnel, DeleteRecord, DeleteFails, Removed
    <3>4. CASE OtherCase
      BY <3>4 DEF OtherCase, Disconnect, BeatRead, BeatWrite, BeatFails, GoSilent, SweepOf
    <3>5. QED
      BY <3>1, <3>2, <3>3, <3>4, ConnCases DEF Next, Restart, vars, connVars
  <2>2. ASSUME NEW r \in Slots, PinLabel(r) PROVE Stays
    <3>1. PICK l, ip : l = proc[r].label /\ labelIp' = [labelIp EXCEPT ![l] = ip]
      BY <2>2 DEF PinLabel
    <3>2. r \in calm => labelIp[l] = NoIp
      BY <2>2, <3>1 DEF PinLabel, LabelInv, SlotLabels, PinsKept
    <3>3. r \in Connecting(l)
      BY <3>1 DEF Connecting
    <3>4. QED
      BY <3>1, <3>2, <3>3 DEF TypeOK, ConnTypeOK
  <2>3. QED
    BY <2>1, <2>2
<1>2. QED
  BY <1>1, TypeCorrect, LabelInvariance, PTL DEF Spec, PinPermanent
=============================================================================
