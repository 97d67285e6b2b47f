---------------------------- MODULE Sync_proofs -----------------------------
(***************************************************************************)
(* Proofs about the two synchronisations, of the store between masters     *)
(* (StoreSync) and of an agent's tunnels with the master's list (P2pSync). *)
(* They share no variable; P2pSync's definitions of a name that StoreSync  *)
(* has too start with P2p.                                                 *)
(*                                                                         *)
(* The store.  A key is clean while none of its writes met an unfinished   *)
(* one and none of its POSTs was lost.  SyncInv says what is true of clean *)
(* keys while POSTs are still on their way.                                *)
(*                                                                         *)
(* The tunnels.  What is established is watched, and what is watched is in *)
(* the kernel, also when `wg` commands fail.                               *)
(***************************************************************************)
EXTENDS StoreSync, P2pSync, TLAPS

-----------------------------------------------------------------------------
(* The store between masters *)

\* The types are right in every reachable state, for any number of masters,
\* keys and writes.
THEOREM TypeCorrect == Spec => []TypeOK
<1>1. Init => TypeOK
  BY SyncAssumption DEF Init, TypeOK, Value, Absent
<1>2. TypeOK /\ [Next]_vars => TypeOK'
  <2> SUFFICES ASSUME TypeOK, [Next]_vars PROVE TypeOK'
    OBVIOUS
  <2> USE DEF TypeOK
  <2>1. ASSUME NEW m \in Masters, NEW n \in Masters, Join(n, m) PROVE TypeOK'
    BY <2>1 DEF Join
  <2>2. ASSUME NEW m \in Masters, SetMasters(m) PROVE TypeOK'
    BY <2>2 DEF SetMasters
  <2>3. ASSUME NEW m \in Masters, NEW k \in Keys, NEW delete \in BOOLEAN,
               Store(m, k, delete)
        PROVE  TypeOK'
    <3> DEFINE w == [id |-> writes + 1, at |-> m, key |-> k, delete |-> delete]
    <3>1. w \in Write /\ Left(w) \in Value /\ writes + 1 \in 0 .. MaxWrites
      BY <2>3, SyncAssumption DEF Store, Write, WriteId, Left, Value, Absent
    <3>2. QED
      BY <2>3, <3>1 DEF Store
  <2>4. ASSUME NEW w \in pending, Broadcast(w) PROVE TypeOK'
    <3>1. Addressees(w) \subseteq Masters /\ w.key \in Keys
      BY DEF Addressees, Write
    <3>2. Posts(w, Addressees(w)) \subseteq Push
      BY <3>1 DEF Posts, Push, Write
    <3>3. QED
      BY <2>4, <3>1, <3>2 DEF Broadcast
  <2>5. ASSUME NEW p \in pushes, Deliver(p) PROVE TypeOK'
    <3>1. Left(p) \in Value /\ p.to \in Masters /\ p.key \in Keys
      BY SyncAssumption DEF Left, Value, Push, Absent, WriteId
    <3>2. QED
      BY <2>5, <3>1 DEF Deliver
  <2>6. ASSUME NEW p \in pushes, Lose(p) PROVE TypeOK'
    BY <2>6 DEF Lose, Push
  <2>7. ASSUME NEW m \in Masters, Restart(m) PROVE TypeOK'
    BY <2>7 DEF Restart
  <2>8. CASE UNCHANGED vars
    BY <2>8 DEF vars
  <2>9. QED
    BY <2>1, <2>2, <2>3, <2>4, <2>5, <2>6, <2>7, <2>8 DEF Next, Put, Delete
<1>3. QED
  BY <1>1, <1>2, PTL DEF Spec

\* What is on the way of a key that was clean and finished before a write.
LEMMA StoreKeepsSync ==
    ASSUME TypeOK, SyncInv, NEW m \in Masters, NEW k \in Keys,
           NEW delete \in BOOLEAN, Store(m, k, delete)
    PROVE  SyncInv'
<1> DEFINE w == [id |-> writes + 1, at |-> m, key |-> k, delete |-> delete]
<1>1. /\ store' = [store EXCEPT ![m][k] = Left(w)]
      /\ latest' = [latest EXCEPT ![k] = Left(w)]
      /\ pending' = pending \cup {w}
      /\ reached' = [reached EXCEPT ![k] = {m}]
      /\ clean' = [clean EXCEPT ![k] = @ /\ ~Unfinished(k)]
      /\ pushes' = pushes
  BY DEF Store
<1>2. w.key = k
  OBVIOUS
<1> HIDE DEF w
<1>3. ASSUME NEW j \in Keys, j # k, clean'[j]
      PROVE  /\ clean[j] /\ latest'[j] = latest[j] /\ reached'[j] = reached[j]
             /\ \A n \in Masters : store'[n][j] = store[n][j]
             /\ \A v \in pending' : v.key = j => v \in pending
  BY <1>1, <1>2, <1>3 DEF TypeOK
<1>4. ASSUME clean'[k]
      PROVE  /\ ~Unfinished(k) /\ latest'[k] = Left(w) /\ reached'[k] = {m}
             /\ store'[m][k] = Left(w)
  BY <1>1, <1>4 DEF TypeOK
<1>5. OnlyLatestOnWay'
  <2> SUFFICES ASSUME NEW j \in Keys, clean'[j]
               PROVE  /\ \A v \in pending' : v.key = j => Left(v) = latest'[j]
                      /\ \A p \in pushes' : p.key = j => Left(p) = latest'[j]
    BY DEF OnlyLatestOnWay, Left
  <2>1. CASE j # k
    BY <1>1, <1>3, <2>1 DEF SyncInv, OnlyLatestOnWay
  <2>2. CASE j = k
    BY <1>1, <1>4, <2>2 DEF Unfinished
  <2>3. QED
    BY <2>1, <2>2
<1>6. ReachedHasOrGets'
  <2> SUFFICES ASSUME NEW j \in Keys, clean'[j], NEW n \in reached'[j]
               PROVE  \/ store'[n][j] = latest'[j]
                      \/ \E p \in pushes' : p.to = n /\ p.key = j
    BY DEF ReachedHasOrGets
  <2>1. CASE j # k
    BY <1>1, <1>3, <2>1 DEF SyncInv, ReachedHasOrGets, TypeOK
  <2>2. CASE j = k
    BY <1>4, <2>2
  <2>3. QED
    BY <2>1, <2>2
<1>7. QED
  BY <1>5, <1>6 DEF SyncInv

LEMMA BroadcastKeepsSync ==
    ASSUME TypeOK, SyncInv, NEW w \in pending, Broadcast(w)
    PROVE  SyncInv'
<1>1. /\ pending' = pending \ {w}
      /\ pushes' = pushes \cup Posts(w, Addressees(w))
      /\ reached' = [reached EXCEPT ![w.key] = @ \cup Addressees(w)]
      /\ UNCHANGED <<store, latest, clean>>
  BY DEF Broadcast
<1>2. \A p \in Posts(w, Addressees(w)) : p.key = w.key /\ Left(p) = Left(w)
  BY DEF Posts, Left
<1>3. \A n \in Addressees(w) :
        \E p \in Posts(w, Addressees(w)) : p.to = n /\ p.key = w.key
  <2> TAKE n \in Addressees(w)
  <2> DEFINE p == [id |-> w.id, from |-> w.at, to |-> n, key |-> w.key,
                   delete |-> w.delete]
  <2>1. p \in Posts(w, Addressees(w)) /\ p.to = n /\ p.key = w.key
    BY DEF Posts
  <2>2. QED
    BY <2>1
<1>4. OnlyLatestOnWay'
  <2> SUFFICES ASSUME NEW j \in Keys, clean[j]
               PROVE  /\ \A v \in pending' : v.key = j => Left(v) = latest[j]
                      /\ \A p \in pushes' : p.key = j => Left(p) = latest[j]
    BY <1>1 DEF OnlyLatestOnWay, Left
  <2>1. QED
    BY <1>1, <1>2 DEF SyncInv, OnlyLatestOnWay
<1>5. ReachedHasOrGets'
  <2> SUFFICES ASSUME NEW j \in Keys, clean[j], NEW n \in reached'[j]
               PROVE  \/ store[n][j] = latest[j]
                      \/ \E p \in pushes' : p.to = n /\ p.key = j
    BY <1>1 DEF ReachedHasOrGets
  <2>1. CASE n \in reached[j]
    BY <1>1, <2>1 DEF SyncInv, ReachedHasOrGets
  <2>2. CASE n \notin reached[j]
    <3>1. j = w.key /\ n \in Addressees(w)
      BY <1>1, <2>2 DEF TypeOK
    <3>2. QED
      BY <1>1, <1>3, <3>1
  <2>3. QED
    BY <2>1, <2>2
<1>6. QED
  BY <1>4, <1>5 DEF SyncInv

LEMMA DeliverKeepsSync ==
    ASSUME TypeOK, SyncInv, NEW p \in pushes, Deliver(p)
    PROVE  SyncInv'
<1>1. /\ pushes' = pushes \ {p}
      /\ store' = [store EXCEPT ![p.to][p.key] = Left(p)]
      /\ UNCHANGED <<pending, latest, reached, clean>>
  BY DEF Deliver
<1>2. p.to \in Masters /\ p.key \in Keys
  BY DEF TypeOK, Push
<1>3. OnlyLatestOnWay'
  BY <1>1 DEF SyncInv, OnlyLatestOnWay, Left
<1>4. ReachedHasOrGets'
  <2> SUFFICES ASSUME NEW j \in Keys, clean[j], NEW n \in reached[j]
               PROVE  \/ store'[n][j] = latest[j]
                      \/ \E q \in pushes' : q.to = n /\ q.key = j
    BY <1>1 DEF ReachedHasOrGets
  <2>1. CASE n = p.to /\ j = p.key
    <3>1. Left(p) = latest[j]
      BY <2>1 DEF SyncInv, OnlyLatestOnWay
    <3>2. store'[n][j] = Left(p)
      BY <1>1, <1>2, <2>1 DEF TypeOK
    <3>3. QED
      BY <3>1, <3>2
  <2>2. CASE ~(n = p.to /\ j = p.key)
    <3>1. n \in Masters
      BY DEF TypeOK
    <3>2. store'[n][j] = store[n][j]
      BY <1>1, <1>2, <2>2, <3>1 DEF TypeOK
    <3>3. QED
      BY <1>1, <2>2, <3>2 DEF SyncInv, ReachedHasOrGets
  <2>3. QED
    BY <2>1, <2>2
<1>5. QED
  BY <1>3, <1>4 DEF SyncInv

\* A lost POST or a restart of the sender makes its key unclean; nothing on
\* the way of the other keys changes.
LEMMA DropKeepsSync ==
    ASSUME TypeOK, SyncInv,
           pending' \subseteq pending, pushes' \subseteq pushes,
           UNCHANGED <<store, latest, reached>>,
           \A k \in Keys : clean'[k] =>
               clean[k] /\ \A p \in pushes : p.key = k => p \in pushes'
    PROVE  SyncInv'
<1>1. OnlyLatestOnWay'
  BY DEF SyncInv, OnlyLatestOnWay, Left
<1>2. ReachedHasOrGets'
  BY DEF SyncInv, ReachedHasOrGets
<1>3. QED
  BY <1>1, <1>2 DEF SyncInv

\* For a key whose writes did not overlap and lost no POST, everything on its
\* way carries the last write and every master it was sent to has that write
\* or a POST of it coming.
THEOREM SyncInvariance == Spec => []SyncInv
<1>1. Init => SyncInv
  BY DEF Init, SyncInv, OnlyLatestOnWay, ReachedHasOrGets
<1>2. TypeOK /\ SyncInv /\ [Next]_vars => SyncInv'
  <2> SUFFICES ASSUME TypeOK, SyncInv, [Next]_vars PROVE SyncInv'
    OBVIOUS
  <2>1. ASSUME NEW m \in Masters, NEW n \in Masters, Join(n, m) PROVE SyncInv'
    BY <2>1, DropKeepsSync DEF Join
  <2>2. ASSUME NEW m \in Masters, SetMasters(m) PROVE SyncInv'
    BY <2>2, DropKeepsSync DEF SetMasters
  <2>3. ASSUME NEW m \in Masters, NEW k \in Keys, Put(m, k) PROVE SyncInv'
    BY <2>3, StoreKeepsSync DEF Put
  <2>4. ASSUME NEW m \in Masters, NEW k \in Keys, Delete(m, k) PROVE SyncInv'
    BY <2>4, StoreKeepsSync DEF Delete
  <2>5. ASSUME NEW w \in pending, Broadcast(w) PROVE SyncInv'
    BY <2>5, BroadcastKeepsSync
  <2>6. ASSUME NEW p \in pushes, Deliver(p) PROVE SyncInv'
    BY <2>6, DeliverKeepsSync
  <2>7. ASSUME NEW p \in pushes, Lose(p) PROVE SyncInv'
    <3>1. \A k \in Keys : clean'[k] =>
            clean[k] /\ \A q \in pushes : q.key = k => q \in pushes'
      BY <2>7 DEF Lose, TypeOK, Push
    <3>2. QED
      BY <2>7, <3>1, DropKeepsSync DEF Lose
  <2>8. ASSUME NEW m \in Masters, Restart(m) PROVE SyncInv'
    BY <2>8, DropKeepsSync DEF Restart
  <2>9. CASE UNCHANGED vars
    BY <2>9, DropKeepsSync DEF vars
  <2>10. QED
    BY <2>1, <2>2, <2>3, <2>4, <2>5, <2>6, <2>7, <2>8, <2>9 DEF Next
<1>3. QED
  BY <1>1, <1>2, TypeCorrect, PTL DEF Spec

\* Writes of a key that do not overlap and lose no POST replicate, deletes
\* included, to all the masters they were sent to.
THEOREM SpacedWritesReplicated == Spec => []SpacedWritesReplicate
<1>1. SyncInv => SpacedWritesReplicate
  BY DEF SyncInv, ReachedHasOrGets, SpacedWritesReplicate, Unfinished
<1>2. QED
  BY <1>1, SyncInvariance, PTL

\* Only keys of listed trees are ever on their way, and a write that waits for
\* its broadcast has a number that was given.
PushesAllowed ==
    /\ \A p \in pushes : p.key \in Allowed
    /\ \A w \in pending : w.id <= writes

LEMMA PushesAreAllowed == Spec => []PushesAllowed
<1>1. Init => PushesAllowed
  BY DEF Init, PushesAllowed
<1>2. TypeOK /\ PushesAllowed /\ [Next]_vars => PushesAllowed'
  <2> SUFFICES ASSUME TypeOK, PushesAllowed, [Next]_vars PROVE PushesAllowed'
    OBVIOUS
  <2>1. ASSUME NEW w \in pending, Broadcast(w) PROVE PushesAllowed'
    <3>1. \A p \in Posts(w, Addressees(w)) : p.key \in Allowed
      BY DEF Posts, Addressees
    <3>2. QED
      BY <2>1, <3>1 DEF Broadcast, PushesAllowed
  <2>2. CASE pushes' \subseteq pushes /\ pending' \subseteq pending /\ writes' = writes
    BY <2>2 DEF PushesAllowed
  <2>3. ASSUME NEW m \in Masters, NEW k \in Keys, NEW delete \in BOOLEAN,
               Store(m, k, delete)
        PROVE  PushesAllowed'
    BY <2>3 DEF Store, PushesAllowed, TypeOK, Write, WriteId
  <2>4. QED
    BY <2>1, <2>2, <2>3
       DEF Next, vars, Join, SetMasters, Put, Delete, Store, Deliver, Lose,
           Restart
<1>3. QED
  BY <1>1, <1>2, TypeCorrect, PTL DEF Spec

\* A master's copy of a tree that is not listed changes only by its own writes.
THEOREM LocalTreesStayLocal == Spec => LocalTreesStay
<1> DEFINE Stay == \A m \in Masters, k \in Keys \ Allowed :
                     store'[m][k] # store[m][k] =>
                       (\E w \in pending' \ pending : w.at = m /\ w.key = k)
<1>1. ASSUME TypeOK, PushesAllowed, [Next]_vars PROVE [Stay]_vars
  <2> SUFFICES ASSUME Next, NEW m \in Masters, NEW k \in Keys \ Allowed,
                      store'[m][k] # store[m][k]
               PROVE  \E w \in pending' \ pending : w.at = m /\ w.key = k
    BY <1>1
  <2>1. ASSUME NEW p \in pushes, Deliver(p) PROVE FALSE
    BY <1>1, <2>1 DEF Deliver, PushesAllowed, TypeOK, Push
  <2>2. ASSUME NEW n \in Masters, NEW j \in Keys, NEW delete \in BOOLEAN,
               Store(n, j, delete)
        PROVE  \E w \in pending' \ pending : w.at = m /\ w.key = k
    <3> DEFINE w == [id |-> writes + 1, at |-> n, key |-> j, delete |-> delete]
    <3>1. n = m /\ j = k
      BY <1>1, <2>2 DEF Store, TypeOK
    <3>2. pending' = pending \cup {w}
      BY <2>2 DEF Store
    <3>3. w \notin pending
      BY <1>1 DEF PushesAllowed, TypeOK
    <3>4. QED
      BY <3>1, <3>2, <3>3
  <2>3. CASE UNCHANGED store
    BY <2>3
  <2>4. QED
    BY <2>1, <2>2, <2>3
       DEF Next, Join, SetMasters, Put, Delete, Broadcast, Lose, Restart
<1>2. QED
  BY <1>1, TypeCorrect, PushesAreAllowed, PTL DEF Spec, LocalTreesStay

-----------------------------------------------------------------------------
(* The tunnels of an agent *)

LEMMA InitType == P2pInit => P2pTypeOK
  BY P2pAssumption DEF P2pInit, P2pTypeOK, Entry, PeerState, NoState, Round, Unlisted,
     Waiting

(* Looking at an agent takes it off the round's list.                        *)
LEMMA LookDone ==
  ASSUME P2pTypeOK, NEW a \in Agents, Look(a)
  PROVE  /\ round' \in Round
         /\ round.running /\ round'.running
<1>1. a \in round.todo
  BY DEF Look, Skip, AddNew, Retry, WatchAlive, GiveUp, KeepTrying, Candidate
<1>2. round' = [round EXCEPT !.todo = round.todo \ {a}]
  BY DEF Look, Skip, AddNew, Retry, WatchAlive, GiveUp, KeepTrying, Done
<1>3. round \in Round /\ round.running
  BY <1>1 DEF P2pTypeOK
<1>4. QED
  BY <1>2, <1>3 DEF Round

(* A candidate has an endpoint.                                              *)
LEMMA LookEndpoint ==
  ASSUME P2pTypeOK, NEW a \in Agents, Candidate(a)
  PROVE  Endpoint(a) \in Endpoints
BY DEF P2pTypeOK, Candidate, Endpoint, Round, Entry

(* Adding a candidate, failing to, and looking on keep the types.            *)
LEMMA AddedType ==
  ASSUME P2pTypeOK, NEW a \in Agents, Candidate(a), Added(a), round' \in Round,
         ~round'.running => round'.todo = {}
  PROVE  P2pTypeOK'
<1>1. Endpoint(a) \in Endpoints /\ Endpoint(a) # NoEndpoint
  BY LookEndpoint, P2pAssumption
<1>2. [phase |-> "active", endpoint |-> Endpoint(a), established |-> FALSE]
        \in PeerState
  BY <1>1 DEF PeerState
<1>3. \A b \in Agents :
        states'[b].phase = "none" <=> states'[b].endpoint = NoEndpoint
  BY <1>1 DEF Added, P2pTypeOK
<1>4. QED
  BY <1>2, <1>3 DEF Added, P2pTypeOK

LEMMA UnchangedType ==
  ASSUME P2pTypeOK, UNCHANGED <<envVars, tunnel, states, direct, stray>>, round' \in Round,
         ~round'.running => round'.todo = {}
  PROVE  P2pTypeOK'
BY DEF P2pTypeOK, envVars

(* Removing direct peers takes those that fail to be removed as stray.      *)
LEMMA DroppedFacts ==
  ASSUME P2pTypeOK, NEW set \in SUBSET Agents, Dropped(set)
  PROVE  /\ tunnel' \in [Agents -> BOOLEAN]
         /\ \A b \in Agents : /\ b \notin set => tunnel'[b] = tunnel[b]
                              /\ tunnel'[b] => tunnel[b]
                              /\ tunnel[b] /\ b \in set =>
                                   (tunnel'[b] <=> b \in stray')
                              /\ b \notin set => (b \in stray' <=> b \in stray)
<1>1. PICK failed \in SUBSET set :
        /\ tunnel' = [a \in Agents |-> tunnel[a] /\ a \notin set \ failed]
        /\ stray' = (stray \ set) \cup failed
  BY DEF Dropped
<1>2. QED
  BY <1>1 DEF P2pTypeOK

LEMMA DroppedType ==
  ASSUME P2pTypeOK, NEW set \in SUBSET Agents, Dropped(set)
  PROVE  /\ tunnel' \in [Agents -> BOOLEAN]
         /\ alive' \in [Agents -> BOOLEAN]
         /\ stray' \subseteq Agents
<1>1. PICK failed \in SUBSET set :
        /\ tunnel' = [a \in Agents |-> tunnel[a] /\ a \notin set \ failed]
        /\ alive' = [a \in Agents |-> alive[a] /\ a \notin set \ failed]
        /\ stray' = (stray \ set) \cup failed
  BY DEF Dropped
<1>2. tunnel' \in [Agents -> BOOLEAN]
  BY <1>1
<1>3. alive' \in [Agents -> BOOLEAN]
  BY <1>1
<1>4. stray \subseteq Agents
  BY DEF P2pTypeOK
<1>5. stray' \subseteq Agents
  BY <1>1, <1>4
<1>6. QED
  BY <1>2, <1>3, <1>5

LEMMA FinishType ==
  ASSUME P2pTypeOK, Finish
  PROVE  P2pTypeOK'
<1>1. /\ tunnel' \in [Agents -> BOOLEAN]
      /\ alive' \in [Agents -> BOOLEAN]
      /\ stray' \subseteq Agents
  <2> DEFINE removed == {a \in Gone : states[a].phase = "active"}
  <2>1. removed \in SUBSET Agents
    BY DEF Gone
  <2>2. Dropped(removed)
    BY DEF Finish
  <2> HIDE DEF removed
  <2>3. QED
    BY <2>1, <2>2, DroppedType
<1>2. states' = [a \in Agents |-> IF a \in Gone THEN NoState ELSE states[a]]
  BY DEF Finish
<1>3. NoState \in PeerState
  BY P2pAssumption DEF NoState, PeerState
<1>4. states' \in [Agents -> PeerState]
  BY <1>2, <1>3 DEF P2pTypeOK
<1>5. \A a \in Agents :
        states'[a].phase = "none" <=> states'[a].endpoint = NoEndpoint
  BY <1>2 DEF P2pTypeOK, NoState
<1>6. direct' \subseteq Agents
  BY DEF Finish
<1>7. round' \in Round /\ (~round'.running => round'.todo = {})
  <2>1. round' = Waiting
    BY DEF Finish
  <2>2. Unlisted \in Entry
    BY P2pAssumption DEF Unlisted, Entry
  <2>3. QED
    BY <2>1, <2>2 DEF Round, Waiting
<1>8. UNCHANGED <<list, graced, cooled>>
  BY DEF Finish
<1>9. QED
  BY <1>1, <1>4, <1>5, <1>6, <1>7, <1>8 DEF P2pTypeOK

LEMMA FetchType ==
  ASSUME P2pTypeOK, Fetch
  PROVE  P2pTypeOK'
<1>1. alive \in [Agents -> BOOLEAN] /\ list \in [Agents -> Entry]
  BY DEF P2pTypeOK
<1>2. Waiting.handshake \in [Agents -> BOOLEAN]
  BY DEF Waiting
<1>3. PICK shown \in {alive, Waiting.handshake} :
        round' = [running |-> TRUE, todo |-> Agents, peers |-> list,
                  handshake |-> shown]
  BY DEF Fetch
<1>4. shown \in [Agents -> BOOLEAN]
  <2>1. shown = alive \/ shown = Waiting.handshake
    BY <1>3
  <2>2. QED
    BY <1>1, <1>2, <2>1
<1>5. round' \in Round
  BY <1>1, <1>3, <1>4 DEF Round
<1>6. round'.running
  BY <1>3
<1>7. UNCHANGED <<envVars, tunnel, states, direct, stray>>
  BY DEF Fetch
<1>8. QED
  BY <1>5, <1>6, <1>7, UnchangedType

LEMMA LookType ==
  ASSUME P2pTypeOK, NEW a \in Agents, Look(a)
  PROVE  P2pTypeOK'
<1>0. round' \in Round /\ (~round'.running => round'.todo = {})
  BY LookDone
<1>1. CASE Skip(a) \/ KeepTrying(a)
  BY <1>0, <1>1, UnchangedType DEF Skip, KeepTrying
<1>2. CASE AddNew(a) \/ Retry(a)
  BY <1>0, <1>2, AddedType, UnchangedType DEF AddNew, Retry, AddFailed
<1>3. CASE WatchAlive(a)
  <2>1. CASE Added(a)
    BY <1>0, <1>3, <2>1, AddedType DEF WatchAlive
  <2>2. CASE /\ states' = [states EXCEPT ![a].established = TRUE]
             /\ UNCHANGED <<envVars, tunnel, direct, stray>>
    <3>1. states \in [Agents -> PeerState]
      BY DEF P2pTypeOK
    <3>2. [states[a] EXCEPT !.established = TRUE] \in PeerState
      BY <3>1 DEF PeerState
    <3>3. states' \in [Agents -> PeerState]
      BY <2>2, <3>1, <3>2
    <3>4. \A b \in Agents : /\ states'[b].phase = states[b].phase
                             /\ states'[b].endpoint = states[b].endpoint
      BY <2>2, <3>1 DEF PeerState
    <3>5. QED
      BY <1>0, <2>2, <3>3, <3>4 DEF P2pTypeOK, envVars
  <2>3. QED
    BY <1>3, <2>1, <2>2 DEF WatchAlive
<1>4. CASE GiveUp(a)
  <2>1. states' \in [Agents -> PeerState]
    <3>1. states \in [Agents -> PeerState]
      BY DEF P2pTypeOK
    <3>2. [states[a] EXCEPT !.phase = "backoff", !.established = FALSE]
            \in PeerState
      BY <3>1 DEF PeerState
    <3>3. states' = [states EXCEPT ![a] =
                       [@ EXCEPT !.phase = "backoff", !.established = FALSE]]
      BY <1>4 DEF GiveUp
    <3>4. QED
      BY <3>1, <3>2, <3>3
  <2>2. \A b \in Agents :
          states'[b].phase = "none" <=> states'[b].endpoint = NoEndpoint
    BY <1>4 DEF GiveUp, P2pTypeOK, PeerState
  <2>3. /\ tunnel' \in [Agents -> BOOLEAN]
        /\ alive' \in [Agents -> BOOLEAN]
        /\ stray' \subseteq Agents
    BY <1>4, DroppedType DEF GiveUp
  <2>4. cooled' \in [Agents -> BOOLEAN]
    BY <1>4 DEF GiveUp, P2pTypeOK
  <2>5. UNCHANGED <<list, graced, direct>>
    BY <1>4 DEF GiveUp
  <2>6. QED
    BY <1>0, <2>1, <2>2, <2>3, <2>4, <2>5 DEF P2pTypeOK
<1>5. QED
  BY <1>1, <1>2, <1>3, <1>4 DEF Look

LEMMA NextType == P2pTypeOK /\ [P2pNext]_p2pVars => P2pTypeOK'
<1> SUFFICES ASSUME P2pTypeOK, [P2pNext]_p2pVars PROVE P2pTypeOK'
  OBVIOUS
<1> USE P2pAssumption DEF P2pTypeOK, Entry, PeerState, NoState, Round, Unlisted,
        Waiting
<1>1. ASSUME NEW a \in Agents, ListChanges(a) PROVE P2pTypeOK'
  BY <1>1 DEF ListChanges
<1>2. ASSUME NEW a \in Agents, HandshakeStarts(a) PROVE P2pTypeOK'
  BY <1>2 DEF HandshakeStarts
<1>3. ASSUME NEW a \in Agents, HandshakeStops(a) PROVE P2pTypeOK'
  BY <1>3 DEF HandshakeStops
<1>4. ASSUME NEW a \in Agents, GraceEnds(a) PROVE P2pTypeOK'
  BY <1>4 DEF GraceEnds
<1>5. ASSUME NEW a \in Agents, BackoffEnds(a) PROVE P2pTypeOK'
  BY <1>5 DEF BackoffEnds
<1>6. CASE AgentRestart
  BY <1>6 DEF AgentRestart
<1>7. CASE Fetch
  BY <1>7, FetchType
<1>8. ASSUME NEW a \in Agents, Look(a) PROVE P2pTypeOK'
  BY <1>8, LookType
<1>9. CASE Finish
  BY <1>9, FinishType
<1>10. CASE UNCHANGED p2pVars
  BY <1>10 DEF p2pVars
<1>11. QED
  BY <1>1, <1>2, <1>3, <1>4, <1>5, <1>6, <1>7, <1>8, <1>9, <1>10 DEF P2pNext

(* The variables of the tunnel loop keep their types.                       *)
THEOREM P2pTypeCorrect == P2pSpec => []P2pTypeOK
<1>1. QED
  BY InitType, NextType, PTL DEF P2pSpec

-----------------------------------------------------------------------------

LEMMA WatchInit == P2pInit => WatchInv
  BY DEF P2pInit, WatchInv, ReportedAreDirect, NoState

LEMMA WatchNext == P2pTypeOK /\ WatchInv /\ [P2pNext]_p2pVars => WatchInv'
<1> SUFFICES ASSUME P2pTypeOK, WatchInv, [P2pNext]_p2pVars PROVE WatchInv'
  OBVIOUS
<1> USE DEF P2pTypeOK, Entry, PeerState, Round, WatchInv, ReportedAreDirect
<1>1. CASE \E a \in Agents : \/ ListChanges(a) \/ HandshakeStarts(a)
                             \/ HandshakeStops(a) \/ GraceEnds(a)
                             \/ BackoffEnds(a)
  BY <1>1 DEF ListChanges, HandshakeStarts, HandshakeStops, GraceEnds, BackoffEnds
<1>2. CASE AgentRestart
  BY <1>2 DEF AgentRestart, NoState, Waiting
<1>3. CASE Fetch
  BY <1>3 DEF Fetch, envVars
<1>4. ASSUME NEW a \in Agents, Look(a) PROVE WatchInv'
  (* An agent is looked at in a running round, which goes on running.  Only  *)
  (* its own state and tunnel change.                                       *)
  <2>1. round'.running
    BY <1>4, LookDone
  <2>2. \A b \in Agents : states'[b].established => states'[b].phase = "active"
    BY <1>4 DEF Look, Skip, AddNew, Retry, WatchAlive, GiveUp, KeepTrying, Added,
       AddFailed
  <2>3. \A b \in Agents : states'[b].phase = "active" => tunnel'[b]
    <3>1. CASE Skip(a) \/ AddNew(a) \/ Retry(a) \/ KeepTrying(a)
      <4>1. CASE Added(a)
        BY <4>1 DEF Added
      <4>2. CASE UNCHANGED <<tunnel, states>>
        BY <4>2
      <4>3. QED
        BY <3>1, <4>1, <4>2 DEF Skip, AddNew, Retry, KeepTrying, AddFailed
    <3>2. CASE WatchAlive(a)
      <4>1. CASE Added(a)
        BY <4>1 DEF Added
      <4>2. CASE /\ states' = [states EXCEPT ![a].established = TRUE]
                 /\ tunnel' = tunnel
        <5>1. \A b \in Agents : states'[b].phase = states[b].phase
          BY <4>2
        <5>2. QED
          BY <4>2, <5>1
      <4>3. QED
        BY <3>2, <4>1, <4>2 DEF WatchAlive
    <3>3. CASE GiveUp(a)
      <4>1. \A b \in Agents : b # a => tunnel'[b] = tunnel[b]
        BY <3>3, DroppedFacts DEF GiveUp
      <4>2. states'[a].phase = "backoff"
        BY <3>3 DEF GiveUp
      <4>3. \A b \in Agents : b # a => states'[b] = states[b]
        BY <3>3 DEF GiveUp
      <4>4. ASSUME NEW b \in Agents, states'[b].phase = "active" PROVE tunnel'[b]
        <5>1. b # a
          BY <4>2, <4>4
        <5>2. states[b].phase = "active"
          BY <4>3, <4>4, <5>1
        <5>3. tunnel[b]
          BY <5>2
        <5>4. QED
          BY <4>1, <5>1, <5>3
      <4>5. QED
        BY <4>4
    <3>4. QED
      BY <1>4, <3>1, <3>2, <3>3 DEF Look
  <2>4. QED
    BY <2>1, <2>2, <2>3
<1>5. CASE Finish
  BY <1>5 DEF Finish, Dropped, Gone, NoState, Waiting
<1>6. CASE UNCHANGED p2pVars
  BY <1>6 DEF p2pVars
<1>7. QED
  BY <1>1, <1>2, <1>3, <1>4, <1>5, <1>6 DEF P2pNext

(* What the loop reports as direct has a direct peer in the kernel, even if *)
(* `wg` commands fail: a watched agent is in the kernel.                    *)
THEOREM WatchInvariance == P2pSpec => []WatchInv
<1>1. QED
  BY InitType, NextType, WatchInit, WatchNext, PTL DEF P2pSpec

(* The agents that the metrics report as direct are never relayed ones.     *)
THEOREM DirectAreDirect == P2pSpec => []ReportedAreDirect
<1>1. WatchInv => ReportedAreDirect
  BY DEF WatchInv
<1>2. QED
  BY <1>1, WatchInvariance, PTL

-----------------------------------------------------------------------------

LEMMA RelayInit == P2pInit => RelayUnlessWatched
<1>1. ASSUME P2pInit, NEW a \in Agents
      PROVE  tunnel[a] = FALSE /\ states[a].phase = "none" /\ stray = {}
  BY <1>1 DEF P2pInit, NoState
<1>2. QED
  BY <1>1 DEF RelayUnlessWatched

LEMMA RelayNext == P2pTypeOK /\ RelayUnlessWatched /\ [P2pNext]_p2pVars => RelayUnlessWatched'
<1> SUFFICES ASSUME P2pTypeOK, RelayUnlessWatched, [P2pNext]_p2pVars
             PROVE RelayUnlessWatched'
  OBVIOUS
<1> USE DEF P2pTypeOK, PeerState, RelayUnlessWatched
<1>1. CASE \E a \in Agents : \/ ListChanges(a) \/ HandshakeStarts(a)
                             \/ HandshakeStops(a) \/ GraceEnds(a)
                             \/ BackoffEnds(a)
  BY <1>1 DEF ListChanges, HandshakeStarts, HandshakeStops, GraceEnds, BackoffEnds
<1>2. CASE AgentRestart
  BY <1>2 DEF AgentRestart, NoState
<1>3. CASE Fetch
  BY <1>3 DEF Fetch
<1>4. ASSUME NEW a \in Agents, Look(a) PROVE RelayUnlessWatched'
  <2>1. CASE Skip(a) \/ KeepTrying(a)
    BY <2>1 DEF Skip, KeepTrying
  <2>2. CASE AddNew(a) \/ Retry(a)
    BY <2>2 DEF AddNew, Retry, Added, AddFailed
  <2>3. CASE WatchAlive(a)
    BY <2>3 DEF WatchAlive, Added
  <2>4. CASE GiveUp(a)
    <3>1. tunnel[a] /\ (tunnel'[a] <=> a \in stray') /\ states'[a].phase = "backoff"
      BY <2>4, DroppedFacts DEF GiveUp
    <3>2. \A b \in Agents \ {a} : /\ tunnel'[b] = tunnel[b]
                                  /\ b \in stray' <=> b \in stray
                                  /\ states'[b] = states[b]
      BY <2>4, DroppedFacts DEF GiveUp
    <3>3. QED
      BY <3>1, <3>2
  <2>5. QED
    BY <1>4, <2>1, <2>2, <2>3, <2>4 DEF Look
<1>5. CASE Finish
  <2>1. DEFINE set == {a \in Gone : states[a].phase = "active"}
  <2>2. set \in SUBSET Agents /\ Dropped(set)
    BY <1>5 DEF Finish, Gone
  <2>3. ASSUME NEW b \in set
        PROVE  tunnel'[b] <=> states'[b].phase = "active" \/ b \in stray'
    <3>1. tunnel[b] /\ (tunnel'[b] <=> b \in stray')
      BY <2>2, <2>3, DroppedFacts DEF Gone
    <3>2. states'[b].phase = "none"
      BY <1>5, <2>3 DEF Finish, Gone, NoState
    <3>3. QED
      BY <3>1, <3>2
  <2>4. ASSUME NEW b \in Agents, b \notin set
        PROVE  tunnel'[b] <=> states'[b].phase = "active" \/ b \in stray'
    <3>1. tunnel'[b] = tunnel[b] /\ (b \in stray' <=> b \in stray)
      BY <2>2, <2>4, DroppedFacts
    <3>2. states'[b].phase = "active" <=> states[b].phase = "active"
      BY <1>5, <2>4 DEF Finish, Gone, NoState
    <3>3. QED
      BY <3>1, <3>2
  <2>5. QED
    BY <2>3, <2>4
<1>6. CASE UNCHANGED p2pVars
  BY <1>6 DEF p2pVars
<1>7. QED
  BY <1>1, <1>2, <1>3, <1>4, <1>5, <1>6 DEF P2pNext

(* The direct peers in the kernel are those the loop watches and those that *)
(* `wg` failed to remove, so all other traffic takes the hub.               *)
THEOREM RelayedUnlessWatched == P2pSpec => []RelayUnlessWatched
<1>1. QED
  BY InitType, NextType, RelayInit, RelayNext, PTL DEF P2pSpec
=============================================================================
