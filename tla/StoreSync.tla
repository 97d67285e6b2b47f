----------------------------- MODULE StoreSync -----------------------------
(***************************************************************************)
(* Replication of the store between masters.  A put or a delete changes    *)
(* the tree of the master that was asked, waits for the flush, and then    *)
(* spawns one POST per address in Store.masters.  A POST is tried once; it *)
(* may be lost, and the POSTs of one master reach another in any order.    *)
(* Store.masters holds every master of the peers map, the sender included. *)
(*                                                                         *)
(* Writes are numbered, and the value a put stores is its number.          *)
(***************************************************************************)
EXTENDS Naturals

CONSTANTS
    Masters,
    First,       \* the master that was initialised, the others join
    Keys,        \* a key stands for a tree and a key of it
    Allowed,     \* the keys of trees in ALLOWED_SYNC_TREES
    MaxWrites    \* bound: writes in a behaviour

ASSUME SyncAssumption ==
    /\ First \in Masters
    /\ Allowed \subseteq Keys
    /\ MaxWrites \in Nat

VARIABLES
    store,       \* the trees of each master
    known,       \* masters in the peers map of each master
    targets,     \* Store.masters of each master
    pending,     \* writes stored, their broadcast still to come
    pushes,      \* POSTs on their way
    writes,      \* number of writes so far
    latest,      \* history: value of the last write of each key
    reached,     \* history: the masters that write was stored at or sent to
    clean        \* history: no write of the key met an unfinished one, and
                 \* no POST of it was lost

vars == <<store, known, targets, pending, pushes, writes, latest, reached,
          clean>>

Absent == 0
Empty == MaxWrites + 1      \* the empty value that a delete request carries
Value == 0 .. MaxWrites
WriteId == 1 .. MaxWrites
Write == [id : WriteId, at : Masters, key : Keys, delete : BOOLEAN]
Push == [id : WriteId, from : Masters, to : Masters, key : Keys,
         delete : BOOLEAN]

\* What a write or a push of it leaves in the tree.
Left(r) == IF r.delete THEN Absent ELSE r.id

TypeOK ==
    /\ store \in [Masters -> [Keys -> Value]]
    /\ known \in [Masters -> SUBSET Masters]
    /\ targets \in [Masters -> SUBSET Masters]
    /\ pending \subseteq Write
    /\ pushes \subseteq Push
    /\ writes \in 0 .. MaxWrites
    /\ latest \in [Keys -> Value]
    /\ reached \in [Keys -> SUBSET Masters]
    /\ clean \in [Keys -> BOOLEAN]

\* `init` has put the first master into its own peers map and saved it,
\* which sets Store.masters.  Nobody has joined.
Init ==
    /\ store = [m \in Masters |-> [k \in Keys |-> Absent]]
    /\ known = [m \in Masters |-> IF m = First THEN {First} ELSE {}]
    /\ targets = known
    /\ pending = {}
    /\ pushes = {}
    /\ writes = 0
    /\ latest = [k \in Keys |-> Absent]
    /\ reached = [k \in Keys |-> {}]
    /\ clean = [k \in Keys |-> TRUE]

Up(m) == m \in known[m]

\* A write of the key is not yet everywhere.
Unfinished(k) ==
    \/ \E w \in pending : w.key = k
    \/ \E p \in pushes : p.key = k

\* join_master of n at m: m records n, n saves the peers of the answer and
\* with them its masters.  n starts with the trees it has.
Join(n, m) ==
    /\ Up(m) /\ ~Up(n)
    /\ known' = [known EXCEPT ![m] = @ \cup {n}, ![n] = known[m] \cup {n}]
    /\ targets' = [targets EXCEPT ![n] = known[m] \cup {n}]
    /\ UNCHANGED <<store, pending, pushes, writes, latest, reached, clean>>

\* save_peers in the task of the join, or the loop that runs every 10 s.
SetMasters(m) ==
    /\ targets[m] # known[m]
    /\ targets' = [targets EXCEPT ![m] = known[m]]
    /\ UNCHANGED <<store, known, pending, pushes, writes, latest, reached,
                   clean>>

\* First part of put and of delete: the local tree.
Store(m, k, delete) ==
    /\ Up(m)
    /\ writes < MaxWrites
    /\ writes' = writes + 1
    /\ LET w == [id |-> writes + 1, at |-> m, key |-> k, delete |-> delete]
       IN  /\ store' = [store EXCEPT ![m][k] = Left(w)]
           /\ latest' = [latest EXCEPT ![k] = Left(w)]
           /\ pending' = pending \cup {w}
    /\ reached' = [reached EXCEPT ![k] = {m}]
    /\ clean' = [clean EXCEPT ![k] = @ /\ ~Unfinished(k)]
    /\ UNCHANGED <<known, targets, pushes>>

Put(m, k) == Store(m, k, FALSE)
Delete(m, k) == Store(m, k, TRUE)

\* The POSTs of a write to the masters of a list.
Posts(w, list) ==
    {[id |-> w.id, from |-> w.at, to |-> n, key |-> w.key,
      delete |-> w.delete] : n \in list}

\* Mutant: every tree is pushed.
AllAddressees(w) == targets[w.at]

Addressees(w) == IF w.key \in Allowed THEN targets[w.at] ELSE {}

\* Mutant: a master is left out.
BroadcastShort(w) ==
    /\ w \in pending
    /\ pending' = pending \ {w}
    /\ \E out \in Masters : pushes' = pushes \cup Posts(w, Addressees(w) \ {out})
    /\ reached' = [reached EXCEPT ![w.key] = @ \cup Addressees(w)]
    /\ UNCHANGED <<store, known, targets, writes, latest, clean>>

\* Second part, after the flush: broadcast_sync.
Broadcast(w) ==
    /\ w \in pending
    /\ pending' = pending \ {w}
    /\ pushes' = pushes \cup Posts(w, Addressees(w))
    /\ reached' = [reached EXCEPT ![w.key] = @ \cup Addressees(w)]
    /\ UNCHANGED <<store, known, targets, writes, latest, clean>>

\* Mutant: the receiver stores with Store::put, which broadcasts again.
DeliverAndForward(p) ==
    /\ p \in pushes
    /\ store' = [store EXCEPT ![p.to][p.key] = Left(p)]
    /\ pushes' = (pushes \ {p}) \cup
         {[p EXCEPT !.from = p.to, !.to = n] : n \in targets[p.to]}
    /\ UNCHANGED <<known, targets, pending, writes, latest, reached, clean>>

\* sync_handler: the tree is changed, nothing is broadcast.
Deliver(p) ==
    /\ p \in pushes
    /\ pushes' = pushes \ {p}
    /\ store' = [store EXCEPT ![p.to][p.key] = Left(p)]
    /\ UNCHANGED <<known, targets, pending, writes, latest, reached, clean>>

\* The POST fails or times out before it was received; it is not repeated.
Lose(p) ==
    /\ p \in pushes
    /\ pushes' = pushes \ {p}
    /\ clean' = [clean EXCEPT ![p.key] = FALSE]
    /\ UNCHANGED <<store, known, targets, pending, writes, latest, reached>>

\* A master is killed and started again: its broadcasts and POSTs are gone,
\* Store.masters is set from the saved peers.
Restart(m) ==
    /\ Up(m)
    /\ pending' = {w \in pending : w.at # m}
    /\ pushes' = {p \in pushes : p.from # m}
    /\ clean' = [k \in Keys |->
                   /\ clean[k]
                   /\ ~\E w \in pending : w.at = m /\ w.key = k
                   /\ ~\E p \in pushes : p.from = m /\ p.key = k]
    /\ targets' = [targets EXCEPT ![m] = known[m]]
    /\ UNCHANGED <<store, known, writes, latest, reached>>

Next ==
    \/ \E m, n \in Masters : Join(n, m)
    \/ \E m \in Masters : SetMasters(m)
    \/ \E m \in Masters, k \in Keys : Put(m, k)
    \/ \E m \in Masters, k \in Keys : Delete(m, k)
    \/ \E w \in pending : Broadcast(w)
    \/ \E p \in pushes : Deliver(p)
    \/ \E p \in pushes : Lose(p)
    \/ \E m \in Masters : Restart(m)

Spec == Init /\ [][Next]_vars

\* The spawned tasks run, and each POST ends within its 2 s time-out.
Fairness ==
    /\ WF_vars(\E w \in pending : Broadcast(w))
    /\ WF_vars(\E p \in pushes : Deliver(p) \/ Lose(p))

FairSpec == Spec /\ Fairness

-----------------------------------------------------------------------------
(* Properties *)

\* Writes of a key that do not overlap, with no POST lost, replicate: when
\* the last one is finished, the master that was asked and all the masters it
\* pushed to hold what it wrote, deletes included.
SpacedWritesReplicate ==
    \A k \in Keys :
        clean[k] /\ ~Unfinished(k) =>
            \A m \in reached[k] : store[m][k] = latest[k]

\* Trees that are not on the list stay on the master they were written at:
\* no POST carries them, and a master's copy only changes when it is asked.
LocalTreesStay ==
    [][\A m \in Masters, k \in Keys \ Allowed :
        store'[m][k] # store[m][k] =>
            (\E w \in pending' \ pending : w.at = m /\ w.key = k)]_vars

\* The push traffic ends: when no more writes come, all POSTs are over in the
\* end, because a receiver does not push on what it received.
PushesEnd == writes = MaxWrites ~> pushes = {} /\ pending = {}

-----------------------------------------------------------------------------
(* The inductive invariant behind SpacedWritesReplicate.                    *)

\* Of a clean key, everything on its way carries the last write ...
OnlyLatestOnWay ==
    \A k \in Keys : clean[k] =>
        /\ \A w \in pending : w.key = k => Left(w) = latest[k]
        /\ \A p \in pushes : p.key = k => Left(p) = latest[k]

\* ... and every master reached has it or has it on its way.
ReachedHasOrGets ==
    \A k \in Keys : clean[k] =>
        \A m \in reached[k] :
            \/ store[m][k] = latest[k]
            \/ \E p \in pushes : p.to = m /\ p.key = k

SyncInv == OnlyLatestOnWay /\ ReachedHasOrGets
=============================================================================
