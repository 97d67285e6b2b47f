---------------------------- MODULE Connections ----------------------------
(***************************************************************************)
(* Client connections of a master: connect, disconnect and heartbeat       *)
(* handlers and the loop that expires silent connections.  The trees       *)
(* connections and connection_labels are on disk; every handler reads and  *)
(* writes them in separate steps and takes no lock but the one around the  *)
(* address pool, so any two of them interleave.  Of the store's errors only *)
(* that of the last write of a connect is answered with one.               *)
(*                                                                         *)
(* A process is a request slot or the expiry loop (Sweeper).  `todo` is    *)
(* the list of records the process read and has still to deal with, and    *)
(* `victim` the id whose tunnel it has removed and whose record it is      *)
(* about to delete.                                                        *)
(*                                                                         *)
(* A connect of a label is undisturbed if no other request of the label    *)
(* overlaps it and the store does not fail it.  A label is settled if it   *)
(* was not disturbed since an undisturbed connect of it ran to its end, or *)
(* never.                                                                  *)
(***************************************************************************)
EXTENDS AddressPool, StoreFaults

CONSTANTS
    Labels,
    NoLabel,
    NoKey,
    Slots,       \* request slots: bound on requests running at once
    Sweeper,     \* the expiry loop
    MaxConns     \* bound: connections ever created

ASSUME ConnectionAssumption ==
    /\ NoLabel \notin Labels
    /\ Sweeper \notin Slots
    /\ NoKey \notin ClientKeys
    /\ MaxConns \in Nat
    /\ (Labels \cup {NoLabel}) \cap (NodeKeys \cup ClientKeys) = {}

VARIABLES
    conns,     \* the tree connections
    labelIp,   \* the tree connection_labels
    proc,      \* what each process is doing
    connSeq,   \* connections created so far, the supply of fresh ids
    calm,      \* history: slots whose connect is undisturbed so far
    settled    \* history: the settled labels

connVars == <<conns, labelIp, proc, connSeq, calm, settled>>

ConnId == 1 .. MaxConns
Conn == [id : ConnId, key : ClientKeys, label : Labels \cup {NoLabel},
         ip : Ip, fresh : BOOLEAN]
Procs == Slots \cup {Sweeper}
Step == {"idle", "evict", "address", "pin", "tunnel", "record",
         "remove", "beat"}
Proc == [step : Step, key : ClientKeys \cup {NoKey},
         label : Labels \cup {NoLabel}, ip : OptIp, id : 0 .. MaxConns,
         todo : SUBSET Conn, victim : 0 .. MaxConns]
Idle == [step |-> "idle", key |-> NoKey, label |-> NoLabel, ip |-> NoIp,
         id |-> 0, todo |-> {}, victim |-> 0]

\* A connect has its key and its id from the start and an address once it
\* has gone through the pool; no other request has a label.
WellFormed(q) ==
    /\ q.step \in {"evict", "address", "pin", "tunnel", "record"}
         => q.key \in ClientKeys /\ q.id \in ConnId
    /\ q.step = "pin" => q.label # NoLabel
    /\ q.step \in {"tunnel", "record"} => q.ip # NoIp
    /\ q.step \in {"idle", "evict", "address", "remove", "beat"}
         => q.ip = NoIp
    /\ q.step \in {"idle", "remove", "beat"} => q.label = NoLabel

ConnTypeOK ==
    /\ conns \subseteq Conn
    /\ labelIp \in [Labels -> OptIp]
    /\ proc \in [Procs -> Proc]
    /\ \A p \in Procs : WellFormed(proc[p])
    /\ connSeq \in 0 .. MaxConns
    /\ calm \subseteq Slots
    /\ settled \subseteq Labels

ConnInit ==
    /\ conns = {}
    /\ labelIp = [l \in Labels |-> NoIp]
    /\ proc = [p \in Procs |-> Idle]
    /\ connSeq = 0
    /\ calm = {}
    /\ settled = Labels

\* Labels that a request is connecting, or whose record it writes back.
Touched(p) ==
    {proc[p].label}
      \cup {c.label : c \in IF proc[p].step = "beat" THEN proc[p].todo ELSE {}}

Connecting(l) == {s \in Slots : proc[s].label = l}

\* A request that touches label l meets the connects of l that are running,
\* or the store fails one of them.
Disturb(l) ==
    /\ calm' = calm \ Connecting(l)
    /\ settled' = settled \ {l}

\* Mutant: only the key is compared.
ReplacedByKey(k, l) == {c \in conns : c.key = k}

\* The records that a new connection of key k and label l replaces.
Replaced(k, l) == {c \in conns : c.key = k \/ (l # NoLabel /\ c.label = l)}

\* connect_handler: list the connections of the same key or label.  The id
\* of the new record, random in the code, is the number of this connect.
ConnectWith(r, k, l, listed) ==
    /\ proc[r] = Idle
    /\ connSeq < MaxConns
    /\ connSeq' = connSeq + 1
    /\ proc' = [proc EXCEPT ![r] =
                  [step |-> "evict", key |-> k, label |-> l, ip |-> NoIp,
                   id |-> connSeq + 1, todo |-> listed, victim |-> 0]]
    /\ UNCHANGED <<conns, labelIp>>
    /\ UNCHANGED poolVars

Connect(r, k, l) ==
    /\ ConnectWith(r, k, l, Replaced(k, l))
    /\ IF l \in Labels /\ ~\E s \in Slots : l \in Touched(s)
       THEN calm' = calm \cup {r} /\ UNCHANGED settled
       ELSE Disturb(l)

\* list_connections fails, or leaves out what it cannot read: the connections
\* that are not listed stay.
ConnectUnlisted(r, k, l, listed) ==
    /\ ConnectWith(r, k, l, listed)
    /\ Disturb(l)

\* remove_peer for one listed record, whatever happened to it since.
RemoveTunnel(p, c) ==
    /\ proc[p].step \in {"evict", "remove"}
    /\ proc[p].victim = 0
    /\ c \in proc[p].todo
    /\ WgCommand(WgWithout(c.key))
    /\ proc' = [proc EXCEPT ![p].victim = c.id, ![p].todo = @ \ {c}]
    /\ UNCHANGED <<nextIp, conns, labelIp, connSeq, calm, settled>>

\* Mutant: the record is left.
DeleteRecordForgotten(p) ==
    /\ proc[p].victim # 0
    /\ proc' = [proc EXCEPT ![p].victim = 0]
    /\ UNCHANGED <<conns, labelIp, connSeq, calm, settled>>
    /\ UNCHANGED poolVars

\* delete_connection for that record.
DeleteRecord(p) ==
    /\ proc[p].victim # 0
    /\ conns' = {c \in conns : c.id # proc[p].victim}
    /\ proc' = [proc EXCEPT ![p].victim = 0]
    /\ UNCHANGED <<labelIp, connSeq, calm, settled>>
    /\ UNCHANGED poolVars

\* delete_connection fails.  The loops go on, disconnect_handler answers 500.
DeleteFails(p) ==
    /\ proc[p].victim # 0
    /\ proc' = [proc EXCEPT ![p].victim = 0]
    /\ Disturb(proc[p].label)
    /\ UNCHANGED <<conns, labelIp, connSeq>>
    /\ UNCHANGED poolVars

\* The last listed record is dealt with: a connect looks for its address,
\* the other two are done.
Removed(p) ==
    /\ proc[p].step \in {"evict", "remove"}
    /\ proc[p].victim = 0
    /\ proc[p].todo = {}
    /\ proc' = [proc EXCEPT ![p] =
                  IF @.step = "evict" THEN [@ EXCEPT !.step = "address"]
                                      ELSE Idle]
    /\ UNCHANGED <<conns, labelIp, connSeq, calm, settled>>
    /\ UNCHANGED poolVars

\* Mutant: the address of a label is not looked up.
PinnedNever(l) == FALSE

Pinned(l) == l # NoLabel /\ labelIp[l] # NoIp

\* A labelled connect whose label has an address uses it.
ReadPin(r) ==
    /\ proc[r].step = "address"
    /\ Pinned(proc[r].label)
    /\ proc' = [proc EXCEPT ![r].step = "tunnel",
                            ![r].ip = labelIp[proc[r].label]]
    /\ UNCHANGED <<conns, labelIp, connSeq, calm, settled>>
    /\ UNCHANGED poolVars

\* A labelled connect that finds no address will pin the one it takes; the
\* label is read before the lock of the pool is taken.
WillPin(r) ==
    /\ proc[r].step = "address"
    /\ proc[r].label # NoLabel
    /\ proc' = [proc EXCEPT ![r].step = "pin"]
    /\ UNCHANGED <<conns, labelIp, connSeq>>
    /\ UNCHANGED poolVars

MissPin(r) ==
    /\ WillPin(r)
    /\ ~Pinned(proc[r].label)
    /\ UNCHANGED <<calm, settled>>

\* get_label_ip fails: as if no address were pinned (`_ =>`).
PinUnread(r) ==
    /\ WillPin(r)
    /\ Disturb(proc[r].label)

TakeAddress(r, ip) ==
    /\ \/ proc[r].step = "pin"
       \/ proc[r].step = "address" /\ proc[r].label = NoLabel
    /\ proc[r].ip = NoIp
    /\ Allocate(ip)
    /\ proc' = [proc EXCEPT ![r].ip = ip,
                            ![r].step = IF @ = "pin" THEN "pin" ELSE "tunnel"]
    /\ UNCHANGED <<wg, conns, labelIp, connSeq, calm, settled>>

\* 503: nothing left to hand out; the evictions stay done.
RefuseConnect(r) ==
    /\ \/ proc[r].step = "pin"
       \/ proc[r].step = "address" /\ proc[r].label = NoLabel
    /\ proc[r].ip = NoIp
    /\ PoolExhausted
    /\ proc' = [proc EXCEPT ![r] = Idle]
    /\ calm' = calm \ {r}
    /\ UNCHANGED <<conns, labelIp, connSeq, settled>>
    /\ UNCHANGED poolVars

\* Mutant: the address is used but not pinned.
PinLabelForgotten(r) ==
    /\ proc[r].step = "pin"
    /\ proc[r].ip # NoIp
    /\ proc' = [proc EXCEPT ![r].step = "tunnel"]
    /\ UNCHANGED <<conns, labelIp, connSeq, calm, settled>>
    /\ UNCHANGED poolVars

\* set_label_ip, which overwrites an address pinned in the meantime.
PinLabel(r) ==
    /\ proc[r].step = "pin"
    /\ proc[r].ip # NoIp
    /\ labelIp' = [labelIp EXCEPT ![proc[r].label] = proc[r].ip]
    /\ proc' = [proc EXCEPT ![r].step = "tunnel"]
    /\ UNCHANGED <<conns, connSeq, calm, settled>>
    /\ UNCHANGED poolVars

\* set_label_ip fails, which is only logged: the address is used unpinned.
PinFails(r) ==
    /\ proc[r].step = "pin"
    /\ proc[r].ip # NoIp
    /\ proc' = [proc EXCEPT ![r].step = "tunnel"]
    /\ Disturb(proc[r].label)
    /\ UNCHANGED <<conns, labelIp, connSeq>>
    /\ UNCHANGED poolVars

AddTunnel(r) ==
    /\ proc[r].step = "tunnel"
    /\ WgCommand(WgWith(proc[r].key, proc[r].ip))
    /\ proc' = [proc EXCEPT ![r].step = "record"]
    /\ UNCHANGED <<nextIp, conns, labelIp, connSeq, calm, settled>>

PutRecord(r) ==
    /\ proc[r].step = "record"
    /\ conns' = conns \cup
         {[id |-> proc[r].id, key |-> proc[r].key, label |-> proc[r].label,
           ip |-> proc[r].ip, fresh |-> TRUE]}
    /\ proc' = [proc EXCEPT ![r] = Idle]
    /\ settled' = settled \cup {l \in Labels : r \in calm /\ proc[r].label = l}
    /\ calm' = calm \ {r}
    /\ UNCHANGED <<labelIp, connSeq>>
    /\ UNCHANGED poolVars

\* put_connection fails: 500, the address and the tunnel stay.
RecordFails(r) ==
    /\ proc[r].step = "record"
    /\ proc' = [proc EXCEPT ![r] = Idle]
    /\ calm' = calm \ {r}
    /\ UNCHANGED <<conns, labelIp, connSeq, settled>>
    /\ UNCHANGED poolVars

\* disconnect_handler: get_connection found c.
Disconnect(r, c) ==
    /\ proc[r] = Idle
    /\ c \in conns
    /\ proc' = [proc EXCEPT ![r] = [Idle EXCEPT !.step = "remove",
                                                !.todo = {c}]]
    /\ UNCHANGED <<conns, labelIp, connSeq, calm, settled>>
    /\ UNCHANGED poolVars

\* update_connection_heartbeat: read the record ...
BeatRead(r, c) ==
    /\ proc[r] = Idle
    /\ c \in conns
    /\ proc' = [proc EXCEPT ![r] = [Idle EXCEPT !.step = "beat",
                                                !.todo = {c}]]
    /\ IF Connecting(c.label) = {} THEN UNCHANGED <<calm, settled>> ELSE Disturb(c.label)
    /\ UNCHANGED <<conns, labelIp, connSeq>>
    /\ UNCHANGED poolVars

\* ... and insert it with the new time, which brings back a record deleted
\* in the meantime.
BeatWrite(r) ==
    /\ proc[r].step = "beat"
    /\ \E b \in proc[r].todo :
         conns' = {c \in conns : c.id # b.id} \cup {[b EXCEPT !.fresh = TRUE]}
    /\ proc' = [proc EXCEPT ![r] = Idle]
    /\ UNCHANGED <<labelIp, connSeq, calm, settled>>
    /\ UNCHANGED poolVars

\* The record cannot be written: 500.
BeatFails(r) ==
    /\ proc[r].step = "beat"
    /\ proc' = [proc EXCEPT ![r] = Idle]
    /\ UNCHANGED <<conns, labelIp, connSeq, calm, settled>>
    /\ UNCHANGED poolVars

\* 90 seconds pass without a heartbeat of c.
GoSilent(c) ==
    /\ c \in conns
    /\ c.fresh
    /\ conns' = (conns \ {c}) \cup {[c EXCEPT !.fresh = FALSE]}
    /\ UNCHANGED <<labelIp, proc, connSeq, calm, settled>>
    /\ UNCHANGED poolVars

Silent == {c \in conns : ~c.fresh}

\* The expiry loop wakes and lists the connections; it passes over those
\* that are not silent.
SweepOf(listed) ==
    /\ proc[Sweeper] = Idle
    /\ listed # {}
    /\ proc' = [proc EXCEPT ![Sweeper] = [Idle EXCEPT !.step = "remove",
                                                      !.todo = listed]]
    /\ UNCHANGED <<conns, labelIp, connSeq, calm, settled>>
    /\ UNCHANGED poolVars

Sweep == SweepOf(Silent)

Remove(p) ==
    \/ \E c \in proc[p].todo : RemoveTunnel(p, c)
    \/ DeleteRecord(p)
    \/ Removed(p)

ConnectStep(r) ==
    \/ ReadPin(r)
    \/ MissPin(r)
    \/ \E ip \in Ip : TakeAddress(r, ip)
    \/ RefuseConnect(r)
    \/ PinLabel(r)
    \/ AddTunnel(r)
    \/ PutRecord(r)

ConnStep ==
    \/ \E r \in Slots, k \in ClientKeys, l \in Labels \cup {NoLabel} :
         Connect(r, k, l)
    \/ \E r \in Slots : ConnectStep(r)
    \/ \E r \in Slots, c \in conns : Disconnect(r, c)
    \/ \E r \in Slots, c \in conns : BeatRead(r, c)
    \/ \E r \in Slots : BeatWrite(r)
    \/ \E c \in conns : GoSilent(c)
    \/ Sweep
    \/ \E p \in Procs : Remove(p)

\* The store fails a step.  (A handler that fails to read its record, and a
\* round of the loop that fails to list, change nothing.)
ConnFault ==
    \/ \E r \in Slots, k \in ClientKeys, l \in Labels \cup {NoLabel} :
         \E listed \in SUBSET Replaced(k, l) : ConnectUnlisted(r, k, l, listed)
    \/ \E r \in Slots : PinUnread(r) \/ PinFails(r) \/ RecordFails(r) \/ BeatFails(r)
    \/ \E listed \in SUBSET Silent : SweepOf(listed)
    \/ \E p \in Procs : DeleteFails(p)

ConnNext ==
    \/ ConnStep /\ UNCHANGED faults
    \/ ConnFault /\ Fault
=============================================================================
