---------------------------- MODULE AddressPool ----------------------------
(***************************************************************************)
(* The address pool of a master (AppState.next_ip) and the kernel's        *)
(* WireGuard table, which the join handler and the connection handlers     *)
(* share.  An address 10.42.0.N is the number N; NoIp stands for none.     *)
(***************************************************************************)
EXTENDS Naturals, FiniteSets

CONSTANTS
    MaxIp,       \* the last address handed out (254 in the code)
    NodeKeys,    \* public keys of agents, clients of /api/join
    ClientKeys,  \* public keys of clients of /api/connections
    WgMayFail    \* TRUE: a `wg set` may fail, which the handlers only log

ASSUME PoolAssumption ==
    /\ MaxIp \in Nat
    /\ MaxIp >= 1
    /\ NodeKeys \cap ClientKeys = {}
    /\ WgMayFail \in BOOLEAN

VARIABLES
    nextIp,      \* next address to hand out, in memory only
    wg           \* allowed-ips of every public key in the kernel's table

poolVars == <<nextIp, wg>>

NoIp == 0
MasterIp == 1
Ip == 1 .. MaxIp
OptIp == 0 .. MaxIp
Keys == NodeKeys \cup ClientKeys

\* A request finds the pool used up and answers 503.
PoolExhausted == nextIp > MaxIp

\* A request takes the address ip under the next_ip lock.
Allocate(ip) ==
    /\ ~PoolExhausted
    /\ ip = nextIp
    /\ nextIp' = nextIp + 1

\* WireGuard keeps an allowed-ip at one peer: giving it to k takes it from
\* every other peer.
WgWith(k, ip) ==
    [j \in Keys |-> IF j = k THEN ip ELSE IF wg[j] = ip THEN NoIp ELSE wg[j]]

WgWithout(k) == [wg EXCEPT ![k] = NoIp]

\* A `wg` command whose failure is logged and ignored.
WgCommand(table) == wg' = table \/ (WgMayFail /\ wg' = wg)

\* Mutant: the largest recorded address itself is handed out again.
FirstFreeOffByOne(recorded) ==
    \E m \in recorded : /\ \A i \in recorded : i <= m
                        /\ nextIp' = m

\* The pool after a start of the master: one past the largest address that is
\* on record.
FirstFreeAfter(recorded) ==
    \E m \in recorded : /\ \A i \in recorded : i <= m
                        /\ nextIp' = m + 1
=============================================================================
