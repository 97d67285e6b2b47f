---------------------------- MODULE StoreFaults ----------------------------
(***************************************************************************)
(* Operations of the master's store (sled) may return an error.  Many      *)
(* callers ignore it and go on (`let _ =`, `if let Ok`, `warn!`), so an    *)
(* operation of the store has a second outcome, an action of its own that  *)
(* is one Fault: nothing was written or read, and the caller goes on.      *)
(***************************************************************************)
EXTENDS Naturals

CONSTANT MaxFaults   \* bound: store operations that fail in a behaviour

ASSUME FaultAssumption == MaxFaults \in Nat

VARIABLE faults      \* store operations that have failed

Fault ==
    /\ faults < MaxFaults
    /\ faults' = faults + 1
=============================================================================
