----------------------------- MODULE MCP2pSync -----------------------------
(* Instances of P2pSync for TLC. *)
EXTENDS P2pSync, TLC
=============================================================================
