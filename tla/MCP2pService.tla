---------------------------- MODULE MCP2pService ----------------------------
(* Small instances of P2pService. *)
EXTENDS P2pService
=============================================================================
