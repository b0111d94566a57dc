----------------------------- MODULE MCPrefork ------------------------------
(* A few processes that share a listening socket.                          *)
EXTENDS Prefork
=============================================================================
