----------------------------- MODULE MCPingPong -----------------------------
(* An instance of PingPong for TLC. *)
EXTENDS PingPong
=============================================================================
