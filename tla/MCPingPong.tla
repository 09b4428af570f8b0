----------------------------- MODULE MCPingPong -----------------------------
(* PingPong with the processes of a given set of instances.                 *)
EXTENDS PingPong

MCProcs == Programs
=============================================================================
