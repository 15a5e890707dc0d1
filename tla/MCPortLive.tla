----------------------------- MODULE MCPortLive -----------------------------
(* PortEngine alone, for the liveness properties *)
EXTENDS PortEngine, PortInstances
=============================================================================
