------------------------------- MODULE MCPort -------------------------------
(* PortEngine with its history, for TLC *)
EXTENDS PortHistory, PortInstances
=============================================================================
