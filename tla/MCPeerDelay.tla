----------------------------- MODULE MCPeerDelay -----------------------------
(* Two ports on one link, for TLC *)
EXTENDS PeerDelay

CONSTANTS a, b

Pair(x, y) == [p \in Ports |-> IF p = a THEN x ELSE y]

(* MASTER and SLAVE do the same here, and the ports are interchangeable *)
LinkRoles == {Pair("MASTER", "SLAVE"), Pair("SLAVE", "PASSIVE"),
              Pair("MASTER", "LISTENING"), Pair("PASSIVE", "LISTENING")}

MasterAndSlave == {Pair("MASTER", "SLAVE")}
=============================================================================
