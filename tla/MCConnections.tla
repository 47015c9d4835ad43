--------------------------- MODULE MCConnections ----------------------------
(* Instances of Connections for TLC: a left neighbour and the master.      *)
EXTENDS Connections, TLC

MCClients == {"left", "master"}
=============================================================================
