---------------------------- MODULE MCConnections ----------------------------
(* Connections for TLC: two sockets, one of them most of the time the       *)
(* listener's, two servers, and three files.                                *)
EXTENDS Connections

CONSTANTS hub, leaf

TwoServers == {hub, leaf}
Configs == {
  [servers |-> <<hub, leaf>>, listen |-> TRUE, timeout |-> 1],
  [servers |-> <<leaf>>, listen |-> FALSE, timeout |-> 0],
  [servers |-> <<hub>>, listen |-> TRUE, timeout |-> 0]}
=============================================================================
