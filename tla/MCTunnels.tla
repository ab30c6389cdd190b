----------------------------- MODULE MCTunnels -----------------------------
(* One task of a node, and two connections to its one port: from a neighbour  *)
(* that runs another rank of the group, and from outside.                     *)
EXTENDS Tunnels

OpenedPorts == [T1 |-> {1}]
Dialled == [d1 |-> 1, d2 |-> 1]
ForTheirs == [d1 |-> "T2"]
=============================================================================
