--------------------------- MODULE MCTaskRegistry ---------------------------
(* A node with two cards, each task asking for one; a recount may leave one  *)
(* card or none, so that the second task is refused as well as granted.      *)
EXTENDS TaskRegistry

MCWants == [t \in Task |-> 1]
MCGpus == 2

=============================================================================
