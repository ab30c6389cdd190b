----------------------------- MODULE MCPlacement -----------------------------
(* Two nodes of four cards and of two; a pair of tasks, one that wants two    *)
(* cards, one that a node is named for.                                       *)
EXTENDS Placement

CardsWanted == [a |-> 1, b |-> 1, c |-> 2, d |-> 1]
CardsOfHost == [m |-> 4, n |-> 2]
Submissions == {{"a", "b"}, {"c"}, {"d"}}
=============================================================================
