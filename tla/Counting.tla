------------------------------ MODULE Counting ------------------------------
(* Sums of natural numbers, as the size of a set: as many pairs for each x as *)
(* f[x] says.  (The folds of the community modules are recursive.)  What is   *)
(* not positive counts as nothing.                                            *)
EXTENDS Integers, FiniteSets

Units(f) == UNION {{x} \X (1 .. f[x]) : x \in DOMAIN f}
SumOf(f) == Cardinality(Units(f))
=============================================================================
