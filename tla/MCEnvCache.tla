----------------------------- MODULE MCEnvCache -----------------------------
(* Two agents on one volume: two threads of the first that want different     *)
(* environments, one of the second that wants the same as one of them.        *)
EXTENDS EnvCache, TLC

CONSTANTS A1, A2, c1, c2, c3, k1, k2

CacheHome == (c1 :> A1) @@ (c2 :> A1) @@ (c3 :> A2)
CacheWants == (c1 :> k1) @@ (c2 :> k2) @@ (c3 :> k1)
=============================================================================
