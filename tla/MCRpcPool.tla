----------------------------- MODULE MCRpcPool -----------------------------
(* Small instances of RpcPool. *)
EXTENDS RpcPool, TLC
CONSTANT r1

OneJob == {<<r1>>}
\* Two jobs for the same end point: two calls can each hold one connection
\* and wait for the other.
TwoJobs == {<<r1, r1>>}

Symmetry == Permutations(Threads) \cup Permutations(Conns)
=============================================================================
