---------------------------- MODULE MCBroadcast ----------------------------
(* Small instances of Broadcast. *)
EXTENDS Broadcast, TLC

\* What initProc returns: nv's always a message, ncf's a message or NULL.
AlwaysInit == {"msg"}
NullInit   == {"null"}

Symmetry == Permutations(Clients)
=============================================================================
