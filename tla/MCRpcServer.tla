---------------------------- MODULE MCRpcServer ----------------------------
(* Small instances of RpcServer. *)
EXTENDS RpcServer

CONSTANTS c1, c2

WithAndWithout == {0, 3}
OneAsks == [c \in Clients |-> IF c = c1 THEN 2 ELSE 0]
=============================================================================
