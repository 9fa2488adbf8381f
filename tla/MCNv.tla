-------------------------------- MODULE MCNv --------------------------------
(* Small instances of Nv. *)
EXTENDS Nv

CONSTANTS a1, a2

TwoArrays == <<a1, a2>>
OneStored == [a \in {a1, a2} |-> [k \in Keys |-> IF a = a1 THEN 0 ELSE Unset]]
InitFirst == {InitMsg}
LinkAll   == [c \in Clients |-> {a1, a2}]
=============================================================================
