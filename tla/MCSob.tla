------------------------------- MODULE MCSob -------------------------------
(* Small instances of Sob. *)
EXTENDS Sob

InitFirst == {InitMsg}
OneHome   == [t \in Threads |-> CHOOSE p \in Clients : TRUE]
=============================================================================
