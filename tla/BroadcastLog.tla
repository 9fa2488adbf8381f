---------------------------- MODULE BroadcastLog ----------------------------
(***************************************************************************)
(* What the users of a broadcaster rely on: a log of numbered messages     *)
(* that every connection reads forwards.                                   *)
(*                                                                         *)
(* A connection starts with the message of the initProc, made when the log *)
(* was snap[k] messages long, or with any message of the log.  After the   *)
(* initial message it may repeat messages the snapshot already holds, but  *)
(* it leaves out none the snapshot lacks; after a message comes its        *)
(* successor.  A connection may stop at any point.  Nothing is said of the *)
(* order between two connections to one client.                            *)
(***************************************************************************)
EXTENDS Integers, Sequences

CONSTANTS
    Clients, MaxMsgs, MaxConns,
    InitMsg,    \* the message of the initProc
    Starts      \* the messages a connection may start with

Msgs   == 1..MaxMsgs
Conns  == Clients \X (1..MaxConns)
NoSnap == MaxMsgs + 1

ASSUME LogAssumption ==
    /\ MaxMsgs \in Nat /\ MaxConns \in Nat /\ InitMsg \notin Msgs
    /\ Starts \subseteq Msgs \cup {InitMsg}

VARIABLES
    length,     \* length of the log
    given,      \* messages given to the receiver of a connection
    snap        \* length of the log when its initial message was made, or
                \* NoSnap

logVars == <<length, given, snap>>

LogInit ==
    /\ length = 0
    /\ given = [k \in Conns |-> <<>>]
    /\ snap = [k \in Conns |-> NoSnap]

\* A message is broadcast.
Publish ==
    /\ length < MaxMsgs
    /\ length' = length + 1
    /\ UNCHANGED <<given, snap>>

\* The initProc makes its message.
Snapshot(k) ==
    /\ given[k] = <<>>
    /\ snap' = [snap EXCEPT ![k] = length]
    /\ UNCHANGED <<length, given>>

\* The messages that may follow a sequence of them.
Successors(s, n) ==
    IF s = <<>> THEN Starts
    ELSE IF s[Len(s)] = InitMsg THEN 1..n+1
    ELSE {s[Len(s)] + 1}

\* A receiver is given the next message.
Deliver(k, m) ==
    /\ m \in Successors(given[k], snap[k])
    /\ IF m \in Msgs THEN m <= length ELSE snap[k] # NoSnap
    /\ given' = [given EXCEPT ![k] = Append(@, m)]
    /\ UNCHANGED <<length, snap>>

LogNext ==
    \/ Publish
    \/ \E k \in Conns : \/ Snapshot(k)
                        \/ \E m \in Msgs \cup {InitMsg} : Deliver(k, m)

LogSpec == LogInit /\ [][LogNext]_logVars

=============================================================================
