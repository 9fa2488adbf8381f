------------------------- MODULE Broadcast_proofs -------------------------
(***************************************************************************)
(* Proofs about Broadcast, for every number of clients, messages,          *)
(* connections, failures and parts: its types, the wakeups of the          *)
(* broadcaster thread, the bound on the trigger pipe and the reference     *)
(* counts; then, without a timeout, that a receiver gets whole messages    *)
(* only and that the broadcaster and its receivers implement BroadcastLog. *)
(***************************************************************************)
EXTENDS Broadcast, ListLemmas

-----------------------------------------------------------------------------
(* Types.                                                                  *)

LEMMA Constants ==
    /\ Parts \in Nat /\ Parts >= 2 /\ MaxMsgs \in Nat /\ MaxConns \in Nat
    /\ Login \in Sent /\ InitMsg \in Sent /\ Msgs \subseteq Sent
    /\ NoMsg \notin Msgs /\ Login \notin Msgs /\ InitMsg \notin Msgs
    /\ NoMsg \notin Sent /\ 0..MaxMsgs \subseteq 0..NoSnap
BY BroadcastAssumption DEF Login, InitMsg, Sent, Msgs, NoMsg, NoSnap

LEMMA InitType == Init => TypeOK
<1> SUFFICES ASSUME Init PROVE TypeOK
    OBVIOUS
<1>1. QueueType
  <2>1. queue \in Seq(Msgs) BY DEF Init
  <2>2. ref \in [Msgs -> Int] BY DEF Init
  <2>3. pipe \in Nat /\ nmsg \in 0..MaxMsgs BY BroadcastAssumption DEF Init
  <2>4. shutdownPending \in BOOLEAN BY DEF Init
  <2> QED BY <2>1, <2>2, <2>3, <2>4 DEF QueueType
<1>2. OtherType /\ ThreadType
    BY BroadcastAssumption DEF Init, OtherType, ThreadType
<1>3. ClientType
    BY BroadcastAssumption DEF Init, ClientType
<1>4. NetType
    BY BroadcastAssumption DEF Init, NetType, Stream, NoSnap
<1>5. RecvType
    BY BroadcastAssumption DEF Init, RecvType, Stream
<1> QED BY <1>1, <1>2, <1>3, <1>4, <1>5 DEF TypeOK

\* The threads that use the broadcaster.
LEMMA UserType ==
    ASSUME TypeOK,
           Dci_Broadcast \/ StatsLock \/ StatsRead \/ StopFlag \/ StopTrigger
              \/ StopJoin
    PROVE  TypeOK'
<1>0. QueueType /\ OtherType /\ ThreadType /\ ClientType /\ NetType /\ RecvType
    BY DEF TypeOK
<1>1. ThreadType' /\ ClientType' /\ NetType' /\ RecvType'
    BY <1>0 DEF Dci_Broadcast, Enqueued, StatsLock, StatsRead, StopFlag, StopTrigger,
       StopJoin, threadVars, clientVars, netVars, recvVars, ThreadType,
       ClientType, NetType, RecvType
<1>2. OtherType'
    BY <1>0, BroadcastAssumption DEF Dci_Broadcast, Enqueued, StatsLock, StatsRead,
       StopFlag, StopTrigger, StopJoin, otherVars, OtherType
<1>3. QueueType'
  <2>1. CASE Dci_Broadcast
    <3>1. nmsg' \in Msgs /\ nmsg' \in 0..MaxMsgs
      BY <1>0, <2>1, BroadcastAssumption DEF Dci_Broadcast, Enqueued, QueueType, Msgs
    <3>2. queue' \in Seq(Msgs)
      BY <1>0, <2>1, <3>1, AppendProperties, SMTT(30) DEF Dci_Broadcast, Enqueued, QueueType
    <3>3. ref' \in [Msgs -> Int] /\ pipe' \in Nat
      BY <1>0, <2>1, <3>1 DEF Dci_Broadcast, Enqueued, QueueType
    <3>4. shutdownPending' = shutdownPending
      BY <2>1 DEF Dci_Broadcast, Enqueued
    <3> QED BY <1>0, <3>1, <3>2, <3>3, <3>4 DEF QueueType
  <2>2. CASE StatsLock \/ StopTrigger
    BY <1>0, <2>2 DEF StatsLock, StopTrigger, QueueType
  <2>3. CASE StatsRead \/ StopJoin
    BY <1>0, <2>3 DEF StatsRead, StopJoin, queueVars, QueueType
  <2>4. CASE StopFlag
    BY <1>0, <2>4 DEF StopFlag, QueueType
  <2> QED BY <2>1, <2>2, <2>3, <2>4
<1> QED BY <1>1, <1>2, <1>3 DEF TypeOK

\* The broadcaster's loop outside of the pass over the clients.
LEMMA LoopType ==
    ASSUME TypeOK, TopRetry \/ TopSkip \/ Poll \/ VerifyEnd \/ NextMsg \/ Stopping
    PROVE  TypeOK'
<1>0. QueueType /\ OtherType /\ ThreadType /\ ClientType /\ NetType /\ RecvType
    BY DEF TypeOK
<1>1. OtherType' /\ RecvType'
    BY <1>0 DEF TopRetry, TopSkip, Poll, VerifyEnd, NextMsg, Stopping,
       otherVars, recvVars, OtherType, RecvType
<1>2. ThreadType'
    BY <1>0 DEF TopRetry, TopSkip, Poll, VerifyEnd, NextMsg, Stopping,
       ThreadType, Active
<1>3. QueueType'
  <2>1. CASE TopRetry \/ TopSkip \/ VerifyEnd
    BY <1>0, <2>1 DEF TopRetry, TopSkip, VerifyEnd, queueVars, QueueType
  <2>2. CASE Poll
    BY <1>0, <2>2 DEF Poll, Drained, QueueType
  <2>3. CASE NextMsg
    <3>1. Cardinality(Targets) \in Nat
      <4>1. Targets \subseteq Clients BY DEF Targets, Active
      <4> QED BY <4>1, BroadcastAssumption, FS_Subset, FS_CardinalityType
    <3>2. queue # <<>> => Head(queue) \in Msgs /\ Tail(queue) \in Seq(Msgs)
      BY <1>0, HeadTailProperties DEF QueueType
    <3>3. queue' \in Seq(Msgs)
      BY <1>0, <2>3, <3>2 DEF NextMsg, QueueType
    <3>4. ref' \in [Msgs -> Int]
      <4> DEFINE n == Cardinality(Targets)
      <4>1. ref' = ref \/ ref' = [ref EXCEPT ![Head(queue)] = @ + n - 1]
        BY <2>3 DEF NextMsg
      <4>2. n \in Nat BY <3>1
      <4> HIDE DEF n
      <4> QED BY <1>0, <4>1, <4>2 DEF QueueType
    <3> QED BY <1>0, <2>3, <3>3, <3>4 DEF NextMsg, QueueType
  <2>4. CASE Stopping
    BY <1>0, <2>4 DEF Stopping, QueueType
  <2> QED BY <2>1, <2>2, <2>3, <2>4
<1>4. ClientType'
  <2>1. CASE TopRetry
    BY <1>0, <2>1, BroadcastAssumption DEF TopRetry, ClientType, Retrying, Active
  <2>2. CASE TopSkip \/ VerifyEnd
    BY <1>0, <2>2 DEF TopSkip, VerifyEnd, clientVars, ClientType
  <2>3. CASE Poll
    BY <1>0, <2>3 DEF Poll, ClientType, Ready
  <2>4. CASE NextMsg
    <3>1. queue # <<>> => Head(queue) \in Sent
      BY <1>0, HeadTailProperties, Constants DEF QueueType
    <3>2. UNCHANGED <<place, state, revents, cur>>
      BY <2>4 DEF NextMsg
    <3>3. msg' \in [Clients -> Sent \cup {NoMsg}]
      BY <1>0, <2>4, <3>1 DEF NextMsg, ClientType
    <3>4. off' \in [Clients -> 0..Parts]
      <4>1. 0 \in 0..Parts /\ off \in [Clients -> 0..Parts]
        BY <1>0, Constants DEF ClientType
      <4>2. \/ off' = off
            \/ off' = [c \in Clients |-> IF c \in Targets THEN 0 ELSE off[c]]
        BY <2>4 DEF NextMsg
      <4> QED BY <4>1, <4>2
    <3> QED BY <1>0, <3>2, <3>3, <3>4 DEF ClientType
  <2>5. CASE Stopping
    BY <1>0, <2>5 DEF Stopping, ClientType
  <2> QED BY <2>1, <2>2, <2>3, <2>4, <2>5
<1>5. NetType'
    BY <1>0 DEF TopRetry, TopSkip, Poll, VerifyEnd, NextMsg, Stopping, netVars,
       NetType
<1> QED BY <1>1, <1>2, <1>3, <1>4, <1>5 DEF TypeOK

LEMMA PutType ==
    ASSUME TypeOK, NEW c \in Clients, NEW n \in Nat, Put(c, n), msg[c] # NoMsg
    PROVE  wire' \in [Conns -> Stream]
<1>1. /\ wire \in [Conns -> Stream] /\ msg[c] \in Sent
      /\ off[c] \in 0..Parts
    BY DEF TypeOK, NetType, ClientType
<1>2. CASE UNCHANGED wire
    BY <1>1, <1>2
<1>3. CASE wire' # wire
  <2> DEFINE p == [i \in 1..n |-> <<msg[c], off[c] + i>>]
  <2>1. wire' = [wire EXCEPT ![Conn(c)] = @ \o p] /\ off[c] + n <= Parts
    BY <1>3 DEF Put
  <2>2. p \in Stream
    <3>1. \A i \in 1..n : <<msg[c], off[c] + i>> \in Sent \X (1..Parts)
      BY <1>1, <2>1, Constants
    <3>2. p \in [1..n -> Sent \X (1..Parts)]
      BY <3>1
    <3> QED BY <3>2, SeqDef DEF Stream
  <2> HIDE DEF p
  <2>3. \A s \in Stream : s \o p \in Stream
    BY <2>2, ConcatProperties DEF Stream
  <2> QED BY <1>1, <2>1, <2>3
<1> QED BY <1>2, <1>3

\* The pass over the clients.
LEMMA ClientStepType ==
    ASSUME TypeOK, NEW c \in Clients, ClientStep(c)
    PROVE  TypeOK'
<1>0. QueueType /\ OtherType /\ ThreadType /\ ClientType /\ NetType /\ RecvType
    BY DEF TypeOK
<1>1. /\ Verify(c)
      /\ state' \in [Clients -> {"CONNECT", "LOGIN", "READY"}]
      /\ place' \in [Clients -> {"active", "retry"}] /\ hot' \in BOOLEAN
    BY <1>0 DEF ClientStep, VerifyConnected, VerifyRefused, VerifyDropped,
       VerifySendFail, VerifySendPart, VerifySendDone, VerifyLoginDone,
       VerifyTimeout, VerifyNothing, RetryClient, ClientType, ThreadType
<1>2. OtherType' /\ ThreadType' /\ RecvType'
    BY <1>0, <1>1 DEF Verify, otherVars, recvVars, OtherType, ThreadType, RecvType
<1>3. ref' \in [Msgs -> Int]
    BY <1>0 DEF ClientStep, VerifyConnected, VerifyRefused, VerifyDropped,
       VerifySendFail, VerifySendPart, VerifySendDone, VerifyLoginDone,
       VerifyTimeout, VerifyNothing, RetryClient, MsgDone, Decr, QueueType
<1>4. msg' \in [Clients -> Sent \cup {NoMsg}] /\ off' \in [Clients -> 0..Parts]
  <2>1. ASSUME NEW x \in Sent \cup {NoMsg}, StartMsg(c, x)
        PROVE  /\ msg' \in [Clients -> Sent \cup {NoMsg}]
               /\ off' \in [Clients -> 0..Parts]
    BY <1>0, <2>1, Constants DEF StartMsg, ClientType
  <2>2. CASE VerifySendPart(c)
    <3>1. msg' = msg BY <2>2 DEF VerifySendPart
    <3>2. PICK n \in 1..Parts-1 : /\ off[c] + n < Parts
                                  /\ off' = [off EXCEPT ![c] = @ + n]
      BY <2>2 DEF VerifySendPart
    <3> QED BY <1>0, <3>1, <3>2, Constants DEF ClientType
  <2>3. CASE VerifyNothing(c)
    BY <1>0, <2>3 DEF VerifyNothing, ClientType
  <2>4. CASE \/ VerifyRefused(c) \/ VerifyDropped(c) \/ VerifySendFail(c)
             \/ VerifySendDone(c) \/ VerifyTimeout(c)
    BY <2>1, <2>4 DEF VerifyRefused, VerifyDropped, VerifySendFail,
       VerifySendDone, VerifyTimeout, RetryClient, MsgDone
  <2>5. CASE VerifyConnected(c)
    BY <2>1, <2>5, Constants DEF VerifyConnected
  <2>6. CASE VerifyLoginDone(c)
    BY <2>1, <2>6, Constants DEF VerifyLoginDone
  <2> QED BY <2>2, <2>3, <2>4, <2>5, <2>6 DEF ClientStep
<1>5. wire' \in [Conns -> Stream]
  <2>1. CASE VerifySendPart(c)
    BY <2>1, PutType, Constants DEF VerifySendPart, Sending
  <2>2. CASE VerifySendDone(c) \/ VerifyLoginDone(c)
    <3>1. Parts - off[c] \in Nat
      BY <1>0, Constants DEF ClientType
    <3> QED BY <2>2, <3>1, PutType DEF VerifySendDone, VerifyLoginDone, Sending
  <2>3. CASE UNCHANGED wire
    BY <1>0, <2>3 DEF NetType
  <2> QED BY <2>1, <2>2, <2>3 DEF ClientStep, VerifyConnected, VerifyRefused,
       VerifyDropped, VerifySendFail, VerifyTimeout, VerifyNothing
<1>6. snap' \in [Conns -> 0..NoSnap]
    BY <1>0, Constants DEF ClientStep, VerifyConnected, VerifyRefused, VerifyDropped,
       VerifySendFail, VerifySendPart, VerifySendDone, VerifyLoginDone,
       VerifyTimeout, VerifyNothing, NetType, QueueType
<1>7. QueueType' /\ ClientType' /\ NetType'
    BY <1>0, <1>1, <1>3, <1>4, <1>5, <1>6 DEF Verify, QueueType, ClientType,
       NetType
<1> QED BY <1>2, <1>7 DEF TypeOK

LEMMA DecodedType ==
    ASSUME NEW f \in Stream, f # <<>>
    PROVE  Decoded(f) \in Sent \cup {Garbled}
<1>1. f[1] \in Sent \X (1..Parts)
    BY DEF Stream
<1> QED BY <1>1 DEF Decoded

\* The network and the receivers.
LEMMA RecvStepType ==
    ASSUME TypeOK, NEW k \in Conns,
           RecvAccept(k) \/ Refuse(k) \/ Break(k) \/ RecvExit(k) \/ RecvStep(k)
    PROVE  TypeOK'
<1>0. QueueType /\ OtherType /\ ThreadType /\ ClientType /\ NetType /\ RecvType
    BY DEF TypeOK
<1> USE DEF RecvStep
<1>1. /\ UNCHANGED <<queueVars, otherVars, threadVars, clientVars, snap>>
      /\ net' \in [Conns -> {"unused", "syn", "refused", "up", "broken"}]
      /\ nfault' \in 0..MaxFaults
    BY <1>0, BroadcastAssumption DEF RecvAccept, Refuse, Break, RecvExit, RecvEnd,
       RecvLength, RecvBody, RecvLogin, RecvCall, CloseRecv, NetType
<1>2. QueueType' /\ OtherType' /\ ThreadType' /\ ClientType'
    BY <1>0, <1>1 DEF queueVars, otherVars, threadVars, clientVars, QueueType,
       OtherType, ThreadType, ClientType
<1>3. \A s \in Stream : s # <<>> =>
         /\ Head(s) \in Sent \X (1..Parts) /\ Tail(s) \in Stream
         /\ <<Head(s)>> \in Stream
         /\ \A f \in Stream : /\ Append(f, Head(s)) \in Stream
                              /\ Append(f, Head(s)) # <<>>
  <2> SUFFICES ASSUME NEW s \in Stream, s # <<>>
               PROVE  /\ Head(s) \in Sent \X (1..Parts) /\ Tail(s) \in Stream
                      /\ <<Head(s)>> \in Stream
                      /\ \A f \in Stream : /\ Append(f, Head(s)) \in Stream
                                           /\ Append(f, Head(s)) # <<>>
    OBVIOUS
  <2> DEFINE P == Sent \X (1..Parts)
  <2>1. s \in Seq(P) BY DEF Stream
  <2> HIDE DEF P
  <2>2. Head(s) \in P /\ Tail(s) \in Seq(P)
    BY <2>1, HeadTailProperties
  <2>3. <<Head(s)>> \in Seq(P)
    BY <2>2
  <2>4. \A f \in Seq(P) : Append(f, Head(s)) \in Seq(P) /\ Append(f, Head(s)) # <<>>
    BY <2>2, AppendProperties
  <2> QED BY <2>2, <2>3, <2>4 DEF Stream, P
<1>4. wire' \in [Conns -> Stream] /\ frame' \in [Conns -> Stream]
  <2>1. <<>> \in Stream BY DEF Stream
  <2>2. wire \in [Conns -> Stream] /\ frame \in [Conns -> Stream]
    BY <1>0 DEF NetType, RecvType
  <2>3. CASE CloseRecv(k)
    BY <2>1, <2>2, <2>3 DEF CloseRecv
  <2>4. CASE RecvAccept(k) \/ Refuse(k) \/ Break(k)
    BY <2>2, <2>4 DEF RecvAccept, Refuse, Break, recvVars
  <2>5. CASE RecvExit(k) \/ RecvEnd(k)
    BY <2>3, <2>5 DEF RecvExit, RecvEnd
  <2>6. CASE RecvLength(k) /\ ~CloseRecv(k)
    <3>1. /\ wire[k] # <<>> /\ frame' = [frame EXCEPT ![k] = <<Head(wire[k])>>]
          /\ wire' = [wire EXCEPT ![k] = Tail(@)]
      BY <2>6 DEF RecvLength
    <3> QED BY <1>3, <2>2, <3>1
  <2>7. CASE RecvBody(k)
    <3>1. /\ wire[k] # <<>> /\ frame' = [frame EXCEPT ![k] = Append(@, Head(wire[k]))]
          /\ wire' = [wire EXCEPT ![k] = Tail(@)]
      BY <2>7 DEF RecvBody
    <3> QED BY <1>3, <2>2, <3>1
  <2>8. CASE (RecvLogin(k) \/ RecvCall(k)) /\ ~CloseRecv(k)
    <3>1. /\ wire[k] # <<>> /\ frame' = [frame EXCEPT ![k] = <<>>]
          /\ wire' = [wire EXCEPT ![k] = Tail(@)]
      BY <2>8 DEF RecvLogin, RecvCall
    <3> QED BY <1>3, <2>1, <2>2, <3>1
  <2> QED BY <2>3, <2>4, <2>5, <2>6, <2>7, <2>8
<1>5. /\ rx' \in [Conns -> {"none", "open", "closed"}]
      /\ login' \in [Conns -> BOOLEAN] /\ want' \in [Conns -> 0..Parts]
  <2>1. rx' \in [Conns -> {"none", "open", "closed"}]
    BY <1>0 DEF RecvAccept, Refuse, Break, RecvExit, RecvEnd, RecvLength,
       RecvBody, RecvLogin, RecvCall, CloseRecv, RecvType, recvVars
  <2>2. login' \in [Conns -> BOOLEAN]
    BY <1>0 DEF RecvAccept, Refuse, Break, RecvExit, RecvEnd, RecvLength,
       RecvBody, RecvLogin, RecvCall, RecvType, recvVars
  <2>3. want' \in [Conns -> 0..Parts]
    <3>1. CASE RecvLength(k)
      <4>1. PICK w \in 0..Parts-1 : want' = [want EXCEPT ![k] = w]
        BY <3>1 DEF RecvLength
      <4> QED BY <1>0, <4>1, Constants DEF RecvType
    <3>2. CASE ~RecvLength(k)
      BY <1>0, <3>2 DEF RecvAccept, Refuse, Break, RecvExit, RecvEnd, RecvBody,
         RecvLogin, RecvCall, RecvType, recvVars
    <3> QED BY <3>1, <3>2
  <2> QED BY <2>1, <2>2, <2>3
<1>6. got' \in [Conns -> Seq(Sent \cup {Garbled})]
  <2>1. CASE RecvCall(k)
    <3> DEFINE m == Decoded(Append(frame[k], Head(wire[k])))
    <3>1. m \in Sent \cup {Garbled}
      BY <1>0, <1>3, <2>1, DecodedType DEF RecvCall, NetType, RecvType
    <3>2. got' = [got EXCEPT ![k] = Append(@, m)]
      BY <2>1 DEF RecvCall
    <3> HIDE DEF m
    <3> QED BY <1>0, <3>1, <3>2, AppendProperties DEF RecvType
  <2>2. CASE ~RecvCall(k)
    BY <1>0, <2>2 DEF RecvAccept, Refuse, Break, RecvExit, RecvEnd, RecvLength,
       RecvBody, RecvLogin, RecvType, recvVars
  <2> QED BY <2>1, <2>2
<1> QED BY <1>0, <1>1, <1>2, <1>4, <1>5, <1>6 DEF TypeOK, NetType, RecvType

\* Every variable of the broadcaster, the connections and the receivers keeps
\* its type.
THEOREM BroadcastTypeCorrect == Spec => []TypeOK
<1>1. TypeOK /\ [Next]_vars => TypeOK'
  <2> SUFFICES ASSUME TypeOK, [Next]_vars PROVE TypeOK'
    OBVIOUS
  <2>1. CASE UNCHANGED vars
    BY <2>1 DEF vars, queueVars, otherVars, threadVars, clientVars, netVars,
       recvVars, TypeOK, QueueType, OtherType, ThreadType, ClientType, NetType,
       RecvType
  <2>2. CASE Next
    BY <2>2, UserType, LoopType, ClientStepType, RecvStepType
       DEF Next, BroadcasterStep
  <2> QED BY <2>1, <2>2
<1> QED BY InitType, <1>1, PTL DEF Spec

-----------------------------------------------------------------------------
(* Wakeups.                                                                *)

\* Outside of a pass of the loop a queued message is announced: by a byte in
\* the pipe, by msgPtr, which limits the poll, or by a client that sends.
WakeInv ==
    pc \in {"top", "poll"} /\ queue # <<>> => pipe > 0 \/ hot \/ Busy

LEMMA BusyFrame ==
    ASSUME Busy, UNCHANGED <<place, msg>>
    PROVE  Busy'
BY DEF Busy, Active

\* The steps that leave the queue, the pipe and the loop alone.
LEMMA WakeQuiet ==
    ASSUME TypeOK, WakeInv, PipeBound,
           UNCHANGED <<queue, pipe, nstats, pc, hot, place, msg>>,
           stop' = stop \/ (stop' = "joined" /\ stop = "wait")
              \/ (stop = "no" /\ stop' = "flagged")
    PROVE  WakeInv' /\ PipeBound'
BY BusyFrame DEF WakeInv, PipeBound, Pending, Extra, Left

LEMMA WakeUsers ==
    ASSUME TypeOK, WakeInv, PipeBound,
           Dci_Broadcast \/ StatsLock \/ StatsRead \/ StopFlag \/ StopTrigger
              \/ StopJoin
    PROVE  WakeInv' /\ PipeBound'
<1>0. /\ pipe \in Nat /\ nstats \in Nat /\ queue \in Seq(Msgs)
      /\ UNCHANGED <<pc, hot, place, msg>>
    BY BroadcastAssumption DEF TypeOK, QueueType, OtherType, Dci_Broadcast, Enqueued,
       StatsLock, StatsRead, StopFlag, StopTrigger, StopJoin, threadVars,
       clientVars
<1>1. CASE Dci_Broadcast
  <2>1. UNCHANGED <<nstats, stop>>
    BY <1>1 DEF Dci_Broadcast, Enqueued, otherVars
  <2>2. CASE UNCHANGED <<queue, pipe>>
    BY <1>0, <2>1, <2>2, WakeQuiet
  <2>3. CASE queue' = Append(queue, nmsg')
    <3>1. /\ pipe' = IF queue = <<>> THEN pipe + 1 ELSE pipe
      BY <1>1, <2>3, <1>0 DEF Dci_Broadcast, Enqueued, Triggers
    <3>2. queue' # <<>>
      BY <1>0, <2>3
    <3>3. WakeInv'
      BY <1>0, <3>1, BusyFrame DEF WakeInv
    <3>4. PipeBound'
      BY <1>0, <2>1, <3>1, <3>2 DEF PipeBound, Pending, Extra, Left
    <3> QED BY <3>3, <3>4
  <2> QED BY <1>1, <2>2, <2>3 DEF Dci_Broadcast, Enqueued
<1>2. CASE StatsLock
  <2>1. queue' = queue /\ pipe' = pipe + 1 /\ nstats' = nstats + 1 /\ stop' = stop
    BY <1>2 DEF StatsLock
  <2> QED BY <1>0, <2>1 DEF WakeInv, PipeBound, Pending, Extra, Left
<1>3. CASE StopTrigger
  <2>1. /\ queue' = queue /\ pipe' = pipe + 1 /\ nstats' = nstats
        /\ stop = "flagged" /\ stop' = "wait"
    BY <1>3 DEF StopTrigger
  <2> QED BY <1>0, <2>1 DEF WakeInv, PipeBound, Pending, Extra, Left
<1>4. CASE StatsRead \/ StopFlag \/ StopJoin
    BY <1>0, <1>4, WakeQuiet DEF StatsRead, StopFlag, StopJoin, queueVars
<1> QED BY <1>1, <1>2, <1>3, <1>4

LEMMA WakeLoop ==
    ASSUME TypeOK, WakeInv, PipeBound,
           TopRetry \/ TopSkip \/ Poll \/ VerifyEnd \/ NextMsg \/ Stopping
    PROVE  WakeInv' /\ PipeBound'
<1>0. /\ pipe \in Nat /\ nstats \in Nat /\ queue \in Seq(Msgs)
      /\ UNCHANGED <<nstats, stop>>
    BY BroadcastAssumption DEF TypeOK, QueueType, OtherType, TopRetry, TopSkip,
       Poll, VerifyEnd, NextMsg, Stopping, otherVars
<1>1. CASE TopRetry \/ TopSkip
  <2>1. /\ UNCHANGED <<queue, pipe, hot, msg>> /\ pc = "top" /\ pc' = "poll"
        /\ Active \subseteq Active'
    BY <1>1 DEF TopRetry, TopSkip, queueVars, clientVars, Active
  <2>2. Busy => Busy'
    BY <2>1 DEF Busy
  <2> QED BY <1>0, <2>1, <2>2 DEF WakeInv, PipeBound, Pending, Extra, Left
<1>2. CASE Poll
  <2>1. /\ queue' = queue /\ pc = "poll" /\ pc' = "verify"
        /\ pipe' = IF pipe > 0 THEN pipe - 1 ELSE pipe
    BY <1>2 DEF Poll, Drained
  <2> QED BY <1>0, <2>1 DEF WakeInv, PipeBound, Pending, Extra, Left
<1>3. CASE VerifyEnd
  <2>1. /\ UNCHANGED <<queue, pipe, hot, place, msg>>
        /\ pc = "verify" /\ pc' = IF Busy THEN "top" ELSE "next"
    BY <1>3 DEF VerifyEnd, queueVars, clientVars
  <2> QED BY <1>0, <2>1, BusyFrame DEF WakeInv, PipeBound, Pending, Extra, Left
<1>4. CASE NextMsg \/ Stopping
  <2>1. /\ pipe' = pipe /\ pc = "next" /\ pc' \in {"top", "done"}
        /\ queue' # <<>> => hot' \/ pc' = "done"
    BY <1>0, <1>4 DEF NextMsg, Stopping
  <2> QED BY <1>0, <2>1 DEF WakeInv, PipeBound, Pending, Extra, Left
<1> QED BY <1>1, <1>2, <1>3, <1>4

LEMMA WakeOther ==
    ASSUME TypeOK, WakeInv, PipeBound,
           \/ \E c \in Clients : ClientStep(c)
           \/ \E k \in Conns : \/ RecvAccept(k) \/ Refuse(k) \/ Break(k)
                               \/ RecvExit(k) \/ RecvStep(k)
    PROVE  WakeInv' /\ PipeBound'
<1>1. CASE \E c \in Clients : ClientStep(c)
  <2>1. PICK c \in Clients : Verify(c)
    BY <1>1 DEF ClientStep, VerifyConnected, VerifyRefused, VerifyDropped,
       VerifySendFail, VerifySendPart, VerifySendDone, VerifyLoginDone,
       VerifyTimeout, VerifyNothing
  <2>2. UNCHANGED <<queue, pipe, nstats, stop, pc>> /\ pc = "verify"
    BY <2>1 DEF Verify, otherVars
  <2> QED BY <2>2 DEF WakeInv, PipeBound, Pending, Extra, Left
<1>2. CASE \E k \in Conns : \/ RecvAccept(k) \/ Refuse(k) \/ Break(k)
                            \/ RecvExit(k) \/ RecvStep(k)
  <2>1. UNCHANGED <<queueVars, otherVars, threadVars, clientVars>>
    BY <1>2 DEF RecvAccept, Refuse, Break, RecvExit, RecvStep, RecvEnd,
       RecvLength, RecvBody, RecvLogin, RecvCall, CloseRecv
  <2> QED BY <2>1, WakeQuiet DEF queueVars, otherVars, threadVars, clientVars
<1> QED BY <1>1, <1>2

LEMMA WakeAlways == Spec => [](TypeOK /\ WakeInv /\ PipeBound)
<1>1. Init => WakeInv /\ PipeBound
    BY DEF Init, WakeInv, PipeBound, Pending, Extra, Left
<1>2. TypeOK /\ WakeInv /\ PipeBound /\ [Next]_vars => WakeInv' /\ PipeBound'
  <2> SUFFICES ASSUME TypeOK, WakeInv, PipeBound, [Next]_vars
               PROVE  WakeInv' /\ PipeBound'
    OBVIOUS
  <2>1. CASE UNCHANGED vars
    BY <2>1, WakeQuiet DEF vars, queueVars, otherVars, threadVars, clientVars
  <2>2. CASE Next
    BY <2>2, WakeUsers, WakeLoop, WakeOther DEF Next, BroadcasterStep
  <2> QED BY <2>1, <2>2
<1> QED BY <1>1, <1>2, BroadcastTypeCorrect, PTL DEF Spec

\* No lost wakeup: DciBroadcaster never sleeps without a limit on a queue that
\* Dci_Broadcast has put a message in, unless a client is still sending.
THEOREM QueueAlwaysSeen == Spec => []QueueSeen
<1>1. WakeInv => QueueSeen
    BY DEF WakeInv, QueueSeen, Forever
<1> QED BY <1>1, WakeAlways, PTL

\* The trigger pipe holds at most two bytes of Dci_Broadcast, however many
\* messages are broadcast, so TriggerBroadcaster does not block.
THEOREM PipeAlwaysBounded == Spec => []PipeBound
BY WakeAlways, PTL

-----------------------------------------------------------------------------
(* Reference counts.                                                       *)

\* Messages in use were broadcast, the queue has no message twice, a client
\* that is not connected sends nothing, and a pass is over active clients.
QueueInv ==
    /\ IsInjective(queue)
    /\ \A m \in Range(queue) : m <= nmsg
ClientInv ==
    /\ \A c \in Clients : msg[c] \in Msgs => msg[c] <= nmsg
    /\ \A c \in Clients :
          place[c] = "retry" \/ state[c] = "CONNECT" => msg[c] = NoMsg
    /\ pc = "next" => \A c \in Clients : msg[c] = NoMsg
    /\ \A c \in todo : place[c] = "active"
    /\ pc # "verify" => todo = {}
RefInv == QueueInv /\ ClientInv /\ RefExact

Queued(m) == IF m \in Range(queue) THEN 1 ELSE 0

LEMMA UsersFinite ==
    ASSUME NEW m
    PROVE  IsFiniteSet(Users(m)) /\ Cardinality(Users(m)) \in Nat
<1>1. Users(m) \subseteq Clients BY DEF Users
<1> QED BY <1>1, BroadcastAssumption, FS_Subset, FS_CardinalityType

\* MsgDone, or the start of a login or initial message, by one client.
LEMMA RefClient ==
    ASSUME TypeOK, RefExact, NEW c \in Clients, NEW x, x \notin Msgs,
           msg' = [msg EXCEPT ![c] = x], ref' = Decr(msg[c]), queue' = queue
    PROVE  RefExact'
<1>0. ref \in [Msgs -> Int] /\ msg \in [Clients -> Sent \cup {NoMsg}]
    BY DEF TypeOK, QueueType, ClientType
<1> SUFFICES ASSUME NEW m \in Msgs
             PROVE  ref'[m] = Cardinality(Users(m)') + Queued(m)'
    BY DEF RefExact, Queued
<1>1. Queued(m)' = Queued(m) /\ Queued(m) \in Nat
    BY DEF Queued
<1>2. ref[m] = Cardinality(Users(m)) + Queued(m)
    BY DEF RefExact, Queued
<1>3. Users(m)' = Users(m) \ {c}
    BY <1>0 DEF Users
<1>4. CASE msg[c] = m
  <2>1. c \in Users(m) BY <1>4 DEF Users
  <2>2. Cardinality(Users(m) \ {c}) = Cardinality(Users(m)) - 1
    BY <2>1, UsersFinite, FS_RemoveElement
  <2>3. ref'[m] = ref[m] - 1
    BY <1>0, <1>4 DEF Decr
  <2> QED BY <1>1, <1>2, <1>3, <2>2, <2>3, UsersFinite
<1>5. CASE msg[c] # m
  <2>1. Users(m) \ {c} = Users(m) BY <1>5 DEF Users
  <2>2. ref'[m] = ref[m]
    BY <1>0, <1>5 DEF Decr
  <2> QED BY <1>1, <1>2, <1>3, <2>1, <2>2
<1> QED BY <1>4, <1>5

LEMMA RefFrame ==
    ASSUME RefExact, UNCHANGED <<ref, msg, queue>>
    PROVE  RefExact'
BY DEF RefExact, Users

LEMMA RefClientStep ==
    ASSUME TypeOK, RefInv, NEW c \in Clients, ClientStep(c)
    PROVE  RefInv'
<1>0. /\ msg \in [Clients -> Sent \cup {NoMsg}]
      /\ place \in [Clients -> {"active", "retry"}]
      /\ state \in [Clients -> {"CONNECT", "LOGIN", "READY"}]
    BY DEF TypeOK, ClientType
<1>1. Verify(c)
    BY DEF ClientStep, VerifyConnected, VerifyRefused, VerifyDropped,
       VerifySendFail, VerifySendPart, VerifySendDone, VerifyLoginDone,
       VerifyTimeout, VerifyNothing
<1>2. /\ UNCHANGED <<queue, nmsg, pc>> /\ pc = "verify"
      /\ c \in todo /\ todo' = todo \ {c} /\ todo \subseteq Clients
    BY <1>1 DEF Verify, TypeOK, ThreadType
<1>3. QueueInv'
    BY <1>2 DEF RefInv, QueueInv
<1>4. ASSUME NEW x \in {NoMsg, Login, InitMsg}, StartMsg(c, x),
             \A d \in Clients : d # c => place'[d] = place[d] /\ state'[d] = state[d],
             place'[c] = "retry" \/ state'[c] = "CONNECT" => x = NoMsg
      PROVE  ClientInv'
    BY <1>0, <1>2, <1>4, Constants DEF RefInv, ClientInv, StartMsg
<1>5. ASSUME NEW x \in {NoMsg, Login, InitMsg}, StartMsg(c, x), ref' = Decr(msg[c])
      PROVE  RefExact'
    BY <1>2, <1>5, RefClient, Constants DEF RefInv, StartMsg
<1>6. CASE VerifyConnected(c)
  <2>1. /\ StartMsg(c, Login) /\ ref' = ref /\ place' = place
        /\ state' = [state EXCEPT ![c] = "LOGIN"] /\ state[c] = "CONNECT"
        /\ c \in todo
    BY <1>6 DEF VerifyConnected, Connecting, Verify
  <2>2. msg[c] = NoMsg /\ Decr(msg[c]) = ref
    BY <2>1, Constants DEF RefInv, ClientInv, Decr
  <2>3. RefExact' BY <1>5, <2>1, <2>2
  <2>4. place[c] = "active"
    BY <2>1 DEF RefInv, ClientInv
  <2>5. ClientInv' BY <1>0, <1>4, <2>1, <2>4
  <2> QED BY <1>3, <2>3, <2>5 DEF RefInv
<1>7. CASE VerifyRefused(c) \/ VerifyDropped(c) \/ VerifySendFail(c)
  <2>1. /\ StartMsg(c, NoMsg) /\ ref' = Decr(msg[c]) /\ state' = state
        /\ place' = [place EXCEPT ![c] = "retry"]
    BY <1>7 DEF VerifyRefused, VerifyDropped, VerifySendFail, RetryClient, MsgDone
  <2>2. ClientInv' BY <1>0, <1>4, <2>1
  <2> QED BY <1>3, <1>5, <2>1, <2>2 DEF RefInv
<1>8. CASE VerifySendPart(c) \/ VerifyNothing(c)
  <2>1. UNCHANGED <<ref, msg, place, state>>
    BY <1>8 DEF VerifySendPart, VerifyNothing
  <2>2. ClientInv' BY <1>2, <2>1 DEF RefInv, ClientInv
  <2> QED BY <1>2, <1>3, <2>1, <2>2, RefFrame DEF RefInv
<1>9. CASE VerifySendDone(c)
  <2>1. /\ StartMsg(c, NoMsg) /\ ref' = Decr(msg[c]) /\ UNCHANGED <<place, state>>
    BY <1>9 DEF VerifySendDone, MsgDone
  <2>2. ClientInv' BY <1>0, <1>4, <2>1
  <2> QED BY <1>3, <1>5, <2>1, <2>2 DEF RefInv
<1>10. CASE VerifyLoginDone(c)
  <2>1. PICK x \in {NoMsg, InitMsg} : StartMsg(c, x)
    BY <1>10 DEF VerifyLoginDone
  <2>2. /\ ref' = Decr(msg[c]) /\ place' = place /\ msg[c] # NoMsg
        /\ state' = [state EXCEPT ![c] = "READY"]
    BY <1>10 DEF VerifyLoginDone, Sending
  <2>3. place[c] # "retry"
    BY <2>2 DEF RefInv, ClientInv
  <2>4. ClientInv' BY <1>0, <1>4, <2>1, <2>2, <2>3
  <2> QED BY <1>3, <1>5, <2>1, <2>2, <2>4 DEF RefInv
<1>11. CASE VerifyTimeout(c)
  <2>1. /\ StartMsg(c, NoMsg) /\ ref' = Decr(msg[c]) /\ place' = place
        /\ state' = [state EXCEPT ![c] = "CONNECT"]
    BY <1>11 DEF VerifyTimeout, MsgDone
  <2>2. ClientInv' BY <1>0, <1>4, <2>1
  <2> QED BY <1>3, <1>5, <2>1, <2>2 DEF RefInv
<1> QED BY <1>6, <1>7, <1>8, <1>9, <1>10, <1>11 DEF ClientStep

\* The steps that leave the messages, the clients and the loop alone.
LEMMA RefQuiet ==
    ASSUME RefInv, UNCHANGED <<queue, ref, nmsg, pc, todo, place, state, msg>>
    PROVE  RefInv'
BY RefFrame DEF RefInv, QueueInv, ClientInv

LEMMA RefUsers ==
    ASSUME TypeOK, RefInv,
           Dci_Broadcast \/ StatsLock \/ StatsRead \/ StopFlag \/ StopTrigger
              \/ StopJoin
    PROVE  RefInv'
<1>0. UNCHANGED <<pc, todo, place, state, msg>>
    BY DEF Dci_Broadcast, Enqueued, StatsLock, StatsRead, StopFlag, StopTrigger, StopJoin,
       threadVars, clientVars
<1>1. CASE UNCHANGED <<queue, ref, nmsg>>
    BY <1>0, <1>1, RefQuiet
<1>2. CASE Dci_Broadcast
  <2>1. /\ nmsg' = nmsg + 1 /\ nmsg' \in Msgs /\ nmsg \in Nat
        /\ queue \in Seq(Msgs) /\ ref \in [Msgs -> Int]
        /\ msg \in [Clients -> Sent \cup {NoMsg}]
    BY <1>2, BroadcastAssumption DEF Dci_Broadcast, Enqueued, TypeOK, QueueType,
       ClientType, Msgs
  <2>2. ClientInv'
    BY <1>0, <2>1 DEF RefInv, ClientInv, Msgs
  <2>3. Range(queue) \subseteq Msgs
    BY <2>1 DEF Range
  <2>4. nmsg' \notin Range(queue)
    BY <2>1, <2>3 DEF RefInv, QueueInv, Msgs
  <2>5. CASE UNCHANGED <<queue, ref>>
    <3>1. QueueInv'
      BY <2>1, <2>3, <2>5 DEF RefInv, QueueInv, Msgs
    <3> QED BY <1>0, <2>2, <2>5, <3>1, RefFrame DEF RefInv
  <2>6. CASE queue' = Append(queue, nmsg') /\ ref' = [ref EXCEPT ![nmsg'] = 1]
    <3>1. IsInjective(queue') /\ Range(queue') = Range(queue) \cup {nmsg'}
      BY <2>1, <2>4, <2>6, AppendList DEF RefInv, QueueInv
    <3>2. QueueInv'
      BY <2>1, <2>3, <3>1 DEF RefInv, QueueInv, Msgs
    <3>3. RefExact'
      <4> SUFFICES ASSUME NEW m \in Msgs
                   PROVE  ref'[m] = Cardinality(Users(m)') + Queued(m)'
        BY DEF RefExact, Queued
      <4>1. Users(m)' = Users(m) BY <1>0 DEF Users
      <4>2. ref[m] = Cardinality(Users(m)) + Queued(m)
        BY DEF RefInv, RefExact, Queued
      <4>3. CASE m = nmsg'
        <5>1. Users(m) = {}
          BY <2>1, <4>3 DEF Users, RefInv, ClientInv, Msgs
        <5>2. Cardinality(Users(m)) = 0 BY <5>1, FS_EmptySet
        <5>3. Queued(m)' = 1 BY <3>1, <4>3 DEF Queued
        <5>4. ref'[m] = 1 BY <2>1, <2>6, <4>3
        <5> QED BY <4>1, <5>2, <5>3, <5>4
      <4>4. CASE m # nmsg'
        <5>1. Queued(m)' = Queued(m) BY <3>1, <4>4 DEF Queued
        <5>2. ref'[m] = ref[m] BY <2>1, <2>6, <4>4
        <5> QED BY <4>1, <4>2, <5>1, <5>2
      <4> QED BY <4>3, <4>4
    <3> QED BY <2>2, <3>2, <3>3 DEF RefInv
  <2> QED BY <1>2, <2>5, <2>6 DEF Dci_Broadcast, Enqueued
<1> QED BY <1>1, <1>2 DEF StatsLock, StatsRead, StopFlag, StopTrigger, StopJoin,
     queueVars

LEMMA RefNext ==
    ASSUME TypeOK, RefInv, NextMsg, queue # <<>>
    PROVE  RefInv'
<1> DEFINE h == Head(queue)
           n == Cardinality(Targets)
<1>1. /\ queue \in Seq(Msgs) /\ ref \in [Msgs -> Int] /\ nmsg \in Int
      /\ msg \in [Clients -> Sent \cup {NoMsg}]
    BY DEF TypeOK, QueueType, ClientType
<1>2. /\ queue' = Tail(queue) /\ UNCHANGED <<nmsg, todo, place, state>>
      /\ ref' = [ref EXCEPT ![h] = @ + n - 1]
      /\ msg' = [c \in Clients |-> IF c \in Targets THEN h ELSE msg[c]]
      /\ pc = "next" /\ pc' = "top"
    BY DEF NextMsg
<1>3. /\ h \in Range(queue) /\ h \in Msgs /\ IsInjective(queue')
      /\ Range(queue') = Range(queue) \ {h}
    BY <1>1, <1>2, TailList DEF RefInv, QueueInv
<1>4. Targets \subseteq Clients /\ n \in Nat
  <2>1. Targets \subseteq Clients BY DEF Targets, Active
  <2> QED BY <2>1, BroadcastAssumption, FS_Subset, FS_CardinalityType
<1> HIDE DEF h
<1>5. QueueInv'
    BY <1>2, <1>3 DEF RefInv, QueueInv
<1>6. ClientInv'
  <2>1. h <= nmsg BY <1>3 DEF RefInv, QueueInv
  <2>2. \A c \in Targets : place[c] = "active" /\ state[c] # "CONNECT"
    BY DEF Targets, Active
  <2> QED BY <1>2, <1>3, <2>1, <2>2 DEF RefInv, ClientInv
<1>7. RefExact'
  <2> SUFFICES ASSUME NEW m \in Msgs
               PROVE  ref'[m] = Cardinality(Users(m)') + Queued(m)'
    BY DEF RefExact, Queued
  <2>1. \A c \in Clients : msg[c] = NoMsg
    BY <1>2 DEF RefInv, ClientInv
  <2>2. Users(m) = {} BY <2>1, Constants DEF Users
  <2>3. ref[m] = Queued(m)
    <3>1. ref[m] = Cardinality(Users(m)) + Queued(m)
      BY DEF RefInv, RefExact, Queued
    <3>2. Queued(m) \in Nat BY DEF Queued
    <3> QED BY <2>2, <3>1, <3>2, FS_EmptySet
  <2>4. CASE m = h
    <3>1. Users(m)' = Targets
      BY <1>2, <1>4, <2>1, <2>4, Constants DEF Users
    <3>2. Queued(m)' = 0 /\ Queued(m) = 1
      BY <1>3, <2>4 DEF Queued
    <3>3. ref'[m] = ref[m] + n - 1
      BY <1>1, <1>2, <2>4
    <3> QED BY <1>4, <2>3, <3>1, <3>2, <3>3
  <2>5. CASE m # h
    <3>1. Users(m)' = {}
      BY <1>2, <2>1, <2>5, Constants DEF Users
    <3>2. Queued(m)' = Queued(m) /\ Queued(m) \in Nat
      BY <1>3, <2>5 DEF Queued
    <3>3. ref'[m] = ref[m]
      BY <1>1, <1>2, <2>5
    <3>4. Cardinality(Users(m)') = 0 BY <3>1, FS_EmptySet
    <3> QED BY <2>3, <3>2, <3>3, <3>4
  <2> QED BY <2>4, <2>5
<1> QED BY <1>5, <1>6, <1>7 DEF RefInv

LEMMA RefLoop ==
    ASSUME TypeOK, RefInv,
           TopRetry \/ TopSkip \/ Poll \/ VerifyEnd \/ NextMsg \/ Stopping
    PROVE  RefInv'
<1>0. /\ place \in [Clients -> {"active", "retry"}] /\ todo \subseteq Clients
    BY DEF TypeOK, ClientType, ThreadType
<1>1. CASE TopRetry
  <2>1. /\ UNCHANGED <<queue, ref, nmsg, todo, msg>> /\ pc = "top" /\ pc' = "poll"
    BY <1>1 DEF TopRetry, queueVars
  <2>2. PICK S \in SUBSET Retrying :
          /\ place' = [c \in Clients |-> IF c \in S THEN "active" ELSE place[c]]
          /\ state' = [c \in Clients |-> IF c \in S THEN "CONNECT" ELSE state[c]]
    BY <1>1 DEF TopRetry
  <2>3. \A c \in S : place[c] = "retry"
    BY <1>0, <2>2 DEF Retrying, Active
  <2>4. QueueInv' BY <2>1 DEF RefInv, QueueInv
  <2>5. ClientInv' BY <1>0, <2>1, <2>2, <2>3 DEF RefInv, ClientInv
  <2> QED BY <2>1, <2>4, <2>5, RefFrame DEF RefInv
<1>2. CASE TopSkip
  <2>1. /\ UNCHANGED <<queue, ref, nmsg, todo, place, state, msg>>
        /\ pc = "top" /\ pc' = "poll"
    BY <1>2 DEF TopSkip, queueVars, clientVars
  <2> QED BY <2>1, RefFrame DEF RefInv, QueueInv, ClientInv
<1>3. CASE Poll
  <2>1. /\ UNCHANGED <<queue, ref, nmsg, place, state, msg>>
        /\ todo' = Active /\ pc = "poll" /\ pc' = "verify"
    BY <1>3 DEF Poll
  <2> QED BY <2>1, RefFrame DEF RefInv, QueueInv, ClientInv, Active
<1>4. CASE VerifyEnd
  <2>1. /\ UNCHANGED <<queue, ref, nmsg, todo, place, state, msg>> /\ todo = {}
        /\ pc' = IF Busy THEN "top" ELSE "next"
    BY <1>4 DEF VerifyEnd, queueVars, clientVars
  <2>2. ~Busy => \A c \in Clients : msg[c] = NoMsg
    BY <1>0 DEF Busy, Active, RefInv, ClientInv
  <2> QED BY <2>1, <2>2, RefFrame DEF RefInv, QueueInv, ClientInv
<1>5. CASE NextMsg
  <2>1. CASE queue = <<>>
    <3>1. /\ UNCHANGED <<queue, ref, nmsg, todo, place, state, msg>>
          /\ pc = "next" /\ pc' = "top"
      BY <1>5, <2>1 DEF NextMsg
    <3> QED BY <3>1, RefFrame DEF RefInv, QueueInv, ClientInv
  <2> QED BY <1>5, <2>1, RefNext
<1>6. CASE Stopping
  <2>1. /\ queue' = <<>> /\ UNCHANGED <<nmsg, todo, state, msg>>
        /\ ref' = [m \in Msgs |-> IF m \in Range(queue) THEN ref[m] - 1 ELSE ref[m]]
        /\ place' = [c \in Clients |-> "retry"] /\ pc = "next" /\ pc' = "done"
    BY <1>6 DEF Stopping
  <2>2. QueueInv'
    BY <2>1, EmptyList DEF QueueInv
  <2>3. \A c \in Clients : msg[c] = NoMsg
    BY <2>1 DEF RefInv, ClientInv
  <2>4. ClientInv'
    BY <2>1, <2>3 DEF RefInv, ClientInv
  <2>5. RefExact'
    <3> SUFFICES ASSUME NEW m \in Msgs
                 PROVE  ref'[m] = Cardinality(Users(m)') + Queued(m)'
      BY DEF RefExact, Queued
    <3>1. Users(m)' = Users(m) /\ Queued(m)' = 0
      BY <2>1, EmptyList DEF Users, Queued
    <3>2. ref[m] = Cardinality(Users(m)) + Queued(m)
      BY DEF RefInv, RefExact, Queued
    <3>3. ref'[m] = ref[m] - Queued(m)
      <4>1. ref[m] \in Int BY DEF TypeOK, QueueType
      <4> QED BY <2>1, <4>1 DEF Queued
    <3>4. Queued(m) \in Nat BY DEF Queued
    <3> QED BY <3>1, <3>2, <3>3, <3>4, UsersFinite
  <2> QED BY <2>2, <2>4, <2>5 DEF RefInv
<1> QED BY <1>1, <1>2, <1>3, <1>4, <1>5, <1>6

LEMMA RefInvariant == Spec => []RefInv
<1>1. Init => RefInv
  <2> SUFFICES ASSUME Init PROVE RefInv
    OBVIOUS
  <2>1. QueueInv BY EmptyList DEF Init, QueueInv
  <2>2. ClientInv
    <3>1. /\ \A c \in Clients : msg[c] = NoMsg
          /\ pc = "top" /\ todo = {}
      BY DEF Init
    <3> QED BY <3>1, Constants DEF ClientInv
  <2>3. ASSUME NEW m \in Msgs PROVE ref[m] = Cardinality(Users(m)) + Queued(m)
    <3>1. Users(m) = {}
      <4>1. \A c \in Clients : msg[c] = NoMsg BY DEF Init
      <4> QED BY <4>1, Constants DEF Users
    <3>2. Cardinality(Users(m)) = 0 BY <3>1, FS_EmptySet
    <3>3. Queued(m) = 0 BY EmptyList DEF Init, Queued
    <3> QED BY <3>2, <3>3 DEF Init
  <2> QED BY <2>1, <2>2, <2>3 DEF RefInv, RefExact, Queued
<1>2. TypeOK /\ RefInv /\ [Next]_vars => RefInv'
  <2> SUFFICES ASSUME TypeOK, RefInv, [Next]_vars PROVE RefInv'
    OBVIOUS
  <2>1. CASE UNCHANGED vars
    BY <2>1, RefQuiet DEF vars, queueVars, threadVars, clientVars
  <2>2. ASSUME NEW k \in Conns, \/ RecvAccept(k) \/ Refuse(k) \/ Break(k)
                                \/ RecvExit(k) \/ RecvStep(k)
        PROVE  RefInv'
    <3>1. UNCHANGED <<queueVars, threadVars, clientVars>>
      BY <2>2 DEF RecvAccept, Refuse, Break, RecvExit, RecvStep, RecvEnd,
         RecvLength, RecvBody, RecvLogin, RecvCall, CloseRecv
    <3> QED BY <3>1, RefQuiet DEF queueVars, threadVars, clientVars
  <2>3. CASE Next
    BY <2>2, <2>3, RefUsers, RefLoop, RefClientStep DEF Next, BroadcasterStep
  <2> QED BY <2>1, <2>3
<1> QED BY <1>1, <1>2, BroadcastTypeCorrect, PTL DEF Spec

\* The reference count of every message is the number of its users, through
\* MsgSend, MsgDone, RetryClient, Dci_Broadcast and the end of the thread: no
\* message is freed while it is sent, and none is leaked.
THEOREM RefAlwaysExact == Spec => []RefExact
<1>1. RefInv => RefExact
    BY DEF RefInv
<1> QED BY <1>1, RefInvariant, PTL

-----------------------------------------------------------------------------
(* The frames a receiver takes, and the log it is given.                   *)

\* The initProc always returns a message.
InitAlways == InitResults = {"msg"}

\* Message b may come after message a over a connection whose initial message
\* was made when s messages had been broadcast; NoMsg stands for its start.
Link(a, b, s) ==
    \/ a = NoMsg /\ b = Login
    \/ a = Login /\ b = InitMsg /\ s # NoSnap
    \/ a = Login /\ b \in Msgs /\ ~InitAlways
    \/ a = InitMsg /\ b \in Msgs /\ b <= s + 1
    \/ a \in Msgs /\ b \in Msgs /\ b = a + 1

\* Part q comes right after part p.
Follows(p, q, s) ==
    IF p[2] < Parts THEN q = <<p[1], p[2] + 1>>
                    ELSE q[2] = 1 /\ Link(p[1], q[1], s)

\* The last message and the last part a receiver has read, and the last part
\* the broadcaster has sent.
LastRead(k) == IF ~login[k] THEN NoMsg
               ELSE IF got[k] = <<>> THEN Login ELSE got[k][Len(got[k])]
At(k)       == IF frame[k] = <<>> THEN <<LastRead(k), Parts>>
                                  ELSE <<frame[k][1][1], Len(frame[k])>>
LastSent(k) == IF wire[k] = <<>> THEN At(k) ELSE wire[k][Len(wire[k])]

Broadcasted(p) == p[1] \in Msgs => p[1] <= nmsg

\* What is on its way to a receiver are the parts of whole messages that may
\* follow each other.
FrameOK(k) ==
    frame[k] # <<>> =>
        /\ want[k] = Parts - 1 /\ Len(frame[k]) <= Parts - 1
        /\ \A n \in 1..Len(frame[k]) : frame[k][n] = <<frame[k][1][1], n>>
        /\ Link(LastRead(k), frame[k][1][1], snap[k])
        /\ Broadcasted(frame[k][1])
WireOK(k) ==
    /\ wire[k] # <<>> => Follows(At(k), wire[k][1], snap[k])
    /\ \A n \in 1..Len(wire[k])-1 : Follows(wire[k][n], wire[k][n+1], snap[k])
    /\ \A n \in 1..Len(wire[k]) : Broadcasted(wire[k][n])
StreamOK(k) == FrameOK(k) /\ WireOK(k)

\* A connection before it is accepted, and what its receiver was given.
GivenOK(k) ==
    /\ k[2] > cur[k[1]] => net[k] = "unused"
    /\ net[k] \in {"unused", "syn", "refused"} => rx[k] = "none"
    /\ net[k] \in {"up", "broken"} => rx[k] # "none"
    /\ rx[k] = "none" => wire[k] = <<>> /\ frame[k] = <<>> /\ ~login[k]
    /\ ~login[k] => got[k] = <<>>
    /\ \A n \in 1..Len(got[k]) : got[k][n] \in Msgs \cup {InitMsg}
StreamInv == \A k \in Conns : GivenOK(k) /\ (rx[k] # "closed" => StreamOK(k))

\* The number of messages taken from the queue; the queue has the others.
Taken == nmsg - Len(queue)
QueueRun == ~shutdownPending =>
                \A n \in 1..Len(queue) : queue[n] = Taken + n

\* The message after m is the next one of the queue.
Due(m, s) ==
    /\ m = Login => ~InitAlways
    /\ m = InitMsg => s # NoSnap /\ Taken <= s
    /\ m \in Msgs => m = Taken

\* Where the broadcaster is with a client: before the connect and at the login,
\* and then at a part that follows the last one it has sent.
AtLogin(c, k) ==
    /\ cur[c] >= 1
    /\ state[c] = "CONNECT" => wire[k] = <<>> /\ frame[k] = <<>> /\ ~login[k]
    /\ state[c] = "LOGIN" /\ InitResults # {} => msg[c] = Login
    /\ msg[c] = Login => /\ state[c] = "LOGIN" /\ ~login[k]
                         /\ \A n \in 1..Len(wire[k]) :
                               wire[k][n][1] = Login /\ wire[k][n][2] <= off[c]
Cursor(c, k) == IF msg[c] = NoMsg THEN LastSent(k)[1] ELSE msg[c]
AtPart(c, k) ==
    state[c] # "CONNECT" /\ rx[k] # "closed" =>
        /\ msg[c] # NoMsg => /\ off[c] < Parts
                             /\ Follows(LastSent(k), <<msg[c], off[c] + 1>>, snap[k])
        /\ msg[c] = NoMsg => LastSent(k)[1] # NoMsg /\ LastSent(k)[2] = Parts
        /\ ~shutdownPending /\ msg[c] # Login => Due(Cursor(c, k), snap[k])
Sender(c) == AtLogin(c, Conn(c)) /\ AtPart(c, Conn(c))
SenderInv == \A c \in Clients : place[c] = "active" => Sender(c)

LogInv == StreamInv /\ QueueRun /\ SenderInv

LEMMA InitLog == Init => LogInv
<1> SUFFICES ASSUME Init PROVE LogInv
    OBVIOUS
<1> USE DEF Init
<1>1. StreamInv
    BY DEF StreamInv, GivenOK, StreamOK, FrameOK, WireOK
<1>2. QueueRun
    BY DEF QueueRun
<1>3. SenderInv
    BY DEF SenderInv
<1> QED BY <1>1, <1>2, <1>3 DEF LogInv

-----------------------------------------------------------------------------
(* Steps that leave a connection or a client alone.                        *)

LEMMA ConnFacts ==
    ASSUME TypeOK, NEW c \in Clients, cur[c] >= 1
    PROVE  /\ Conn(c) \in Conns /\ Conn(c)[1] = c /\ Conn(c)[2] = cur[c]
           /\ \A d \in Clients : d # c => Conn(d) # Conn(c)
BY DEF Conn, Conns, TypeOK, ClientType

LEMMA StreamTypes ==
    ASSUME TypeOK, NEW k \in Conns
    PROVE  /\ wire[k] \in Seq(Sent \X (1..Parts)) /\ Len(wire[k]) \in Nat
           /\ frame[k] \in Seq(Sent \X (1..Parts)) /\ Len(frame[k]) \in Nat
           /\ got[k] \in Seq(Sent \cup {Garbled}) /\ Len(got[k]) \in Nat
           /\ \A n \in 1..Len(wire[k]) : wire[k][n] \in Sent \X (1..Parts)
           /\ \A n \in 1..Len(frame[k]) : frame[k][n] \in Sent \X (1..Parts)
BY DEF TypeOK, NetType, RecvType, Stream

LEMMA StreamFrame ==
    ASSUME TypeOK, TypeOK', NEW k \in Conns, StreamOK(k),
           wire'[k] = wire[k], frame'[k] = frame[k], want'[k] = want[k],
           login'[k] = login[k], got'[k] = got[k], snap'[k] = snap[k],
           nmsg' >= nmsg
    PROVE  StreamOK(k)' /\ LastSent(k)' = LastSent(k)
<1>1. LastRead(k)' = LastRead(k) /\ At(k)' = At(k) /\ LastSent(k)' = LastSent(k)
    BY DEF LastRead, At, LastSent
<1>2. nmsg \in Nat /\ nmsg' \in Nat /\ \A p : p \in Msgs => p \in Nat
    BY BroadcastAssumption DEF TypeOK, QueueType, Msgs
<1>3. \A p : Broadcasted(p) => Broadcasted(p)'
    BY <1>2 DEF Broadcasted
<1>4. FrameOK(k)'
    BY <1>1, <1>3 DEF StreamOK, FrameOK
<1>5. WireOK(k)'
    BY <1>1, <1>3 DEF StreamOK, WireOK
<1> QED BY <1>1, <1>4, <1>5 DEF StreamOK

\* The messages taken from the queue, and the order of it, stay.
SameQueue == ~shutdownPending' => ~shutdownPending /\ Taken' = Taken

LEMMA SenderFrame ==
    ASSUME TypeOK, TypeOK', SameQueue, NEW c \in Clients, Sender(c),
           state'[c] = state[c], msg'[c] = msg[c], off'[c] = off[c],
           cur'[c] = cur[c], NEW k \in Conns, k = Conn(c),
           wire'[k] = wire[k], frame'[k] = frame[k], login'[k] = login[k],
           got'[k] = got[k], snap'[k] = snap[k],
           rx'[k] # "closed" => rx[k] # "closed"
    PROVE  Sender(c)'
<1>1. Conn(c)' = k /\ Conn(c) = k
    BY DEF Conn
<1>2. LastRead(k)' = LastRead(k) /\ At(k)' = At(k) /\ LastSent(k)' = LastSent(k)
    BY DEF LastRead, At, LastSent
<1>3. AtLogin(c, k)'
    BY <1>1 DEF Sender, AtLogin
<1>4. AtPart(c, k)'
  <2> SUFFICES ASSUME state'[c] # "CONNECT", rx'[k] # "closed"
               PROVE  /\ msg'[c] # NoMsg =>
                            /\ off'[c] < Parts
                            /\ Follows(LastSent(k)', <<msg'[c], off'[c] + 1>>, snap'[k])
                      /\ msg'[c] = NoMsg => LastSent(k)'[1] # NoMsg
                                            /\ LastSent(k)'[2] = Parts
                      /\ ~shutdownPending' /\ msg'[c] # Login =>
                            Due(Cursor(c, k), snap[k])'
    BY DEF AtPart
  <2>1. AtPart(c, k)
    BY <1>1 DEF Sender
  <2>2. Cursor(c, k)' = Cursor(c, k)
    BY <1>2 DEF Cursor
  <2>3. ~shutdownPending' /\ msg'[c] # Login => Due(Cursor(c, k), snap[k])'
    BY <2>1, <2>2 DEF AtPart, SameQueue, Due
  <2> QED BY <1>2, <2>1, <2>3 DEF AtPart
<1> QED BY <1>1, <1>3, <1>4 DEF Sender

\* Nothing happens to the connections.
LEMMA StreamKeep ==
    ASSUME TypeOK, TypeOK', StreamInv, nmsg' >= nmsg,
           UNCHANGED <<cur, net, wire, snap, recvVars>>
    PROVE  StreamInv'
<1>1. UNCHANGED <<rx, login, frame, want, got>>
    BY DEF recvVars
<1> SUFFICES ASSUME NEW k \in Conns
             PROVE  GivenOK(k)' /\ (rx'[k] # "closed" => StreamOK(k)')
    BY DEF StreamInv
<1>2. GivenOK(k)'
    BY <1>1 DEF StreamInv, GivenOK
<1>3. rx'[k] # "closed" => StreamOK(k)'
    BY <1>1, StreamFrame DEF StreamInv
<1> QED BY <1>2, <1>3

LEMMA SenderKeep ==
    ASSUME TypeOK, TypeOK', SenderInv, SameQueue,
           UNCHANGED <<state, msg, off, cur, wire, snap, recvVars>>,
           \A c \in Clients : place'[c] = "active" => place[c] = "active"
    PROVE  SenderInv'
<1>1. UNCHANGED <<rx, login, frame, want, got>>
    BY DEF recvVars
<1> SUFFICES ASSUME NEW c \in Clients, place'[c] = "active" PROVE Sender(c)'
    BY DEF SenderInv
<1>2. Sender(c) /\ cur[c] >= 1
    BY DEF SenderInv, Sender, AtLogin
<1>3. Conn(c) \in Conns
    BY <1>2, ConnFacts
<1> QED BY <1>1, <1>2, <1>3, SenderFrame

\* The threads that use the broadcaster.
LEMMA UserLog ==
    ASSUME TypeOK, TypeOK', LogInv,
           Dci_Broadcast \/ StatsLock \/ StatsRead \/ StopFlag \/ StopTrigger
              \/ StopJoin
    PROVE  LogInv'
<1>1. UNCHANGED <<clientVars, netVars, recvVars>>
    BY DEF Dci_Broadcast, StatsLock, StatsRead, StopFlag, StopTrigger, StopJoin
<1>2. UNCHANGED <<place, state, msg, off, cur, net, wire, snap>>
    BY <1>1 DEF clientVars, netVars
<1>3. nmsg \in Nat /\ nmsg' \in Nat /\ queue \in Seq(Msgs) /\ Len(queue) \in Nat
    BY BroadcastAssumption DEF TypeOK, QueueType
<1>4. SameQueue /\ nmsg' >= nmsg /\ QueueRun'
  <2>1. CASE Dci_Broadcast /\ ~shutdownPending
    <3>1. nmsg' = nmsg + 1 /\ queue' = Append(queue, nmsg + 1)
      BY <2>1 DEF Dci_Broadcast, Enqueued
    <3>2. /\ Len(queue') = Len(queue) + 1 /\ queue'[Len(queue) + 1] = nmsg + 1
          /\ \A n \in 1..Len(queue) : queue'[n] = queue[n]
      BY <1>3, <3>1, AppendProperties
    <3>3. Taken' = Taken /\ Taken + Len(queue) + 1 = nmsg + 1
      BY <1>3, <3>1, <3>2 DEF Taken
    <3>4. \A n \in 1..Len(queue') : queue'[n] = Taken + n
      <4>1. \A n \in 1..Len(queue) : queue[n] = Taken + n
        BY <2>1 DEF LogInv, QueueRun
      <4>2. \A n \in 1..Len(queue') : n \in 1..Len(queue) \/ n = Len(queue) + 1
        BY <1>3, <3>2
      <4>3. queue'[Len(queue) + 1] = Taken + (Len(queue) + 1)
        BY <1>3, <3>2 DEF Taken
      <4> QED BY <3>2, <4>1, <4>2, <4>3
    <3> QED BY <1>3, <2>1, <3>1, <3>3, <3>4 DEF SameQueue, QueueRun
  <2>2. CASE Dci_Broadcast /\ shutdownPending
    <3>1. nmsg' = nmsg + 1 /\ shutdownPending'
      BY <2>2 DEF Dci_Broadcast
    <3> QED BY <1>3, <3>1 DEF SameQueue, QueueRun
  <2>3. CASE ~Dci_Broadcast
    <3>1. /\ UNCHANGED <<queue, nmsg>> /\ (~shutdownPending' => ~shutdownPending)
      BY <2>3 DEF StatsLock, StatsRead, StopFlag, StopTrigger, StopJoin, queueVars
    <3> QED BY <1>3, <3>1 DEF SameQueue, QueueRun, Taken, LogInv
  <2> QED BY <2>1, <2>2, <2>3
<1>5. StreamInv'
    BY <1>1, <1>2, <1>4, StreamKeep DEF LogInv
<1>6. SenderInv'
    BY <1>1, <1>2, <1>4, SenderKeep DEF LogInv
<1> QED BY <1>4, <1>5, <1>6 DEF LogInv

-----------------------------------------------------------------------------
(* The loop of the broadcaster.                                            *)

LEMMA LastSentType ==
    ASSUME TypeOK, NEW k \in Conns, GivenOK(k), StreamOK(k)
    PROVE  /\ LastSent(k)[1] \in Sent \cup {NoMsg} /\ LastSent(k)[2] \in 1..Parts
           /\ At(k)[1] \in Sent \cup {NoMsg} /\ At(k)[2] \in 1..Parts
           /\ LastRead(k) \in Msgs \cup {Login, InitMsg, NoMsg}
<1>1. /\ Len(wire[k]) \in Nat /\ wire[k] \in Seq(Sent \X (1..Parts))
      /\ Len(frame[k]) \in Nat /\ frame[k] \in Seq(Sent \X (1..Parts))
      /\ got[k] \in Seq(Sent \cup {Garbled}) /\ Len(got[k]) \in Nat
      /\ \A n \in 1..Len(wire[k]) : wire[k][n] \in Sent \X (1..Parts)
      /\ \A n \in 1..Len(frame[k]) : frame[k][n] \in Sent \X (1..Parts)
    BY StreamTypes
<1>2. LastRead(k) \in Msgs \cup {Login, InitMsg, NoMsg}
  <2>1. got[k] # <<>> => Len(got[k]) \in 1..Len(got[k])
    BY <1>1
  <2> QED BY <2>1 DEF LastRead, GivenOK
<1>3. At(k)[1] \in Sent \cup {NoMsg} /\ At(k)[2] \in 1..Parts
  <2>1. CASE frame[k] = <<>>
    BY <1>2, <2>1, Constants DEF At, Sent
  <2>2. CASE frame[k] # <<>>
    <3>1. Len(frame[k]) \in 1..Parts /\ 1 \in 1..Len(frame[k])
      BY <1>1, <2>2, Constants DEF StreamOK, FrameOK
    <3>2. frame[k][1][1] \in Sent
      BY <1>1, <3>1
    <3> QED BY <2>2, <3>1, <3>2 DEF At
  <2> QED BY <2>1, <2>2
<1>4. LastSent(k)[1] \in Sent \cup {NoMsg} /\ LastSent(k)[2] \in 1..Parts
  <2>1. wire[k] # <<>> => Len(wire[k]) \in 1..Len(wire[k])
    BY <1>1
  <2> QED BY <1>1, <1>3, <2>1 DEF LastSent
<1> QED BY <1>2, <1>3, <1>4

LEMMA RetryLog ==
    ASSUME TypeOK, TypeOK', LogInv, ClientInv, TopRetry
    PROVE  LogInv'
<1>1. PICK S \in SUBSET {c \in Retrying : cur[c] < MaxConns} :
         /\ place' = [c \in Clients |-> IF c \in S THEN "active" ELSE place[c]]
         /\ state' = [c \in Clients |-> IF c \in S THEN "CONNECT" ELSE state[c]]
         /\ cur' = [c \in Clients |-> IF c \in S THEN cur[c] + 1 ELSE cur[c]]
         /\ net' = [k \in Conns |-> IF k[1] \in S /\ k[2] = cur[k[1]] + 1
                                    THEN "syn" ELSE net[k]]
    BY DEF TopRetry
<1>2. UNCHANGED <<queueVars, msg, off, wire, snap, rx, login, frame, want, got>>
    BY DEF TopRetry, recvVars
<1>3. UNCHANGED <<queue, nmsg, shutdownPending>>
    BY <1>2 DEF queueVars
<1>4. \A c \in S : c \in Clients /\ place[c] = "retry" /\ msg[c] = NoMsg
    BY <1>1 DEF Retrying, Active, TypeOK, ClientType, ClientInv
<1>5. \A c \in Clients : cur[c] \in Nat
    BY DEF TypeOK, ClientType
<1>6. SameQueue /\ QueueRun' /\ nmsg' >= nmsg /\ nmsg \in Nat
    BY <1>3, BroadcastAssumption
    DEF SameQueue, QueueRun, Taken, LogInv, TypeOK, QueueType
<1>7. StreamInv'
  <2> SUFFICES ASSUME NEW k \in Conns
               PROVE  GivenOK(k)' /\ (rx'[k] # "closed" => StreamOK(k)')
    BY DEF StreamInv
  <2>1. k[1] \in Clients /\ k[2] \in Nat /\ cur[k[1]] \in Nat
    BY <1>5 DEF Conns
  <2>2. GivenOK(k)
    BY DEF LogInv, StreamInv
  <2>3. net'[k] = net[k] \/ (net'[k] = "syn" /\ net[k] = "unused")
    <3>1. k[2] = cur[k[1]] + 1 => k[2] > cur[k[1]]
      BY <2>1
    <3> QED BY <1>1, <2>2, <3>1 DEF GivenOK
  <2>4. k[2] > cur'[k[1]] => net'[k] = "unused"
    <3>1. cur'[k[1]] = IF k[1] \in S THEN cur[k[1]] + 1 ELSE cur[k[1]]
      BY <1>1, <2>1
    <3>2. k[2] > cur'[k[1]] => k[2] > cur[k[1]] /\ ~(k[1] \in S /\ k[2] = cur[k[1]] + 1)
      BY <2>1, <3>1
    <3> QED BY <1>1, <2>2, <3>2 DEF GivenOK
  <2>5. GivenOK(k)'
    BY <1>2, <2>2, <2>3, <2>4 DEF GivenOK
  <2>6. rx'[k] # "closed" => StreamOK(k)'
    BY <1>2, <1>6, StreamFrame DEF LogInv, StreamInv
  <2> QED BY <2>5, <2>6
<1>8. SenderInv'
  <2> SUFFICES ASSUME NEW c \in Clients, place'[c] = "active" PROVE Sender(c)'
    BY DEF SenderInv
  <2>1. CASE c \in S
    <3>a. cur[c] + 1 \in 1..MaxConns
      BY <1>1, <1>5, <2>1, BroadcastAssumption
    <3>0. PICK k \in Conns : k = <<c, cur[c] + 1>>
      BY <3>a DEF Conns
    <3>1. k[1] = c /\ k[2] > cur[c]
      BY <1>5, <3>0
    <3>2. GivenOK(k)
      BY <3>1 DEF LogInv, StreamInv
    <3>3. wire[k] = <<>> /\ frame[k] = <<>> /\ ~login[k]
      BY <3>1, <3>2 DEF GivenOK
    <3>4. Conn(c)' = k /\ cur'[c] = cur[c] + 1 /\ state'[c] = "CONNECT"
      BY <1>1, <2>1, <3>0 DEF Conn
    <3>5. msg'[c] = NoMsg /\ msg'[c] # Login
      BY <1>2, <1>4, <2>1, Constants
    <3>6. cur'[c] >= 1
      BY <1>5, <3>4
    <3>7. AtLogin(c, k)'
      BY <1>2, <3>3, <3>4, <3>5, <3>6 DEF AtLogin
    <3>8. AtPart(c, k)'
      BY <3>4 DEF AtPart
    <3> QED BY <3>4, <3>7, <3>8 DEF Sender
  <2>2. CASE c \notin S
    <3>1. Sender(c) /\ cur[c] >= 1
      BY <1>1, <2>2 DEF LogInv, SenderInv, Sender, AtLogin
    <3>2. Conn(c) \in Conns
      BY <3>1, ConnFacts
    <3>3. state'[c] = state[c] /\ cur'[c] = cur[c]
      BY <1>1, <2>2
    <3> QED BY <1>2, <1>6, <3>1, <3>2, <3>3, SenderFrame
  <2> QED BY <2>1, <2>2
<1> QED BY <1>6, <1>7, <1>8 DEF LogInv

\* Every client that is connected is given the message that is due.
LEMMA NextLog ==
    ASSUME TypeOK, TypeOK', LogInv, ClientInv, NextMsg, queue # <<>>
    PROVE  LogInv'
<1>0. PICK m \in Msgs : m = Head(queue)
    BY DEF TypeOK, QueueType
<1>1. /\ pc = "next" /\ ~shutdownPending /\ ~shutdownPending' /\ queue' = Tail(queue)
      /\ msg' = [c \in Clients |-> IF c \in Targets THEN m ELSE msg[c]]
      /\ off' = [c \in Clients |-> IF c \in Targets THEN 0 ELSE off[c]]
      /\ UNCHANGED <<nmsg, place, state, cur, netVars, recvVars>>
    BY <1>0 DEF NextMsg
<1>2. UNCHANGED <<net, wire, snap, rx, login, frame, want, got>>
    BY <1>1 DEF netVars, recvVars
<1>3. /\ nmsg \in Nat /\ queue \in Seq(Msgs) /\ Len(queue) \in Nat \ {0}
      /\ m = queue[1] /\ m \in Msgs /\ Len(Tail(queue)) = Len(queue) - 1
      /\ \A n \in 1..(Len(queue) - 1) : Tail(queue)[n] = queue[n + 1]
    BY <1>0, BroadcastAssumption DEF TypeOK, QueueType
<1>4. \A n \in 1..Len(queue) : queue[n] = Taken + n
    BY <1>1 DEF LogInv, QueueRun
<1>5. m = Taken + 1 /\ Taken' = Taken + 1 /\ Taken \in Int
    BY <1>1, <1>3, <1>4 DEF Taken
<1>6. QueueRun'
  <2>1. \A n \in 1..Len(queue') : queue'[n] = Taken + (n + 1)
    BY <1>1, <1>3, <1>4
  <2> QED BY <1>5, <1>1, <1>3, <2>1 DEF QueueRun
<1>7. StreamInv'
    BY <1>1, <1>2, <1>3, StreamKeep DEF LogInv
<1>8. SenderInv'
  <2> SUFFICES ASSUME NEW c \in Clients, place'[c] = "active" PROVE Sender(c)'
    BY DEF SenderInv
  <2>1. Sender(c) /\ cur[c] >= 1 /\ msg[c] = NoMsg
    BY <1>1 DEF LogInv, SenderInv, Sender, AtLogin, ClientInv
  <2>2. PICK k \in Conns : k = Conn(c) /\ Conn(c)' = k
    BY <1>1, <2>1, ConnFacts DEF Conn
  <2>3. AtLogin(c, k) /\ AtPart(c, k)
    BY <2>1, <2>2 DEF Sender
  <2>4. CASE state[c] = "CONNECT"
    <3>1. c \notin Targets
      BY <2>4 DEF Targets
    <3>2. msg'[c] = msg[c] /\ off'[c] = off[c]
      BY <1>1, <3>1
    <3>3. AtLogin(c, k)'
      BY <1>1, <1>2, <2>3, <3>2 DEF AtLogin
    <3>4. AtPart(c, k)'
      BY <1>1, <2>4 DEF AtPart
    <3> QED BY <2>2, <3>3, <3>4 DEF Sender
  <2>5. CASE state[c] # "CONNECT"
    <3>1. c \in Targets
      BY <1>1, <2>5 DEF Targets, Active
    <3>2. msg'[c] = m /\ off'[c] = 0 /\ m # NoMsg /\ m # Login /\ m # InitMsg
      BY <1>1, <1>3, <3>1, Constants
    <3>3. AtLogin(c, k)'
      BY <1>1, <1>2, <2>1, <2>3, <2>5, <3>2, Constants DEF AtLogin
    <3>4. ASSUME rx[k] # "closed"
          PROVE  /\ Follows(LastSent(k)', <<m, 0 + 1>>, snap'[k])
                 /\ Due(m, snap[k])'
      <4>1. LastSent(k)' = LastSent(k)
        BY <1>2 DEF LastSent, At, LastRead
      <4>2. /\ LastSent(k)[1] # NoMsg /\ LastSent(k)[2] = Parts
            /\ Due(LastSent(k)[1], snap[k])
        BY <1>1, <2>1, <2>3, <2>5, <3>4, Constants DEF AtPart, Cursor
      <4>3. LastSent(k)[1] \in Sent
        BY <2>2, <3>4, <4>2, LastSentType DEF LogInv, StreamInv
      <4>4. snap[k] \in Nat
        BY <2>2, Constants, BroadcastAssumption DEF TypeOK, NetType, NoSnap
      <4>5. Link(LastSent(k)[1], m, snap[k])
        <5>1. CASE LastSent(k)[1] = Login
          BY <1>3, <4>2, <5>1 DEF Link, Due
        <5>2. CASE LastSent(k)[1] = InitMsg
          <6>1. m <= snap[k] + 1
            BY <1>5, <4>2, <4>4, <5>2 DEF Due
          <6> QED BY <1>3, <5>2, <6>1 DEF Link
        <5>3. CASE LastSent(k)[1] \in Msgs
          BY <1>3, <1>5, <4>2, <5>3 DEF Link, Due
        <5> QED BY <4>3, <5>1, <5>2, <5>3 DEF Sent
      <4>6. Follows(LastSent(k), <<m, 0 + 1>>, snap[k])
        <5>1. ~(LastSent(k)[2] < Parts)
          BY <4>2, Constants
        <5> QED BY <4>5, <5>1 DEF Follows
      <4>7. Due(m, snap[k])'
        BY <1>3, <1>5, <3>2 DEF Due
      <4> QED BY <1>2, <4>1, <4>6, <4>7
    <3>5. AtPart(c, k)'
      <4>1. rx'[k] = rx[k] /\ 0 < Parts
        BY <1>2, Constants
      <4>2. rx[k] # "closed" => Due(Cursor(c, k), snap[k])'
        BY <3>2, <3>4 DEF Cursor
      <4> QED BY <3>2, <3>4, <4>1, <4>2 DEF AtPart
    <3> QED BY <2>2, <3>3, <3>5 DEF Sender
  <2> QED BY <2>4, <2>5
<1> QED BY <1>6, <1>7, <1>8 DEF LogInv

\* A step that changes nothing the invariant speaks of.
LEMMA QuietLog ==
    ASSUME TypeOK, TypeOK', LogInv,
           UNCHANGED <<queue, nmsg, shutdownPending, place, state, msg, off,
                       cur, net, wire, snap, recvVars>>
    PROVE  LogInv'
<1>1. SameQueue /\ QueueRun' /\ nmsg' >= nmsg
    BY BroadcastAssumption
    DEF SameQueue, QueueRun, Taken, LogInv, TypeOK, QueueType
<1> QED BY <1>1, StreamKeep, SenderKeep DEF LogInv

LEMMA LoopLog ==
    ASSUME TypeOK, TypeOK', LogInv, ClientInv,
           TopRetry \/ TopSkip \/ Poll \/ VerifyEnd \/ NextMsg \/ Stopping
    PROVE  LogInv'
<1>2. CASE TopSkip \/ Poll \/ VerifyEnd
    BY <1>2, QuietLog DEF TopSkip, Poll, VerifyEnd, queueVars, clientVars, netVars
<1>3. CASE NextMsg /\ queue = <<>>
    BY <1>3, QuietLog DEF NextMsg, netVars
<1>4. CASE Stopping
  <2>1. /\ shutdownPending' /\ UNCHANGED <<nmsg, state, msg, off, cur, netVars, recvVars>>
        /\ place' = [c \in Clients |-> "retry"]
    BY <1>4 DEF Stopping
  <2>2. UNCHANGED <<net, wire, snap>>
    BY <2>1 DEF netVars
  <2>3. QueueRun' /\ nmsg' >= nmsg /\ SenderInv'
    BY <2>1, BroadcastAssumption DEF QueueRun, SenderInv, TypeOK, QueueType
  <2> QED BY <2>1, <2>2, <2>3, StreamKeep DEF LogInv
<1> QED BY <1>2, <1>3, <1>4, RetryLog, NextLog

-----------------------------------------------------------------------------
(* The network and the receivers.                                          *)

\* Only connection k is changed, and what was last sent over it stays.
LEMMA RecvOnly ==
    ASSUME TypeOK, TypeOK', LogInv, NEW k \in Conns,
           UNCHANGED <<queueVars, clientVars, snap>>,
           \A j \in Conns : j # k =>
               /\ net'[j] = net[j] /\ wire'[j] = wire[j] /\ rx'[j] = rx[j]
               /\ login'[j] = login[j] /\ frame'[j] = frame[j]
               /\ want'[j] = want[j] /\ got'[j] = got[j],
           GivenOK(k)',
           rx'[k] # "closed" => /\ rx[k] # "closed" /\ StreamOK(k)'
                                /\ LastSent(k)' = LastSent(k),
           \A c \in Clients : Sender(c) /\ Conn(c) = k => AtLogin(c, k)'
    PROVE  LogInv'
<1>1. UNCHANGED <<queue, nmsg, shutdownPending, place, state, msg, off, cur>>
    BY DEF queueVars, clientVars
<1>2. SameQueue /\ QueueRun' /\ nmsg' >= nmsg /\ Taken' = Taken
    BY <1>1, BroadcastAssumption, SMTT(30)
    DEF SameQueue, QueueRun, Taken, LogInv, TypeOK, QueueType
<1>3. StreamInv'
  <2> SUFFICES ASSUME NEW j \in Conns
               PROVE  GivenOK(j)' /\ (rx'[j] # "closed" => StreamOK(j)')
    BY DEF StreamInv
  <2>1. CASE j = k
    BY <2>1
  <2>2. CASE j # k
    <3>1. GivenOK(j)'
      BY <1>1, <2>2 DEF LogInv, StreamInv, GivenOK
    <3>2. rx'[j] # "closed" => StreamOK(j)'
      BY <1>2, <2>2, StreamFrame DEF LogInv, StreamInv
    <3> QED BY <3>1, <3>2
  <2> QED BY <2>1, <2>2
<1>4. SenderInv'
  <2> SUFFICES ASSUME NEW c \in Clients, place'[c] = "active" PROVE Sender(c)'
    BY DEF SenderInv
  <2>1. Sender(c) /\ cur[c] >= 1
    BY <1>1 DEF LogInv, SenderInv, Sender, AtLogin
  <2>2. PICK j \in Conns : j = Conn(c) /\ Conn(c)' = j
    BY <1>1, <2>1, ConnFacts DEF Conn
  <2>3. CASE j # k
    BY <1>1, <1>2, <2>1, <2>2, <2>3, SenderFrame
  <2>4. CASE j = k
    <3>1. AtLogin(c, k)'
      BY <2>1, <2>2, <2>4
    <3>2. AtPart(c, k)
      BY <2>1, <2>2, <2>4 DEF Sender
    <3>3. AtPart(c, k)'
      <4> SUFFICES ASSUME state'[c] # "CONNECT", rx'[k] # "closed"
                   PROVE  /\ msg'[c] # NoMsg =>
                                /\ off'[c] < Parts
                                /\ Follows(LastSent(k)', <<msg'[c], off'[c] + 1>>, snap'[k])
                          /\ msg'[c] = NoMsg => LastSent(k)'[1] # NoMsg
                                                /\ LastSent(k)'[2] = Parts
                          /\ ~shutdownPending' /\ msg'[c] # Login =>
                                Due(Cursor(c, k), snap[k])'
        BY DEF AtPart
      <4>1. LastSent(k)' = LastSent(k) /\ rx[k] # "closed" /\ state[c] # "CONNECT"
        BY <1>1
      <4>2. Cursor(c, k)' = Cursor(c, k)
        BY <1>1, <4>1 DEF Cursor
      <4>3. ~shutdownPending' /\ msg'[c] # Login => Due(Cursor(c, k), snap[k])'
        BY <1>1, <1>2, <3>2, <4>1, <4>2 DEF AtPart, Due
      <4> QED BY <1>1, <3>2, <4>1, <4>3 DEF AtPart
    <3> QED BY <2>2, <2>4, <3>1, <3>3 DEF Sender
  <2> QED BY <2>3, <2>4
<1> QED BY <1>2, <1>3, <1>4 DEF LogInv

\* A receiver that reads the first part of what is on its way.
LEMMA Advance ==
    ASSUME TypeOK, NEW k \in Conns, WireOK(k), wire[k] # <<>>,
           wire'[k] = Tail(wire[k]), snap'[k] = snap[k], nmsg' = nmsg,
           At(k)' = wire[k][1]
    PROVE  WireOK(k)' /\ LastSent(k)' = LastSent(k)
<1>1. /\ Len(wire[k]) \in Nat \ {0} /\ Len(Tail(wire[k])) = Len(wire[k]) - 1
      /\ \A n \in 1..(Len(wire[k]) - 1) : Tail(wire[k])[n] = wire[k][n + 1]
      /\ Tail(wire[k]) \in Seq(Sent \X (1..Parts))
    BY StreamTypes, HeadTailProperties
<1>2. \A p : Broadcasted(p) => Broadcasted(p)'
    BY DEF Broadcasted
<1>a. wire'[k] = <<>> <=> Len(wire[k]) - 1 = 0
    BY <1>1, EmptySeq
<1>3. wire'[k] # <<>> => Follows(At(k)', wire'[k][1], snap'[k])
  <2>2. wire'[k] # <<>> => 1 \in 1..(Len(wire[k]) - 1) /\ 1 + 1 = 2
    BY <1>1, <1>a
  <2> QED BY <1>1, <2>2 DEF WireOK
<1>4. \A n \in 1..Len(wire'[k])-1 : Follows(wire'[k][n], wire'[k][n+1], snap'[k])
  <2> SUFFICES ASSUME NEW n \in 1..Len(wire'[k])-1
               PROVE  Follows(wire'[k][n], wire'[k][n+1], snap'[k])
    OBVIOUS
  <2>1. /\ n \in 1..(Len(wire[k]) - 1) /\ n + 1 \in 1..(Len(wire[k]) - 1)
    BY <1>1
  <2> QED BY <1>1, <2>1 DEF WireOK
<1>5. \A n \in 1..Len(wire'[k]) : Broadcasted(wire[k][n])'
  <2>1. \A n \in 1..Len(wire'[k]) : n \in 1..(Len(wire[k]) - 1) /\ n + 1 \in 1..Len(wire[k])
    BY <1>1
  <2> QED BY <1>1, <1>2, <2>1 DEF WireOK
<1>6. LastSent(k)' = LastSent(k)
  <2>1. CASE Len(wire[k]) = 1
    <3>1. wire'[k] = <<>>
      BY <1>a, <2>1
    <3> QED BY <2>1, <3>1 DEF LastSent
  <2>2. CASE Len(wire[k]) # 1
    <3>1. /\ Len(wire'[k]) \in 1..(Len(wire[k]) - 1) /\ Len(wire'[k]) + 1 = Len(wire[k])
          /\ wire'[k] # <<>>
      BY <1>1, <1>a, <2>2
    <3>2. wire'[k][Len(wire'[k])] = wire[k][Len(wire[k])]
      BY <1>1, <3>1
    <3> QED BY <3>1, <3>2 DEF LastSent
  <2> QED BY <2>1, <2>2
<1> QED BY <1>3, <1>4, <1>5, <1>6 DEF WireOK

\* The receiver closes its end.
LEMMA CloseLog ==
    ASSUME TypeOK, TypeOK', LogInv, NEW k \in Conns, rx[k] = "open", CloseRecv(k),
           \A j \in Conns : j # k => want'[j] = want[j] /\ got'[j] = got[j],
           UNCHANGED login, ~login[k] => got'[k] = <<>>,
           \A n \in 1..Len(got'[k]) : got'[k][n] \in Msgs \cup {InitMsg}
    PROVE  LogInv'
<1>0. rx \in [Conns -> {"none", "open", "closed"}] /\ wire \in [Conns -> Stream]
      /\ frame \in [Conns -> Stream]
    BY DEF TypeOK, NetType, RecvType
<1>1. /\ UNCHANGED <<queueVars, clientVars, snap, net>>
      /\ rx'[k] = "closed" /\ wire'[k] = <<>> /\ frame'[k] = <<>>
      /\ \A j \in Conns : j # k => rx'[j] = rx[j] /\ wire'[j] = wire[j]
                                   /\ frame'[j] = frame[j]
    BY <1>0 DEF CloseRecv
<1>2. UNCHANGED <<cur, state, msg, off>>
    BY <1>1 DEF clientVars
<1>3. GivenOK(k)'
  <2>1. GivenOK(k)
    BY DEF LogInv, StreamInv
  <2> QED BY <1>1, <1>2, <2>1 DEF GivenOK
<1>4. ASSUME NEW c \in Clients, Sender(c), Conn(c) = k PROVE AtLogin(c, k)'
  <2>1. AtLogin(c, k)
    BY <1>4 DEF Sender
  <2>2. \A n \in 1..Len(wire'[k]) : FALSE
    BY <1>1
  <2> QED BY <1>1, <1>2, <2>1, <2>2 DEF AtLogin
<1> QED BY <1>1, <1>3, <1>4, RecvOnly

\* A receiver reads the next part.
LEMMA ReadLog ==
    ASSUME TypeOK, TypeOK', LogInv, NEW k \in Conns, rx[k] = "open",
           wire[k] # <<>>, wire' = [wire EXCEPT ![k] = Tail(@)],
           UNCHANGED <<queueVars, clientVars, net, snap, rx>>,
           \A j \in Conns : j # k =>
               /\ login'[j] = login[j] /\ frame'[j] = frame[j]
               /\ want'[j] = want[j] /\ got'[j] = got[j],
           FrameOK(k)', At(k)' = wire[k][1],
           ~login'[k] => got'[k] = <<>>,
           \A n \in 1..Len(got'[k]) : got'[k][n] \in Msgs \cup {InitMsg},
           login'[k] = login[k] \/ wire[k][1][2] = Parts
    PROVE  LogInv'
<1>0. wire \in [Conns -> Stream]
    BY DEF TypeOK, NetType
<1>1. /\ wire'[k] = Tail(wire[k])
      /\ \A j \in Conns : j # k => wire'[j] = wire[j]
    BY <1>0
<1>2. UNCHANGED <<cur, state, msg, off, nmsg>>
    BY DEF clientVars, queueVars
<1>3. GivenOK(k) /\ WireOK(k)
    BY DEF LogInv, StreamInv, StreamOK
<1>4. GivenOK(k)'
    BY <1>2, <1>3 DEF GivenOK
<1>5. StreamOK(k)' /\ LastSent(k)' = LastSent(k)
    BY <1>1, <1>2, <1>3, Advance DEF StreamOK
<1>6. ASSUME NEW c \in Clients, Sender(c), Conn(c) = k PROVE AtLogin(c, k)'
  <2>1. AtLogin(c, k) /\ AtPart(c, k) /\ state[c] # "CONNECT"
    BY <1>6 DEF Sender, AtLogin
  <2>2. /\ Len(wire[k]) \in Nat \ {0} /\ Len(Tail(wire[k])) = Len(wire[k]) - 1
        /\ \A n \in 1..(Len(wire[k]) - 1) : Tail(wire[k])[n] = wire[k][n + 1]
    BY StreamTypes, HeadTailProperties
  <2>3. ASSUME msg[c] = Login
        PROVE  /\ state[c] = "LOGIN" /\ ~login'[k]
               /\ \A n \in 1..Len(wire'[k]) :
                     wire'[k][n][1] = Login /\ wire'[k][n][2] <= off[c]
    <3>1. /\ state[c] = "LOGIN" /\ ~login[k]
          /\ \A n \in 1..Len(wire[k]) :
                wire[k][n][1] = Login /\ wire[k][n][2] <= off[c]
      BY <2>1, <2>3 DEF AtLogin
    <3>2. off[c] < Parts /\ off[c] \in Nat
      BY <2>1, <2>3, Constants DEF AtPart, TypeOK, ClientType
    <3>3. 1 \in 1..Len(wire[k])
      BY <2>2
    <3>4. wire[k][1][2] # Parts
      BY <3>1, <3>2, <3>3, Constants
    <3>5. \A n \in 1..(Len(wire[k]) - 1) : n + 1 \in 1..Len(wire[k])
      BY <2>2
    <3>6. Len(wire'[k]) = Len(wire[k]) - 1
      BY <1>1, <2>2
    <3> QED BY <1>1, <2>2, <3>1, <3>4, <3>5, <3>6
  <2> QED BY <1>2, <2>1, <2>3 DEF AtLogin
<1> QED BY <1>1, <1>4, <1>5, <1>6, RecvOnly

\* RecvAccept, a refused connect and a connection that breaks.
LEMMA NetLog ==
    ASSUME TypeOK, TypeOK', LogInv, NEW k \in Conns,
           RecvAccept(k) \/ Refuse(k) \/ Break(k)
    PROVE  LogInv'
<1>0. net \in [Conns -> {"unused", "syn", "refused", "up", "broken"}]
      /\ rx \in [Conns -> {"none", "open", "closed"}]
    BY DEF TypeOK, NetType, RecvType
<1>1. /\ UNCHANGED <<queueVars, clientVars, wire, snap, login, frame, want, got>>
      /\ SockOpen(k)
    BY DEF RecvAccept, Refuse, Break, recvVars
<1>2. \A j \in Conns : j # k => net'[j] = net[j] /\ rx'[j] = rx[j]
    BY <1>0 DEF RecvAccept, Refuse, Break, recvVars
<1>3. \/ net[k] = "syn" /\ net'[k] = "up" /\ rx'[k] = "open"
      \/ net[k] = "syn" /\ net'[k] = "refused" /\ rx'[k] = rx[k]
      \/ net[k] = "up" /\ net'[k] = "broken" /\ rx'[k] = rx[k]
    BY <1>0 DEF RecvAccept, Refuse, Break, recvVars
<1>4. UNCHANGED <<nmsg, cur, state, msg, off>>
    BY <1>1 DEF clientVars, queueVars
<1>5. GivenOK(k) /\ (rx[k] # "closed" => StreamOK(k))
    BY DEF LogInv, StreamInv
<1>6. GivenOK(k)'
  <2>1. ~(k[2] > cur[k[1]])
    BY <1>3, <1>5 DEF GivenOK
  <2> QED BY <1>1, <1>3, <1>4, <1>5, <2>1 DEF GivenOK
<1>7. rx'[k] # "closed" => rx[k] # "closed"
    BY <1>3, <1>5 DEF GivenOK
<1>8. rx[k] # "closed" => StreamOK(k)' /\ LastSent(k)' = LastSent(k)
  <2>1. nmsg' >= nmsg
    BY <1>4, BroadcastAssumption DEF TypeOK, QueueType
  <2> QED BY <1>1, <1>5, <2>1, StreamFrame
<1>9. ASSUME NEW c \in Clients, Sender(c), Conn(c) = k PROVE AtLogin(c, k)'
    BY <1>1, <1>4, <1>9 DEF Sender, AtLogin
<1> QED BY <1>1, <1>2, <1>6, <1>7, <1>8, <1>9, RecvOnly

\* RecvMsg reads the length of a frame, which is one.
LEMMA LengthLog ==
    ASSUME TypeOK, TypeOK', LogInv, NEW k \in Conns, RecvLength(k)
    PROVE  LogInv'
<1>0. /\ frame \in [Conns -> Stream] /\ want \in [Conns -> 0..Parts]
      /\ wire \in [Conns -> Stream]
    BY DEF TypeOK, NetType, RecvType
<1>1. rx[k] = "open" /\ wire[k] # <<>> /\ frame[k] = <<>>
    BY DEF RecvLength
<1>2. GivenOK(k) /\ FrameOK(k) /\ WireOK(k)
    BY <1>1 DEF LogInv, StreamInv, StreamOK
<1>3. PICK p \in Sent \X (1..Parts) :
          p = Head(wire[k]) /\ p = wire[k][1] /\ Broadcasted(p)
  <2>1. 1 \in 1..Len(wire[k]) /\ Head(wire[k]) = wire[k][1]
    BY <1>1, StreamTypes, EmptySeq
  <2> QED BY <1>2, <2>1, StreamTypes DEF WireOK
<1>4. p[2] = 1 /\ Link(LastRead(k), p[1], snap[k])
  <2>1. Follows(At(k), p, snap[k]) /\ At(k) = <<LastRead(k), Parts>>
    BY <1>1, <1>2, <1>3 DEF WireOK, At
  <2>2. ~(Parts < Parts)
    BY Constants
  <2> QED BY <2>1, <2>2 DEF Follows
<1>5. /\ want' = [want EXCEPT ![k] = Parts - 1]
      /\ frame' = [frame EXCEPT ![k] = <<p>>]
      /\ wire' = [wire EXCEPT ![k] = Tail(@)]
      /\ UNCHANGED <<queueVars, clientVars, net, snap, rx, login, got>>
  <2>1. Parts - 1 # 0
    BY Constants
  <2> QED BY <1>3, <1>4, <2>1 DEF RecvLength
<1>6. want'[k] = Parts - 1 /\ frame'[k] = <<p>>
      /\ \A j \in Conns : j # k => want'[j] = want[j] /\ frame'[j] = frame[j]
    BY <1>0, <1>5
<1>7. /\ frame'[k] # <<>> /\ Len(frame'[k]) = 1 /\ frame'[k][1] = p
      /\ p = <<p[1], 1>>
    BY <1>4, <1>6
<1>8. At(k)' = wire[k][1]
    BY <1>3, <1>7 DEF At
<1>9. FrameOK(k)'
  <2>1. LastRead(k)' = LastRead(k) /\ UNCHANGED nmsg
    BY <1>5 DEF LastRead, queueVars
  <2>2. Broadcasted(frame[k][1])'
    BY <1>3, <1>7, <2>1 DEF Broadcasted
  <2>3. 1 <= Parts - 1
    BY Constants
  <2>4. \A n \in 1..Len(frame'[k]) : n = 1
    BY <1>7
  <2>5. Link(LastRead(k)', frame'[k][1][1], snap'[k])
    BY <1>4, <1>5, <1>7, <2>1
  <2> QED BY <1>6, <1>7, <2>2, <2>3, <2>4, <2>5 DEF FrameOK
<1>10. /\ ~login'[k] => got'[k] = <<>>
       /\ \A n \in 1..Len(got'[k]) : got'[k][n] \in Msgs \cup {InitMsg}
    BY <1>2, <1>5 DEF GivenOK
<1> QED BY <1>1, <1>5, <1>6, <1>8, <1>9, <1>10, ReadLog

\* In a frame that has its length the next part is the next of one message.
LEMMA NextPart ==
    ASSUME TypeOK, LogInv, NEW k \in Conns, rx[k] = "open", wire[k] # <<>>,
           frame[k] # <<>>
    PROVE  \E m \in Sent :
              /\ Len(frame[k]) \in 1..(Parts - 1) /\ want[k] = Parts - 1
              /\ \A n \in 1..Len(frame[k]) : frame[k][n] = <<m, n>>
              /\ Head(wire[k]) = <<m, Len(frame[k]) + 1>>
              /\ wire[k][1] = <<m, Len(frame[k]) + 1>>
              /\ Link(LastRead(k), m, snap[k])
              /\ m \in Msgs => m <= nmsg
<1>1. FrameOK(k) /\ WireOK(k)
    BY DEF LogInv, StreamInv, StreamOK
<1>2. Head(wire[k]) = wire[k][1]
    BY StreamTypes, EmptySeq
<1>3. Len(frame[k]) \in 1..(Parts - 1) /\ want[k] = Parts - 1
    BY <1>1, StreamTypes, EmptySeq, Constants DEF FrameOK
<1>4. 1 \in 1..Len(frame[k])
    BY <1>3
<1>5. PICK m \in Sent : m = frame[k][1][1]
    BY <1>4, StreamTypes
<1>6. /\ \A n \in 1..Len(frame[k]) : frame[k][n] = <<m, n>>
      /\ Link(LastRead(k), m, snap[k]) /\ (m \in Msgs => m <= nmsg)
    BY <1>1, <1>5 DEF FrameOK, Broadcasted
<1>7. wire[k][1] = <<m, Len(frame[k]) + 1>>
  <2>1. Follows(At(k), wire[k][1], snap[k]) /\ At(k) = <<m, Len(frame[k])>>
    BY <1>1, <1>5 DEF WireOK, At
  <2>2. Len(frame[k]) < Parts
    BY <1>3, Constants
  <2> QED BY <2>1, <2>2 DEF Follows
<1> QED BY <1>2, <1>3, <1>5, <1>6, <1>7

LEMMA BodyLog ==
    ASSUME TypeOK, TypeOK', LogInv, NEW k \in Conns, RecvBody(k)
    PROVE  LogInv'
<1>0. frame \in [Conns -> Stream] /\ frame[k] \in Stream
    BY DEF TypeOK, RecvType
<1>1. /\ rx[k] = "open" /\ wire[k] # <<>> /\ frame[k] # <<>> /\ Len(frame[k]) < want[k]
      /\ frame' = [frame EXCEPT ![k] = Append(@, Head(wire[k]))]
      /\ wire' = [wire EXCEPT ![k] = Tail(@)]
      /\ UNCHANGED <<queueVars, clientVars, net, snap, rx, login, want, got>>
    BY DEF RecvBody
<1>2. PICK m \in Sent :
         /\ Len(frame[k]) \in 1..(Parts - 1) /\ want[k] = Parts - 1
         /\ \A n \in 1..Len(frame[k]) : frame[k][n] = <<m, n>>
         /\ Head(wire[k]) = <<m, Len(frame[k]) + 1>>
         /\ wire[k][1] = <<m, Len(frame[k]) + 1>>
         /\ Link(LastRead(k), m, snap[k])
         /\ m \in Msgs => m <= nmsg
    BY <1>1, NextPart
<1>3. /\ frame'[k] = Append(frame[k], Head(wire[k]))
      /\ \A j \in Conns : j # k => frame'[j] = frame[j]
    BY <1>0, <1>1
<1>4. Len(frame[k]) + 1 \in 1..(Parts - 1)
    BY <1>1, <1>2, Constants
<1>5. Head(wire[k]) \in Sent \X (1..Parts)
    BY <1>1, StreamTypes, HeadTailProperties
<1>6. /\ Len(frame'[k]) = Len(frame[k]) + 1
      /\ \A n \in 1..Len(frame[k]) : frame'[k][n] = frame[k][n]
      /\ frame'[k][Len(frame[k]) + 1] = Head(wire[k])
    BY <1>0, <1>3, <1>5, AppendProperties DEF Stream
<1>7. \A n \in 1..Len(frame'[k]) : frame'[k][n] = <<m, n>>
  <2>1. \A n \in 1..Len(frame'[k]) : n \in 1..Len(frame[k]) \/ n = Len(frame[k]) + 1
    BY <1>2, <1>6
  <2> QED BY <1>2, <1>6, <2>1
<1>8. frame'[k] # <<>> /\ frame'[k][1] = <<m, 1>>
  <2>1. 1 \in 1..Len(frame'[k]) /\ Len(frame'[k]) # 0
    BY <1>4, <1>6
  <2> QED BY <1>7, <2>1
<1>9. At(k)' = wire[k][1]
    BY <1>2, <1>6, <1>8 DEF At
<1>10. FrameOK(k)'
  <2>1. LastRead(k)' = LastRead(k) /\ UNCHANGED nmsg
    BY <1>1 DEF LastRead, queueVars
  <2>2. Broadcasted(frame[k][1])'
    BY <1>2, <1>8, <2>1 DEF Broadcasted
  <2>3. want'[k] = Parts - 1 /\ Len(frame'[k]) <= Parts - 1
    BY <1>1, <1>2, <1>4, <1>6, Constants
  <2>5. Link(LastRead(k)', frame'[k][1][1], snap'[k])
    BY <1>1, <1>2, <1>8, <2>1
  <2> QED BY <1>7, <1>8, <2>2, <2>3, <2>5 DEF FrameOK
<1>11. /\ ~login'[k] => got'[k] = <<>>
       /\ \A n \in 1..Len(got'[k]) : got'[k][n] \in Msgs \cup {InitMsg}
    BY <1>1 DEF GivenOK, LogInv, StreamInv
<1> QED BY <1>1, <1>3, <1>9, <1>10, <1>11, ReadLog

\* The last part of a frame: it is a whole message.
LEMMA WholeMessage ==
    ASSUME TypeOK, LogInv, NEW k \in Conns, rx[k] = "open", wire[k] # <<>>,
           frame[k] # <<>>, Len(frame[k]) = want[k]
    PROVE  \E m \in Sent :
              /\ Decoded(Append(frame[k], Head(wire[k]))) = m
              /\ wire[k][1] = <<m, Parts>>
              /\ Link(LastRead(k), m, snap[k])
              /\ m \in Msgs => m <= nmsg
<1>0. frame[k] \in Stream
    BY DEF TypeOK, RecvType
<1>1. PICK m \in Sent :
         /\ Len(frame[k]) \in 1..(Parts - 1) /\ want[k] = Parts - 1
         /\ \A n \in 1..Len(frame[k]) : frame[k][n] = <<m, n>>
         /\ Head(wire[k]) = <<m, Len(frame[k]) + 1>>
         /\ wire[k][1] = <<m, Len(frame[k]) + 1>>
         /\ Link(LastRead(k), m, snap[k])
         /\ m \in Msgs => m <= nmsg
    BY NextPart
<1>2. Len(frame[k]) + 1 = Parts /\ 1 \in 1..Parts /\ Parts \in 1..Parts
    BY <1>1, Constants
<1>3. Head(wire[k]) \in Sent \X (1..Parts)
    BY StreamTypes, HeadTailProperties
<1>4. PICK f : f = Append(frame[k], Head(wire[k]))
    OBVIOUS
<1>5. /\ Len(f) = Parts /\ f[Parts] = <<m, Parts>>
      /\ \A n \in 1..Len(frame[k]) : f[n] = <<m, n>>
    BY <1>0, <1>1, <1>2, <1>3, <1>4, AppendProperties DEF Stream
<1>6. \A n \in 1..Parts : f[n] = <<m, n>>
  <2>1. \A n \in 1..Parts : n \in 1..Len(frame[k]) \/ n = Parts
    BY <1>1, <1>2
  <2> QED BY <1>5, <2>1
<1>7. f[1][1] = m
    BY <1>2, <1>6
<1>8. Decoded(f) = m
    BY <1>5, <1>6, <1>7 DEF Decoded
<1> QED BY <1>1, <1>2, <1>4, <1>8

\* The first message of a connection is the login.
LEMMA LoginLog ==
    ASSUME TypeOK, TypeOK', LogInv, NEW k \in Conns, RecvLogin(k)
    PROVE  LogInv'
<1>0. frame \in [Conns -> Stream] /\ login \in [Conns -> BOOLEAN]
    BY DEF TypeOK, RecvType
<1>1. /\ rx[k] = "open" /\ wire[k] # <<>> /\ frame[k] # <<>>
      /\ Len(frame[k]) = want[k] /\ ~login[k] /\ UNCHANGED <<want, got>>
    BY DEF RecvLogin
<1>2. PICK m \in Sent :
              /\ Decoded(Append(frame[k], Head(wire[k]))) = m
              /\ wire[k][1] = <<m, Parts>>
              /\ Link(LastRead(k), m, snap[k])
              /\ m \in Msgs => m <= nmsg
    BY <1>1, WholeMessage
<1>3. m = Login
  <2>1. LastRead(k) = NoMsg /\ NoMsg # Login /\ NoMsg # InitMsg
    BY <1>1, Constants DEF LastRead
  <2> QED BY <1>2, <2>1, Constants DEF Link
<1>4. /\ login' = [login EXCEPT ![k] = TRUE]
      /\ frame' = [frame EXCEPT ![k] = <<>>]
      /\ wire' = [wire EXCEPT ![k] = Tail(@)]
      /\ UNCHANGED <<queueVars, clientVars, net, snap, rx>>
    BY <1>2, <1>3 DEF RecvLogin
<1>5. /\ login'[k] /\ frame'[k] = <<>>
      /\ \A j \in Conns : j # k => login'[j] = login[j] /\ frame'[j] = frame[j]
    BY <1>0, <1>4
<1>6. GivenOK(k) /\ got[k] = <<>>
    BY <1>1 DEF LogInv, StreamInv, GivenOK
<1>7. At(k)' = wire[k][1]
    BY <1>1, <1>2, <1>3, <1>5, <1>6 DEF At, LastRead
<1>8. FrameOK(k)'
    BY <1>5 DEF FrameOK
<1>9. \A n \in 1..Len(got'[k]) : got'[k][n] \in Msgs \cup {InitMsg}
    BY <1>1, <1>6
<1>10. wire[k][1][2] = Parts
    BY <1>2
<1> QED BY <1>1, <1>4, <1>5, <1>7, <1>8, <1>9, <1>10, ReadLog

\* What the receiver is given, and what came before it.
LEMMA GivenNext ==
    ASSUME TypeOK, LogInv, NEW k \in Conns, RecvCall(k)
    PROVE  \E m \in Msgs \cup {InitMsg} :
              /\ got' = [got EXCEPT ![k] = Append(@, m)]
              /\ wire[k][1] = <<m, Parts>>
              /\ Link(LastRead(k), m, snap[k])
              /\ m \in Msgs => m <= nmsg
<1>1. /\ rx[k] = "open" /\ wire[k] # <<>> /\ frame[k] # <<>>
      /\ Len(frame[k]) = want[k] /\ login[k]
      /\ got' = [got EXCEPT ![k] =
                    Append(@, Decoded(Append(frame[k], Head(wire[k]))))]
    BY DEF RecvCall
<1>2. PICK m \in Sent :
              /\ Decoded(Append(frame[k], Head(wire[k]))) = m
              /\ wire[k][1] = <<m, Parts>>
              /\ Link(LastRead(k), m, snap[k])
              /\ m \in Msgs => m <= nmsg
    BY <1>1, WholeMessage
<1>3. GivenOK(k) /\ StreamOK(k)
    BY <1>1 DEF LogInv, StreamInv
<1>4. LastRead(k) # NoMsg
  <2>1. got[k] # <<>> => Len(got[k]) \in 1..Len(got[k])
    BY StreamTypes, EmptySeq
  <2>2. NoMsg # Login /\ NoMsg # InitMsg /\ NoMsg \notin Msgs
    BY Constants
  <2> QED BY <1>1, <1>3, <2>1, <2>2 DEF LastRead, GivenOK
<1>5. m \in Msgs \cup {InitMsg}
    BY <1>2, <1>4 DEF Link
<1> QED BY <1>1, <1>2, <1>5

LEMMA CallLog ==
    ASSUME TypeOK, TypeOK', LogInv, NEW k \in Conns, RecvCall(k)
    PROVE  LogInv'
<1>0. /\ frame \in [Conns -> Stream] /\ got \in [Conns -> Seq(Sent \cup {Garbled})]
      /\ got[k] \in Seq(Sent \cup {Garbled})
    BY DEF TypeOK, RecvType
<1>1. /\ rx[k] = "open" /\ wire[k] # <<>> /\ login[k] /\ UNCHANGED <<login, want>>
    BY DEF RecvCall
<1>2. PICK m \in Msgs \cup {InitMsg} :
              /\ got' = [got EXCEPT ![k] = Append(@, m)]
              /\ wire[k][1] = <<m, Parts>>
              /\ Link(LastRead(k), m, snap[k])
              /\ m \in Msgs => m <= nmsg
    BY GivenNext
<1>3. /\ got'[k] = Append(got[k], m)
      /\ \A j \in Conns : j # k => got'[j] = got[j]
    BY <1>0, <1>2
<1>4. m \in Sent \cup {Garbled}
    BY Constants
<1>5. /\ Len(got'[k]) = Len(got[k]) + 1 /\ got'[k][Len(got[k]) + 1] = m
      /\ \A n \in 1..Len(got[k]) : got'[k][n] = got[k][n]
      /\ Len(got[k]) \in Nat
    BY <1>0, <1>3, <1>4, AppendProperties, LenProperties
<1>6. \A n \in 1..Len(got'[k]) : got'[k][n] \in Msgs \cup {InitMsg}
  <2>1. \A n \in 1..Len(got[k]) : got[k][n] \in Msgs \cup {InitMsg}
    BY DEF LogInv, StreamInv, GivenOK
  <2>2. \A n \in 1..Len(got'[k]) : n \in 1..Len(got[k]) \/ n = Len(got[k]) + 1
    BY <1>5
  <2> QED BY <1>5, <2>1, <2>2
<1>7. CASE CloseRecv(k)
    BY <1>1, <1>3, <1>6, <1>7, CloseLog
<1>8. CASE ~CloseRecv(k)
  <2>1. /\ frame' = [frame EXCEPT ![k] = <<>>]
        /\ wire' = [wire EXCEPT ![k] = Tail(@)]
        /\ UNCHANGED <<queueVars, clientVars, net, snap, rx>>
    BY <1>8 DEF RecvCall
  <2>2. frame'[k] = <<>> /\ \A j \in Conns : j # k => frame'[j] = frame[j]
    BY <1>0, <2>1
  <2>3. got'[k] # <<>>
    BY <1>5
  <2>4. LastRead(k)' = m
    BY <1>1, <1>5, <2>3 DEF LastRead
  <2>5. At(k)' = wire[k][1]
    BY <1>2, <2>2, <2>4 DEF At
  <2>6. FrameOK(k)'
    BY <2>2 DEF FrameOK
  <2> QED BY <1>1, <1>3, <1>6, <2>1, <2>2, <2>5, <2>6, ReadLog
<1> QED BY <1>7, <1>8

LEMMA ReceiverLog ==
    ASSUME TypeOK, TypeOK', LogInv, NEW k \in Conns,
           RecvAccept(k) \/ Refuse(k) \/ Break(k) \/ RecvExit(k) \/ RecvStep(k)
    PROVE  LogInv'
<1>1. CASE RecvExit(k) \/ RecvEnd(k)
  <2>1. rx[k] = "open" /\ CloseRecv(k) /\ UNCHANGED <<login, want, got>>
    BY <1>1 DEF RecvExit, RecvEnd
  <2>2. GivenOK(k)
    BY DEF LogInv, StreamInv
  <2> QED BY <2>1, <2>2, CloseLog DEF GivenOK
<1> QED BY <1>1, NetLog, LengthLog, BodyLog, LoginLog, CallLog DEF RecvStep

-----------------------------------------------------------------------------
(* The pass over the clients.                                              *)

\* Only client c and its connection are changed.
LEMMA ClientOnly ==
    ASSUME TypeOK, TypeOK', LogInv, NEW c \in Clients, Sender(c), Verify(c),
           NEW k \in Conns, k = Conn(c),
           \A d \in Clients : d # c =>
               /\ place'[d] = place[d] /\ state'[d] = state[d]
               /\ msg'[d] = msg[d] /\ off'[d] = off[d],
           \A j \in Conns : j # k => wire'[j] = wire[j] /\ snap'[j] = snap[j],
           rx[k] = "none" => wire'[k] = wire[k],
           rx[k] # "closed" => StreamOK(k)',
           place'[c] = "active" => AtLogin(c, k)' /\ AtPart(c, k)'
    PROVE  LogInv'
<1>1. UNCHANGED <<queue, nmsg, shutdownPending, cur, net, rx, login, frame, want, got>>
    BY DEF Verify, recvVars
<1>2. SameQueue /\ QueueRun' /\ nmsg' >= nmsg
    BY <1>1, BroadcastAssumption
    DEF SameQueue, QueueRun, Taken, LogInv, TypeOK, QueueType
<1>3. cur[c] >= 1
    BY DEF Sender, AtLogin
<1>4. StreamInv'
  <2> SUFFICES ASSUME NEW j \in Conns
               PROVE  GivenOK(j)' /\ (rx'[j] # "closed" => StreamOK(j)')
    BY DEF StreamInv
  <2>1. GivenOK(j)'
    <3>1. GivenOK(j) /\ (rx[j] = "none" => wire'[j] = wire[j])
      BY DEF LogInv, StreamInv
    <3> QED BY <1>1, <3>1 DEF GivenOK
  <2>2. CASE j = k
    BY <1>1, <2>1, <2>2
  <2>3. CASE j # k
    <3>1. rx'[j] # "closed" => StreamOK(j)'
      BY <1>1, <1>2, <2>3, StreamFrame DEF LogInv, StreamInv
    <3> QED BY <2>1, <3>1
  <2> QED BY <2>2, <2>3
<1>5. SenderInv'
  <2> SUFFICES ASSUME NEW d \in Clients, place'[d] = "active" PROVE Sender(d)'
    BY DEF SenderInv
  <2>1. CASE d = c
    <3>1. Conn(c)' = k
      BY <1>1 DEF Conn
    <3> QED BY <2>1, <3>1 DEF Sender
  <2>2. CASE d # c
    <3>1. Sender(d) /\ cur[d] >= 1
      BY <2>2 DEF LogInv, SenderInv, Sender, AtLogin
    <3>2. Conn(d) \in Conns /\ Conn(d) # k
      BY <1>3, <2>2, <3>1, ConnFacts
    <3> QED BY <1>1, <1>2, <2>2, <3>1, <3>2, SenderFrame
  <2> QED BY <2>1, <2>2
<1> QED BY <1>2, <1>4, <1>5 DEF LogInv

\* RetryClient gives the connection up.
LEMMA RetryClientLog ==
    ASSUME TypeOK, TypeOK', LogInv, NEW c \in Clients, Sender(c), Verify(c),
           RetryClient(c), UNCHANGED <<state, wire, snap>>
    PROVE  LogInv'
<1>0. /\ place \in [Clients -> {"active", "retry"}]
      /\ msg \in [Clients -> Sent \cup {NoMsg}] /\ off \in [Clients -> 0..Parts]
    BY DEF TypeOK, ClientType
<1>1. PICK k \in Conns : k = Conn(c)
    BY ConnFacts DEF Sender, AtLogin
<1>2. /\ place' = [place EXCEPT ![c] = "retry"] /\ msg' = [msg EXCEPT ![c] = NoMsg]
      /\ off' = [off EXCEPT ![c] = 0]
    BY DEF RetryClient, MsgDone, StartMsg
<1>3. /\ place'[c] # "active"
      /\ \A d \in Clients : d # c => /\ place'[d] = place[d]
                                     /\ msg'[d] = msg[d] /\ off'[d] = off[d]
    BY <1>0, <1>2
<1>4. rx[k] # "closed" => StreamOK(k)'
  <2>1. UNCHANGED <<nmsg, login, frame, want, got>> /\ nmsg' >= nmsg
    BY BroadcastAssumption DEF Verify, recvVars, TypeOK, QueueType
  <2> QED BY <2>1, StreamFrame DEF LogInv, StreamInv
<1> QED BY <1>1, <1>3, <1>4, ClientOnly

LEMMA ConcatAt ==
    ASSUME NEW s \in Stream, NEW q \in Stream
    PROVE  /\ Len(s \o q) = Len(s) + Len(q)
           /\ \A j \in 1..Len(s) : (s \o q)[j] = s[j]
           /\ \A i \in 1..Len(q) : (s \o q)[Len(s) + i] = q[i]
<1>1. /\ Len(s) \in Nat /\ Len(q) \in Nat /\ Len(s \o q) = Len(s) + Len(q)
      /\ \A j \in 1..(Len(s) + Len(q)) :
            (s \o q)[j] = IF j <= Len(s) THEN s[j] ELSE q[j - Len(s)]
    BY ConcatProperties, LenProperties DEF Stream
<1>2. \A j \in 1..Len(s) : j \in 1..(Len(s) + Len(q)) /\ j <= Len(s)
    BY <1>1
<1>3. \A i \in 1..Len(q) : /\ Len(s) + i \in 1..(Len(s) + Len(q))
                           /\ ~(Len(s) + i <= Len(s)) /\ (Len(s) + i) - Len(s) = i
    BY <1>1
<1> QED BY <1>1, <1>2, <1>3

\* n parts of the message of client c are appended to what is on its way.
LEMMA PutParts ==
    ASSUME TypeOK, NEW c \in Clients, NEW k \in Conns, NEW n \in Nat,
           msg[c] # NoMsg, off[c] + n <= Parts,
           wire'[k] = wire[k] \o [i \in 1..n |-> <<msg[c], off[c] + i>>]
    PROVE  /\ Len(wire'[k]) = Len(wire[k]) + n
           /\ \A j \in 1..Len(wire[k]) : wire'[k][j] = wire[k][j]
           /\ \A i \in 1..n : wire'[k][Len(wire[k]) + i] = <<msg[c], off[c] + i>>
<1>1. /\ wire[k] \in Seq(Sent \X (1..Parts)) /\ msg[c] \in Sent
      /\ off[c] \in 0..Parts /\ Len(wire[k]) \in Nat
    BY StreamTypes DEF TypeOK, ClientType
<1> DEFINE p == [i \in 1..n |-> <<msg[c], off[c] + i>>]
<1>2. p \in Seq(Sent \X (1..Parts)) /\ Len(p) = n
  <2>1. \A i \in 1..n : <<msg[c], off[c] + i>> \in Sent \X (1..Parts)
    BY <1>1, Constants
  <2>2. p \in [1..n -> Sent \X (1..Parts)]
    BY <2>1
  <2>3. p \in Seq(Sent \X (1..Parts))
    BY <2>2, SeqDef
  <2>4. Len(p) \in Nat /\ DOMAIN p = 1..Len(p)
    BY <2>3, LenProperties
  <2>5. 1..Len(p) = 1..n
    BY <2>2, <2>4
  <2> QED BY <2>3, <2>4, <2>5
<1>3. \A i \in 1..n : p[i] = <<msg[c], off[c] + i>>
    OBVIOUS
<1>4. wire'[k] = wire[k] \o p
    OBVIOUS
<1> HIDE DEF p
<1>5. /\ Len(wire[k] \o p) = Len(wire[k]) + Len(p)
      /\ \A j \in 1..Len(wire[k]) : (wire[k] \o p)[j] = wire[k][j]
      /\ \A i \in 1..Len(p) : (wire[k] \o p)[Len(wire[k]) + i] = p[i]
    BY <1>1, <1>2, ConcatAt DEF Stream
<1>6. PICK w : w = wire'[k] /\ w = wire[k] \o p
    BY <1>4
<1>7. /\ Len(w) = Len(wire[k]) + n
      /\ \A j \in 1..Len(wire[k]) : w[j] = wire[k][j]
      /\ \A i \in 1..n : w[Len(wire[k]) + i] = <<msg[c], off[c] + i>>
    BY <1>2, <1>3, <1>5, <1>6, Zenon
<1> QED BY <1>6, <1>7, Zenon

\* They follow what was sent before, and the last of them is now the last.
LEMMA PutStream ==
    ASSUME TypeOK, NEW c \in Clients, NEW k \in Conns, NEW n \in 1..Parts,
           msg[c] # NoMsg, off[c] + n <= Parts,
           Len(wire'[k]) = Len(wire[k]) + n,
           \A j \in 1..Len(wire[k]) : wire'[k][j] = wire[k][j],
           \A i \in 1..n : wire'[k][Len(wire[k]) + i] = <<msg[c], off[c] + i>>,
           UNCHANGED <<nmsg, login, frame, got>>, WireOK(k),
           msg[c] \in Msgs => msg[c] <= nmsg,
           wire[k] # <<>> => Follows(At(k), wire[k][1], snap'[k]),
           \A j \in 1..Len(wire[k])-1 : Follows(wire[k][j], wire[k][j+1], snap'[k]),
           Follows(LastSent(k), <<msg[c], off[c] + 1>>, snap'[k])
    PROVE  WireOK(k)' /\ LastSent(k)' = <<msg[c], off[c] + n>>
<1>1. /\ Len(wire[k]) \in Nat /\ wire[k] \in Seq(Sent \X (1..Parts))
      /\ off[c] \in Nat /\ Parts \in Nat /\ n \in Nat /\ n >= 1
    BY StreamTypes, Constants, SMTT(30) DEF TypeOK, ClientType
<1>2. /\ Len(wire'[k]) = Len(wire[k]) + n
      /\ \A j \in 1..Len(wire[k]) : wire'[k][j] = wire[k][j]
      /\ \A i \in 1..n : wire'[k][Len(wire[k]) + i] = <<msg[c], off[c] + i>>
    OBVIOUS
<1>3. At(k)' = At(k)
    BY DEF At, LastRead
<1>4. \A j \in 1..Len(wire'[k]) :
          j \in 1..Len(wire[k]) \/ \E i \in 1..n : j = Len(wire[k]) + i
  <2> SUFFICES ASSUME NEW j \in 1..Len(wire'[k]), j \notin 1..Len(wire[k])
               PROVE  \E i \in 1..n : j = Len(wire[k]) + i
    OBVIOUS
  <2>1. j - Len(wire[k]) \in 1..n /\ j = Len(wire[k]) + (j - Len(wire[k]))
    BY <1>1, <1>2
  <2> QED BY <2>1
<1>5. wire'[k] # <<>> /\ LastSent(k)' = <<msg[c], off[c] + n>>
  <2>1. n \in 1..n /\ Len(wire'[k]) # 0
    BY <1>1, <1>2
  <2>2. wire'[k] # <<>>
    BY <2>1, EmptySeq
  <2>3. wire'[k][Len(wire'[k])] = <<msg[c], off[c] + n>>
    BY <1>2, <2>1
  <2> QED BY <2>2, <2>3 DEF LastSent
<1>6. Follows(At(k)', wire'[k][1], snap'[k])
  <2>1. CASE wire[k] = <<>>
    <3>1. wire'[k][1] = <<msg[c], off[c] + 1>>
      <4>1. Len(wire[k]) = 0 /\ 1 \in 1..n /\ 0 + 1 = 1
        BY <1>1, <2>1
      <4> QED BY <1>2, <4>1
    <3> QED BY <1>3, <2>1, <3>1 DEF LastSent
  <2>2. CASE wire[k] # <<>>
    <3>1. 1 \in 1..Len(wire[k])
      BY <1>1, <2>2, EmptySeq
    <3> QED BY <1>2, <1>3, <2>2, <3>1
  <2> QED BY <2>1, <2>2
<1>7. ASSUME NEW j \in 1..Len(wire'[k])-1
      PROVE  Follows(wire'[k][j], wire'[k][j+1], snap'[k])
  <2>1. CASE j + 1 \in 1..Len(wire[k])
    <3>1. j \in 1..Len(wire[k]) - 1 /\ j \in 1..Len(wire[k])
      BY <1>1, <1>2, <2>1
    <3> QED BY <1>2, <2>1, <3>1
  <2>2. CASE j = Len(wire[k])
    <3>1. wire[k] # <<>> /\ j \in 1..Len(wire[k]) /\ 1 \in 1..n
      BY <1>1, <2>2
    <3>2. wire'[k][j] = LastSent(k) /\ wire'[k][j+1] = <<msg[c], off[c] + 1>>
      BY <1>2, <2>2, <3>1 DEF LastSent
    <3> QED BY <3>2
  <2>3. CASE j + 1 \notin 1..Len(wire[k]) /\ j # Len(wire[k])
    <3>0. j \in 1..Len(wire'[k]) /\ j \notin 1..Len(wire[k])
      <4>1. Len(wire[k]) \in Nat /\ Len(wire'[k]) \in Nat
        BY <1>1, <1>2
      <4>2. j \in 1..Len(wire'[k])-1 /\ j \in Int
        BY <4>1
      <4>3. \A l, m \in Nat, x \in Int :
               x \in 1..m-1 /\ x + 1 \notin 1..l /\ x # l => x \in 1..m /\ x \notin 1..l
        OBVIOUS
      <4> QED BY <2>3, <4>1, <4>2, <4>3, Zenon
    <3>1. PICK i \in 1..n : j = Len(wire[k]) + i
      BY <1>4, <3>0
    <3>a. j <= (Len(wire[k]) + n) - 1
      BY <1>1, <1>2
    <3>b. Len(wire[k]) + i <= (Len(wire[k]) + n) - 1 /\ Len(wire[k]) \in Int
      BY <1>1, <3>1, <3>a
    <3>c. \A l, x, y \in Int : /\ l + x <= (l + y) - 1 => x + 1 <= y
                              /\ (l + x) + 1 = l + (x + 1)
      OBVIOUS
    <3>d. i + 1 <= n
      BY <3>b, <3>c
    <3>e. i \in Nat /\ n \in Nat /\ i \in Int
      BY <1>1
    <3>f. i + 1 \in 1..n
      BY <3>d, <3>e
    <3>g. (Len(wire[k]) + i) + 1 = Len(wire[k]) + (i + 1)
      BY <3>b, <3>c, <3>e, Zenon
    <3>2. i + 1 \in 1..n /\ j + 1 = Len(wire[k]) + (i + 1)
      BY <3>1, <3>f, <3>g
    <3>3. /\ wire'[k][j] = <<msg[c], off[c] + i>>
          /\ wire'[k][j+1] = <<msg[c], off[c] + (i + 1)>>
      BY <1>2, <3>1, <3>2
    <3>4. off[c] + i < Parts /\ off[c] + (i + 1) = (off[c] + i) + 1
      BY <1>1, <3>2
    <3> QED BY <3>3, <3>4 DEF Follows
  <2> QED BY <2>1, <2>2, <2>3
<1>8. ASSUME NEW j \in 1..Len(wire'[k]) PROVE Broadcasted(wire[k][j])'
  <2>1. CASE j \in 1..Len(wire[k])
    BY <1>2, <2>1 DEF WireOK, Broadcasted
  <2>2. CASE j \notin 1..Len(wire[k])
    <3>0. PICK i \in 1..n : j = Len(wire[k]) + i
      BY <1>4, <2>2
    <3>a. wire'[k][j] = <<msg[c], off[c] + i>>
      BY <1>2, <3>0
    <3>1. wire'[k][j][1] = msg[c]
      BY <3>a
    <3> QED BY <3>1 DEF Broadcasted
  <2> QED BY <2>1, <2>2
<1> QED BY <1>5, <1>6, <1>7, <1>8 DEF WireOK

\* The connect has come to an end: the login is the first message.
LEMMA ConnectedLog ==
    ASSUME TypeOK, TypeOK', LogInv, NEW c \in Clients, Sender(c), VerifyConnected(c)
    PROVE  LogInv'
<1>0. /\ state \in [Clients -> {"CONNECT", "LOGIN", "READY"}]
      /\ msg \in [Clients -> Sent \cup {NoMsg}] /\ off \in [Clients -> 0..Parts]
    BY DEF TypeOK, ClientType
<1>1. PICK k \in Conns : k = Conn(c)
    BY ConnFacts DEF Sender, AtLogin
<1>2. /\ Verify(c) /\ state[c] = "CONNECT" /\ UNCHANGED <<place, wire, snap>>
      /\ msg' = [msg EXCEPT ![c] = Login] /\ off' = [off EXCEPT ![c] = 0]
      /\ state' = [state EXCEPT ![c] = "LOGIN"]
    BY DEF VerifyConnected, Connecting, StartMsg
<1>3. /\ msg'[c] = Login /\ off'[c] = 0 /\ state'[c] = "LOGIN"
      /\ \A d \in Clients : d # c => /\ state'[d] = state[d]
                                     /\ msg'[d] = msg[d] /\ off'[d] = off[d]
    BY <1>0, <1>2
<1>4. UNCHANGED <<nmsg, cur, rx, login, frame, want, got>>
    BY <1>2 DEF Verify, recvVars
<1>5. AtLogin(c, k) /\ wire[k] = <<>> /\ frame[k] = <<>> /\ ~login[k]
    BY <1>1, <1>2 DEF Sender, AtLogin
<1>6. rx[k] # "closed" => StreamOK(k)'
  <2>1. nmsg' >= nmsg
    BY <1>4, BroadcastAssumption DEF TypeOK, QueueType
  <2> QED BY <1>2, <1>4, <2>1, StreamFrame DEF LogInv, StreamInv
<1>7. AtLogin(c, k)'
    BY <1>2, <1>3, <1>4, <1>5 DEF AtLogin
<1>8. AtPart(c, k)'
  <2>1. LastSent(k)' = <<NoMsg, Parts>>
    BY <1>2, <1>4, <1>5 DEF LastSent, At, LastRead
  <2>2. Follows(<<NoMsg, Parts>>, <<Login, 0 + 1>>, snap'[k])
    <3>1. ~(Parts < Parts)
      BY Constants
    <3> QED BY <3>1 DEF Follows, Link
  <2>3. Login # NoMsg /\ 0 < Parts
    BY Constants
  <2> QED BY <1>3, <2>1, <2>2, <2>3 DEF AtPart
<1> QED BY <1>1, <1>2, <1>3, <1>6, <1>7, <1>8, ClientOnly

\* send() takes n parts of the message of client c.
LEMMA PutFacts ==
    ASSUME TypeOK, LogInv, ClientInv, NEW c \in Clients, Sender(c), Verify(c),
           Sending(c), NEW k \in Conns, k = Conn(c), NEW n \in 1..Parts, Put(c, n)
    PROVE  /\ rx[k] # "none" /\ off[c] + n <= Parts /\ msg[c] \in Sent
           /\ \A j \in Conns : j # k => wire'[j] = wire[j]
           /\ rx[k] = "closed" => wire' = wire
           /\ rx[k] # "closed" =>
                 /\ Len(wire'[k]) = Len(wire[k]) + n
                 /\ \A j \in 1..Len(wire[k]) : wire'[k][j] = wire[k][j]
                 /\ \A i \in 1..n : wire'[k][Len(wire[k]) + i] = <<msg[c], off[c] + i>>
                 /\ off[c] < Parts
                 /\ Follows(LastSent(k), <<msg[c], off[c] + 1>>, snap[k])
                 /\ GivenOK(k) /\ FrameOK(k) /\ WireOK(k)
           /\ msg[c] \in Msgs => msg[c] <= nmsg
<1>0. wire \in [Conns -> Stream]
    BY DEF TypeOK, NetType
<1>1. net[k] = "up" /\ off[c] + n <= Parts /\ msg[c] # NoMsg /\ state[c] # "CONNECT"
    BY DEF Put, Sending
<1>2. msg[c] \in Sent /\ (msg[c] \in Msgs => msg[c] <= nmsg) /\ rx[k] # "none"
    BY <1>1 DEF TypeOK, ClientType, ClientInv, LogInv, StreamInv, GivenOK
<1>3. CASE rx[k] = "closed"
    BY <1>1, <1>2, <1>3 DEF Put
<1>4. CASE rx[k] # "closed"
  <2>1. wire' = [wire EXCEPT ![k] = @ \o [i \in 1..n |-> <<msg[c], off[c] + i>>]]
    BY <1>4 DEF Put
  <2>2. /\ wire'[k] = wire[k] \o [i \in 1..n |-> <<msg[c], off[c] + i>>]
        /\ \A j \in Conns : j # k => wire'[j] = wire[j]
    BY <1>0, <2>1
  <2>3. n \in Nat
    BY Constants
  <2>4. /\ Len(wire'[k]) = Len(wire[k]) + n
        /\ \A j \in 1..Len(wire[k]) : wire'[k][j] = wire[k][j]
        /\ \A i \in 1..n : wire'[k][Len(wire[k]) + i] = <<msg[c], off[c] + i>>
    BY <1>1, <2>2, <2>3, PutParts
  <2>5. off[c] < Parts /\ Follows(LastSent(k), <<msg[c], off[c] + 1>>, snap[k])
    BY <1>1, <1>4 DEF Sender, AtPart
  <2>6. GivenOK(k) /\ FrameOK(k) /\ WireOK(k)
    BY <1>4 DEF LogInv, StreamInv, StreamOK
  <2> QED BY <1>1, <1>2, <1>4, <2>2, <2>4, <2>5, <2>6
<1> QED BY <1>3, <1>4

\* With the same snapshot the stream stays one, and its end moves on.
LEMMA PutSame ==
    ASSUME TypeOK, TypeOK', LogInv, ClientInv, NEW c \in Clients, Sender(c), Verify(c),
           Sending(c), NEW k \in Conns, k = Conn(c), NEW n \in 1..Parts, Put(c, n),
           UNCHANGED snap, rx[k] # "closed"
    PROVE  StreamOK(k)' /\ LastSent(k)' = <<msg[c], off[c] + n>>
<1>1. UNCHANGED <<nmsg, login, frame, want, got>>
    BY DEF Verify, recvVars
<1>2. /\ off[c] + n <= Parts /\ msg[c] # NoMsg
      /\ Len(wire'[k]) = Len(wire[k]) + n
      /\ \A j \in 1..Len(wire[k]) : wire'[k][j] = wire[k][j]
      /\ \A i \in 1..n : wire'[k][Len(wire[k]) + i] = <<msg[c], off[c] + i>>
      /\ Follows(LastSent(k), <<msg[c], off[c] + 1>>, snap[k])
      /\ FrameOK(k) /\ WireOK(k) /\ (msg[c] \in Msgs => msg[c] <= nmsg)
    BY PutFacts DEF Sending
<1>3. WireOK(k)' /\ LastSent(k)' = <<msg[c], off[c] + n>>
  <2>1. /\ wire[k] # <<>> => Follows(At(k), wire[k][1], snap[k])
        /\ \A j \in 1..Len(wire[k])-1 : Follows(wire[k][j], wire[k][j+1], snap[k])
    BY <1>2 DEF WireOK
  <2> QED BY <1>1, <1>2, <2>1, PutStream
<1>4. FrameOK(k)'
  <2>1. LastRead(k)' = LastRead(k)
    BY <1>1 DEF LastRead
  <2> QED BY <1>1, <1>2, <2>1 DEF FrameOK, Broadcasted
<1> QED BY <1>3, <1>4 DEF StreamOK

LEMMA SendPartLog ==
    ASSUME TypeOK, TypeOK', LogInv, ClientInv, NEW c \in Clients, Sender(c),
           VerifySendPart(c)
    PROVE  LogInv'
<1>0. off \in [Clients -> 0..Parts] /\ off[c] \in Nat
    BY Constants DEF TypeOK, ClientType
<1>1. PICK k \in Conns : k = Conn(c)
    BY ConnFacts DEF Sender, AtLogin
<1>2. Verify(c) /\ Sending(c) /\ UNCHANGED <<place, state, msg, snap>>
    BY DEF VerifySendPart
<1>3. PICK n \in 1..Parts-1 : /\ Put(c, n) /\ off[c] + n < Parts
                              /\ off' = [off EXCEPT ![c] = @ + n]
    BY DEF VerifySendPart
<1>4. n \in 1..Parts /\ n \in Nat /\ n >= 1
    BY <1>3, Constants
<1>5. /\ off'[c] = off[c] + n
      /\ \A d \in Clients : d # c => off'[d] = off[d]
    BY <1>0, <1>3
<1>6. UNCHANGED <<nmsg, queue, shutdownPending, cur, rx, login, frame, want, got>>
    BY <1>2 DEF Verify, recvVars
<1>7. /\ rx[k] # "none" /\ msg[c] \in Sent
      /\ \A j \in Conns : j # k => wire'[j] = wire[j]
      /\ rx[k] = "closed" => wire' = wire
      /\ rx[k] # "closed" =>
           /\ Len(wire'[k]) = Len(wire[k]) + n
           /\ \A j \in 1..Len(wire[k]) : wire'[k][j] = wire[k][j]
           /\ \A i \in 1..n : wire'[k][Len(wire[k]) + i] = <<msg[c], off[c] + i>>
    BY <1>1, <1>2, <1>3, <1>4, PutFacts
<1>8. rx[k] # "closed" => StreamOK(k)' /\ LastSent(k)' = <<msg[c], off[c] + n>>
    BY <1>1, <1>2, <1>3, <1>4, PutSame
<1>9. AtLogin(c, k) /\ AtPart(c, k) /\ state[c] # "CONNECT"
    BY <1>1, <1>2 DEF Sender, Sending
<1>10. AtLogin(c, k)'
  <2>1. ASSUME msg[c] = Login, NEW j \in 1..Len(wire'[k])
        PROVE  wire'[k][j][1] = Login /\ wire'[k][j][2] <= off'[c]
    <3>1. /\ \A i \in 1..Len(wire[k]) :
                wire[k][i][1] = Login /\ wire[k][i][2] <= off[c]
          /\ \A i \in 1..Len(wire[k]) : wire[k][i][2] \in Nat
          /\ Len(wire[k]) \in Nat
      BY <1>9, <2>1, StreamTypes, Constants, SMTT(30) DEF AtLogin
    <3>2. CASE j \in 1..Len(wire[k])
      <4>1. wire'[k][j] = wire[k][j]
        BY <1>7, <3>2
      <4> QED BY <1>0, <1>4, <1>5, <3>1, <3>2, <4>1
    <3>3. CASE j \notin 1..Len(wire[k])
      <4>1. PICK i \in 1..n : j = Len(wire[k]) + i
        <5>1. rx[k] # "closed" /\ Len(wire'[k]) = Len(wire[k]) + n
          BY <1>7, <3>3
        <5>2. j - Len(wire[k]) \in 1..n /\ j = Len(wire[k]) + (j - Len(wire[k]))
          BY <1>4, <3>1, <3>3, <5>1
        <5> QED BY <5>2
      <4>2. wire'[k][j] = <<Login, off[c] + i>>
        BY <1>7, <2>1, <3>3, <4>1
      <4>3. off[c] + i <= off[c] + n
        BY <1>0, <1>4
      <4> QED BY <1>5, <4>2, <4>3
    <3> QED BY <3>2, <3>3
  <2>2. ASSUME msg'[c] = Login
        PROVE  /\ state'[c] = "LOGIN" /\ ~login'[k]
               /\ \A j \in 1..Len(wire'[k]) :
                     wire'[k][j][1] = Login /\ wire'[k][j][2] <= off'[c]
    BY <1>2, <1>6, <1>9, <2>1, <2>2 DEF AtLogin
  <2> QED BY <1>2, <1>6, <1>9, <2>2 DEF AtLogin
<1>11. AtPart(c, k)'
  <2> SUFFICES ASSUME rx[k] # "closed"
               PROVE  /\ off'[c] < Parts
                      /\ Follows(LastSent(k)', <<msg'[c], off'[c] + 1>>, snap'[k])
                      /\ ~shutdownPending' /\ msg'[c] # Login =>
                            Due(Cursor(c, k), snap[k])'
    BY <1>2, <1>6, <1>7, Constants DEF AtPart
  <2>1. Follows(<<msg[c], off[c] + n>>, <<msg[c], off[c] + n + 1>>, snap[k])
    BY <1>3 DEF Follows
  <2>2. msg[c] # NoMsg
    BY <1>7, Constants
  <2>3. ~shutdownPending /\ msg[c] # Login => Due(msg[c], snap[k])
    BY <1>9, <2>2 DEF AtPart, Cursor
  <2>4. Cursor(c, k)' = msg[c]
    BY <1>2, <2>2 DEF Cursor
  <2>5. Taken' = Taken
    BY <1>6 DEF Taken
  <2>6. ~shutdownPending' /\ msg'[c] # Login => Due(Cursor(c, k), snap[k])'
    BY <1>2, <1>6, <2>3, <2>4, <2>5 DEF Due
  <2> QED BY <1>2, <1>3, <1>5, <1>8, <2>1, <2>6
<1> QED BY <1>1, <1>2, <1>5, <1>7, <1>8, <1>10, <1>11, ClientOnly

LEMMA SendDoneLog ==
    ASSUME TypeOK, TypeOK', LogInv, ClientInv, NEW c \in Clients, Sender(c),
           VerifySendDone(c)
    PROVE  LogInv'
<1>0. /\ off \in [Clients -> 0..Parts] /\ msg \in [Clients -> Sent \cup {NoMsg}]
      /\ off[c] \in Nat
    BY Constants DEF TypeOK, ClientType
<1>1. PICK k \in Conns : k = Conn(c)
    BY ConnFacts DEF Sender, AtLogin
<1>2. /\ Verify(c) /\ Sending(c) /\ Put(c, Parts - off[c]) /\ ~LoginDone(c)
      /\ UNCHANGED <<place, state, snap>>
      /\ msg' = [msg EXCEPT ![c] = NoMsg] /\ off' = [off EXCEPT ![c] = 0]
    BY DEF VerifySendDone, MsgDone, StartMsg
<1>3. AtLogin(c, k) /\ AtPart(c, k) /\ state[c] # "CONNECT" /\ msg[c] # NoMsg
    BY <1>1, <1>2 DEF Sender, Sending
<1>4. /\ msg'[c] = NoMsg /\ off'[c] = 0
      /\ \A d \in Clients : d # c => off'[d] = off[d] /\ msg'[d] = msg[d]
    BY <1>0, <1>2
<1>5. UNCHANGED <<nmsg, queue, shutdownPending, cur, rx, login, frame, want, got>>
    BY <1>2 DEF Verify, recvVars
<1>6. /\ \A j \in Conns : j # k => wire'[j] = wire[j]
      /\ rx[k] = "none" => wire'[k] = wire[k]
  <2>1. net[k] = "up" => rx[k] # "none"
    BY DEF LogInv, StreamInv, GivenOK
  <2>2. wire \in [Conns -> Stream]
    BY DEF TypeOK, NetType
  <2> QED BY <1>1, <1>2, <2>1, <2>2 DEF Put
<1>7. rx[k] # "closed" => StreamOK(k)' /\ LastSent(k)' = <<msg[c], Parts>>
  <2> SUFFICES ASSUME rx[k] # "closed"
               PROVE  StreamOK(k)' /\ LastSent(k)' = <<msg[c], Parts>>
    OBVIOUS
  <2>1. off[c] < Parts
    BY <1>3 DEF AtPart
  <2>2. Parts - off[c] \in 1..Parts /\ off[c] + (Parts - off[c]) = Parts
    BY <1>0, <2>1, Constants
  <2> QED BY <1>1, <1>2, <2>2, PutSame
<1>8. AtLogin(c, k)'
  <2>1. NoMsg # Login
    BY Constants
  <2> QED BY <1>2, <1>3, <1>4, <1>5, <2>1 DEF AtLogin, LoginDone
<1>9. AtPart(c, k)'
  <2> SUFFICES ASSUME rx[k] # "closed"
               PROVE  /\ LastSent(k)'[1] # NoMsg /\ LastSent(k)'[2] = Parts
                      /\ ~shutdownPending' => Due(Cursor(c, k), snap[k])'
    BY <1>4, <1>5 DEF AtPart
  <2>1. Cursor(c, k)' = msg[c]
    BY <1>4, <1>7 DEF Cursor
  <2>2. ~shutdownPending => Due(msg[c], snap[k])
    <3>1. CASE msg[c] # Login
      BY <1>3, <3>1 DEF AtPart, Cursor
    <3>2. CASE msg[c] = Login
      <4>1. InitResults = {}
        BY <1>2, <1>3, <3>2 DEF AtLogin, LoginDone
      <4>2. ~InitAlways
        BY <4>1 DEF InitAlways
      <4>3. Login # InitMsg /\ Login \notin Msgs
        BY Constants, BroadcastAssumption DEF Login, InitMsg
      <4> QED BY <3>2, <4>2, <4>3 DEF Due
    <3> QED BY <3>1, <3>2
  <2>3. Taken' = Taken
    BY <1>5 DEF Taken
  <2>4. ~shutdownPending' => Due(Cursor(c, k), snap[k])'
    BY <1>2, <1>5, <2>1, <2>2, <2>3 DEF Due
  <2> QED BY <1>3, <1>7, <2>4
<1> QED BY <1>1, <1>2, <1>4, <1>6, <1>7, <1>8, <1>9, ClientOnly

\* A part of the login may follow whatever the snapshot is.
LEMMA FollowsLogin ==
    ASSUME NEW p, NEW q, NEW s, NEW t, q[1] = Login, Follows(p, q, s)
    PROVE  Follows(p, q, t)
<1>1. Login # InitMsg /\ Login \notin Msgs
    BY Constants, BroadcastAssumption DEF Login, InitMsg
<1> QED BY <1>1 DEF Follows, Link

\* The login is sent: the initial message holds the log up to here.
LEMMA LoginDoneLog ==
    ASSUME TypeOK, TypeOK', LogInv, ClientInv, NEW c \in Clients, Sender(c),
           VerifyLoginDone(c)
    PROVE  LogInv'
<1>0. /\ off \in [Clients -> 0..Parts] /\ msg \in [Clients -> Sent \cup {NoMsg}]
      /\ state \in [Clients -> {"CONNECT", "LOGIN", "READY"}]
      /\ off[c] \in Nat /\ nmsg \in 0..MaxMsgs /\ nmsg \in Nat
      /\ snap \in [Conns -> 0..NoSnap] /\ wire \in [Conns -> Stream]
      /\ queue \in Seq(Msgs) /\ Len(queue) \in Nat
    BY Constants DEF TypeOK, ClientType, QueueType, NetType
<1>1. PICK k \in Conns : k = Conn(c)
    BY ConnFacts DEF Sender, AtLogin
<1>2. /\ Verify(c) /\ Sending(c) /\ Put(c, Parts - off[c]) /\ LoginDone(c)
      /\ UNCHANGED place /\ snap' = [snap EXCEPT ![k] = nmsg]
      /\ state' = [state EXCEPT ![c] = "READY"]
    BY <1>1 DEF VerifyLoginDone
<1>3. PICK r \in InitResults :
          /\ msg' = [msg EXCEPT ![c] = IF r = "msg" THEN InitMsg ELSE NoMsg]
          /\ off' = [off EXCEPT ![c] = 0]
    BY DEF VerifyLoginDone, StartMsg
<1>4. /\ AtLogin(c, k) /\ AtPart(c, k) /\ state[c] = "LOGIN" /\ msg[c] = Login
      /\ ~login[k]
    BY <1>1, <1>2 DEF Sender, LoginDone, AtLogin
<1>5. /\ msg'[c] = (IF r = "msg" THEN InitMsg ELSE NoMsg) /\ off'[c] = 0
      /\ state'[c] = "READY" /\ snap'[k] = nmsg
      /\ \A d \in Clients : d # c => /\ off'[d] = off[d] /\ msg'[d] = msg[d]
                                     /\ state'[d] = state[d]
      /\ \A j \in Conns : j # k => snap'[j] = snap[j]
    BY <1>0, <1>2, <1>3
<1>6. UNCHANGED <<nmsg, queue, shutdownPending, cur, rx, login, frame, want, got>>
    BY <1>2 DEF Verify, recvVars
<1>7. /\ \A j \in Conns : j # k => wire'[j] = wire[j]
      /\ rx[k] = "none" => wire'[k] = wire[k]
  <2>1. net[k] = "up" => rx[k] # "none"
    BY DEF LogInv, StreamInv, GivenOK
  <2> QED BY <1>0, <1>1, <1>2, <2>1 DEF Put
<1>8. ASSUME rx[k] # "closed"
      PROVE  StreamOK(k)' /\ LastSent(k)' = <<Login, Parts>>
  <2>1. off[c] < Parts
    BY <1>4, <1>8, Constants DEF AtPart
  <2>2. PICK n \in 1..Parts : n = Parts - off[c] /\ off[c] + n = Parts
    BY <1>0, <2>1, Constants, SMTT(30)
  <2>3. /\ off[c] + n <= Parts /\ msg[c] # NoMsg
        /\ Len(wire'[k]) = Len(wire[k]) + n
        /\ \A j \in 1..Len(wire[k]) : wire'[k][j] = wire[k][j]
        /\ \A i \in 1..n : wire'[k][Len(wire[k]) + i] = <<msg[c], off[c] + i>>
        /\ Follows(LastSent(k), <<msg[c], off[c] + 1>>, snap[k])
        /\ FrameOK(k) /\ WireOK(k) /\ (msg[c] \in Msgs => msg[c] <= nmsg)
    BY <1>1, <1>2, <1>8, <2>2, PutFacts DEF Sending
  <2>4. \A j \in 1..Len(wire[k]) : wire[k][j][1] = Login
    BY <1>4 DEF AtLogin
  <2>5. wire[k] # <<>> => Follows(At(k), wire[k][1], snap'[k])
    <3>1. wire[k] # <<>> => 1 \in 1..Len(wire[k])
      BY StreamTypes, EmptySeq
    <3> QED BY <2>3, <2>4, <3>1, FollowsLogin DEF WireOK
  <2>6. ASSUME NEW j \in 1..Len(wire[k])-1
        PROVE  Follows(wire[k][j], wire[k][j+1], snap'[k])
    <3>1. j + 1 \in 1..Len(wire[k])
      BY StreamTypes
    <3> QED BY <2>3, <2>4, <3>1, FollowsLogin DEF WireOK
  <2>7. Follows(LastSent(k), <<msg[c], off[c] + 1>>, snap'[k])
    <3>1. <<msg[c], off[c] + 1>>[1] = Login
      BY <1>4
    <3> QED BY <2>3, <3>1, FollowsLogin
  <2>8. WireOK(k)' /\ LastSent(k)' = <<Login, Parts>>
    BY <1>4, <1>6, <2>2, <2>3, <2>5, <2>6, <2>7, PutStream
  <2>9. FrameOK(k)'
    <3>1. LastRead(k)' = LastRead(k) /\ LastRead(k) = NoMsg
      BY <1>4, <1>6 DEF LastRead
    <3>2. NoMsg # Login /\ NoMsg # InitMsg /\ NoMsg \notin Msgs
      BY Constants
    <3>3. \A b : Link(NoMsg, b, snap[k]) => Link(NoMsg, b, snap'[k])
      BY <3>2 DEF Link
    <3> QED BY <1>6, <2>3, <3>1, <3>3 DEF FrameOK, Broadcasted
  <2> QED BY <2>8, <2>9 DEF StreamOK
<1>9. AtLogin(c, k)'
  <2>1. NoMsg # Login /\ InitMsg # Login
    BY Constants, BroadcastAssumption DEF Login, InitMsg
  <2> QED BY <1>4, <1>5, <1>6, <2>1 DEF AtLogin
<1>10. AtPart(c, k)'
  <2> SUFFICES ASSUME rx[k] # "closed"
               PROVE  /\ msg'[c] # NoMsg =>
                            /\ off'[c] < Parts
                            /\ Follows(LastSent(k)', <<msg'[c], off'[c] + 1>>, snap'[k])
                      /\ msg'[c] = NoMsg => LastSent(k)'[1] # NoMsg
                                            /\ LastSent(k)'[2] = Parts
                      /\ Due(Cursor(c, k), snap[k])'
    BY <1>6 DEF AtPart
  <2>0. /\ InitMsg # NoMsg /\ Login # NoMsg /\ InitMsg # Login /\ 0 < Parts
        /\ Login \notin Msgs /\ InitMsg \notin Msgs
    BY Constants, BroadcastAssumption DEF Login, InitMsg
  <2>1. LastSent(k)' = <<Login, Parts>>
    BY <1>8
  <2>2. nmsg # NoSnap
    BY <1>0, BroadcastAssumption DEF NoSnap
  <2>3. CASE r = "msg"
    <3>1. Follows(<<Login, Parts>>, <<InitMsg, 0 + 1>>, nmsg)
      <4>1. ~(Parts < Parts)
        BY Constants
      <4> QED BY <2>2, <4>1 DEF Follows, Link
    <3>2. Cursor(c, k)' = InitMsg
      BY <1>5, <2>0, <2>3 DEF Cursor
    <3>3. Taken' <= snap'[k]
      BY <1>0, <1>5, <1>6 DEF Taken
    <3>4. Due(Cursor(c, k), snap[k])'
      BY <1>5, <2>0, <2>2, <3>2, <3>3 DEF Due
    <3> QED BY <1>5, <2>0, <2>1, <2>3, <3>1, <3>4
  <2>4. CASE r # "msg"
    <3>1. ~InitAlways
      BY <2>4 DEF InitAlways
    <3>2. Cursor(c, k)' = Login
      BY <1>5, <2>1, <2>4 DEF Cursor
    <3>3. Due(Cursor(c, k), snap[k])'
      BY <2>0, <3>1, <3>2 DEF Due
    <3> QED BY <1>5, <2>0, <2>1, <2>4, <3>3
  <2> QED BY <2>3, <2>4
<1> QED BY <1>1, <1>2, <1>5, <1>7, <1>8, <1>9, <1>10, ClientOnly

LEMMA ClientLog ==
    ASSUME TypeOK, TypeOK', LogInv, ClientInv, ~HasTimeout, NEW c \in Clients,
           ClientStep(c)
    PROVE  LogInv'
<1>1. Verify(c)
    BY DEF ClientStep, VerifyConnected, VerifyRefused, VerifyDropped,
       VerifySendFail, VerifySendPart, VerifySendDone, VerifyLoginDone,
       VerifyTimeout, VerifyNothing
<1>2. Sender(c)
    BY <1>1 DEF Verify, ClientInv, LogInv, SenderInv
<1>3. CASE VerifyRefused(c) \/ VerifyDropped(c) \/ VerifySendFail(c)
    BY <1>1, <1>2, <1>3, RetryClientLog DEF VerifyRefused, VerifyDropped, VerifySendFail
<1>4. CASE VerifyNothing(c)
    BY <1>1, <1>4, QuietLog DEF VerifyNothing, Verify
<1>5. ~VerifyTimeout(c)
    BY DEF VerifyTimeout
<1> QED BY <1>2, <1>3, <1>4, <1>5, ConnectedLog, SendPartLog, SendDoneLog,
       LoginDoneLog DEF ClientStep

-----------------------------------------------------------------------------
(* The invariant, and what follows from it.                                *)

LEMMA LogInvariant ==
    ASSUME ~HasTimeout PROVE Spec => []LogInv
<1>1. TypeOK /\ TypeOK' /\ RefInv /\ LogInv /\ [Next]_vars => LogInv'
  <2> SUFFICES ASSUME TypeOK, TypeOK', RefInv, LogInv, [Next]_vars PROVE LogInv'
    OBVIOUS
  <2>1. ClientInv
    BY DEF RefInv
  <2>2. CASE UNCHANGED vars
    BY <2>2, QuietLog DEF vars, queueVars, clientVars, netVars
  <2>3. CASE Next
    BY <2>1, <2>3, UserLog, LoopLog, ClientLog, ReceiverLog DEF Next, BroadcasterStep
  <2> QED BY <2>2, <2>3
<1> QED BY <1>1, InitLog, RefInvariant, BroadcastTypeCorrect, PTL DEF Spec

\* MsgSend, ClientSend and RecvMsg: when no timeoutinterval is configured a
\* receiver's callback gets whole messages only, and never the login.  With one
\* the code sends a new login in the middle of a message.
THEOREM FramesAlwaysIntact ==
    ASSUME ~HasTimeout PROVE Spec => []FramesIntact
<1>1. TypeOK /\ LogInv => FramesIntact
  <2> SUFFICES ASSUME TypeOK, LogInv, NEW k \in Conns
               PROVE  Range(got[k]) \subseteq Msgs \cup {InitMsg}
    BY DEF FramesIntact
  <2>1. DOMAIN got[k] = 1..Len(got[k])
    BY StreamTypes, LenProperties
  <2> QED BY <2>1 DEF LogInv, StreamInv, GivenOK, Range
<1> QED BY <1>1, LogInvariant, BroadcastTypeCorrect, PTL

LEMMA InitMaps == Init => Log!LogInit
BY DEF Init, Log!LogInit, Log!Conns, Conns, Log!NoSnap, NoSnap

\* The callback gets a message that may come next.
LEMMA CallMaps ==
    ASSUME TypeOK, LogInv, NEW k \in Conns, RecvCall(k)
    PROVE  Log!LogNext
<1>1. PICK m \in Msgs \cup {InitMsg} :
              /\ got' = [got EXCEPT ![k] = Append(@, m)]
              /\ wire[k][1] = <<m, Parts>>
              /\ Link(LastRead(k), m, snap[k])
              /\ m \in Msgs => m <= nmsg
    BY GivenNext
<1>2. UNCHANGED <<nmsg, snap>> /\ login[k]
    BY DEF RecvCall, CloseRecv, queueVars
<1>3. /\ Login \notin Msgs /\ InitMsg \notin Msgs /\ NoMsg \notin Msgs
      /\ Login # InitMsg /\ Login # NoMsg /\ InitMsg # NoMsg
    BY Constants, BroadcastAssumption DEF Login, InitMsg
<1>4. GivenOK(k) /\ (got[k] # <<>> => Len(got[k]) \in 1..Len(got[k]))
    BY StreamTypes, EmptySeq DEF LogInv, StreamInv
<1>5. m \in Log!Successors(got[k], snap[k])
  <2>1. CASE got[k] = <<>>
    <3>1. LastRead(k) = Login
      BY <1>2, <2>1 DEF LastRead
    <3> QED BY <1>1, <1>3, <2>1, <3>1 DEF Link, InitAlways, Log!Successors
  <2>2. CASE got[k] # <<>> /\ got[k][Len(got[k])] = InitMsg
    <3>1. LastRead(k) = InitMsg
      BY <1>2, <2>2 DEF LastRead
    <3>2. m \in Msgs /\ m <= snap[k] + 1
      BY <1>1, <1>3, <3>1 DEF Link
    <3>3. snap[k] \in Nat /\ m \in Nat /\ m >= 1
      BY <3>2, BroadcastAssumption DEF TypeOK, NetType, NoSnap, Msgs
    <3> QED BY <2>2, <3>2, <3>3 DEF Log!Successors
  <2>3. CASE got[k] # <<>> /\ got[k][Len(got[k])] # InitMsg
    <3>1. LastRead(k) = got[k][Len(got[k])] /\ LastRead(k) \in Msgs
      BY <1>2, <1>4, <2>3 DEF LastRead, GivenOK
    <3>2. m = got[k][Len(got[k])] + 1
      BY <1>1, <1>3, <3>1 DEF Link
    <3> QED BY <2>3, <3>2 DEF Log!Successors
  <2> QED BY <2>1, <2>2, <2>3
<1>6. IF m \in Msgs THEN m <= nmsg ELSE snap[k] # NoSnap
    BY <1>1, <1>3 DEF Link
<1>7. Log!Msgs = Msgs /\ Log!Conns = Conns /\ Log!NoSnap = NoSnap
    BY DEF Log!Msgs, Msgs, Log!Conns, Conns, Log!NoSnap, NoSnap
<1>8. Log!Deliver(k, m)
    BY <1>1, <1>2, <1>5, <1>6, <1>7 DEF Log!Deliver
<1> QED BY <1>7, <1>8 DEF Log!LogNext

\* The login is sent, and the initProc makes its message.
LEMMA LoginDoneMaps ==
    ASSUME TypeOK, LogInv, ClientInv, NEW c \in Clients, VerifyLoginDone(c)
    PROVE  Log!LogNext
<1>1. Sender(c)
    BY DEF VerifyLoginDone, Verify, ClientInv, LogInv, SenderInv
<1>2. PICK k \in Conns : k = Conn(c)
    BY <1>1, ConnFacts DEF Sender, AtLogin
<1>3. /\ snap' = [snap EXCEPT ![k] = nmsg] /\ UNCHANGED <<nmsg, got>> /\ LoginDone(c)
    BY <1>2 DEF VerifyLoginDone, Verify, recvVars
<1>4. ~login[k]
    BY <1>1, <1>2, <1>3 DEF Sender, AtLogin, LoginDone
<1>5. got[k] = <<>>
    BY <1>4 DEF LogInv, StreamInv, GivenOK
<1>6. Log!Snapshot(k)
    BY <1>3, <1>5 DEF Log!Snapshot
<1> QED BY <1>6 DEF Log!LogNext, Log!Conns, Conns

LEMMA StepMaps ==
    ASSUME TypeOK, LogInv, ClientInv, [Next]_vars
    PROVE  [Log!LogNext]_(Log!logVars)
<1>1. CASE UNCHANGED <<nmsg, got, snap>>
    BY <1>1 DEF Log!logVars
<1>2. CASE Dci_Broadcast
  <2>1. Log!Publish
    BY <1>2 DEF Dci_Broadcast, Log!Publish, netVars, recvVars
  <2> QED BY <2>1 DEF Log!LogNext
<1>3. CASE StatsLock \/ StatsRead \/ StopFlag \/ StopTrigger \/ StopJoin
    BY <1>1, <1>3 DEF StatsLock, StatsRead, StopFlag, StopTrigger, StopJoin,
       queueVars, netVars, recvVars
<1>4. CASE TopRetry \/ TopSkip \/ Poll \/ VerifyEnd \/ NextMsg \/ Stopping
    BY <1>1, <1>4 DEF TopRetry, TopSkip, Poll, VerifyEnd, NextMsg, Stopping,
       queueVars, netVars, recvVars
<1>5. ASSUME NEW c \in Clients, ClientStep(c) PROVE [Log!LogNext]_(Log!logVars)
  <2>1. CASE VerifyLoginDone(c)
    BY <2>1, LoginDoneMaps
  <2>2. CASE ~VerifyLoginDone(c)
    BY <1>1, <1>5, <2>2 DEF ClientStep, VerifyConnected, VerifyRefused,
       VerifyDropped, VerifySendFail, VerifySendPart, VerifySendDone,
       VerifyTimeout, VerifyNothing, Verify, recvVars
  <2> QED BY <2>1, <2>2
<1>6. ASSUME NEW k \in Conns,
             RecvAccept(k) \/ Refuse(k) \/ Break(k) \/ RecvExit(k) \/ RecvStep(k)
      PROVE  [Log!LogNext]_(Log!logVars)
  <2>1. CASE RecvCall(k)
    BY <2>1, CallMaps
  <2>2. CASE ~RecvCall(k)
    BY <1>1, <1>6, <2>2 DEF RecvAccept, Refuse, Break, RecvExit, RecvStep, RecvEnd,
       RecvLength, RecvBody, RecvLogin, CloseRecv, queueVars, recvVars
  <2> QED BY <2>1, <2>2
<1>7. CASE UNCHANGED vars
    BY <1>1, <1>7 DEF vars, queueVars, netVars, recvVars
<1> QED BY <1>2, <1>3, <1>4, <1>5, <1>6, <1>7 DEF Next, BroadcasterStep

\* Dci_Broadcast, the broadcaster's thread and the receivers implement the log
\* when no timeoutinterval is configured: every connection reads the log
\* forwards, from its initial message on, without a gap.
THEOREM BroadcastImplementsLog ==
    ASSUME ~HasTimeout PROVE Spec => ImplementsLog
<1>1. TypeOK /\ RefInv /\ LogInv /\ [Next]_vars => [Log!LogNext]_(Log!logVars)
    BY StepMaps DEF RefInv
<1> QED BY <1>1, InitMaps, LogInvariant, RefInvariant, BroadcastTypeCorrect, PTL
       DEF Spec, ImplementsLog, Log!LogSpec
=============================================================================
