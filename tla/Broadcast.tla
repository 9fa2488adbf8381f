----------------------------- MODULE Broadcast -----------------------------
(***************************************************************************)
(* A broadcaster and the receivers of its clients: dcicommon/broadcast.c   *)
(* and dcicommon/receiver.c.                                               *)
(*                                                                         *)
(* Any thread queues a message with Dci_Broadcast.  The broadcaster thread *)
(* keeps a connection to every client, logs in, sends the message of the   *)
(* initProc, and then sends one queued message at a time to all connected  *)
(* clients: the next one is taken when nobody is sending any more.  The    *)
(* receiver cuts the bytes of a connection into messages again; the first  *)
(* is the login.                                                           *)
(*                                                                         *)
(* The bytes of a message are Parts parts <<m, 1>> .. <<m, Parts>>, the    *)
(* first one its length.  Messages are numbered in the order in which they *)
(* were queued.  Clock times are left out: a retry is due, and a send too  *)
(* old, at any time.  The order of the client lists is left out too: the   *)
(* loops over them treat every client by itself.                           *)
(***************************************************************************)
EXTENDS Integers, Sequences, FiniteSets, Functions

CONSTANTS
    Clients,      \* the configured clients of the broadcaster
    MaxMsgs,      \* bound on the messages broadcast
    MaxConns,     \* bound on the connections made to one client
    MaxFaults,    \* bound on the failures of connections and receivers
    MaxStats,     \* bound on the calls of broadcast.stats
    Parts,        \* parts of a message; part 1 is the length
    Room,         \* parts a socket's buffers take
    InitResults,  \* what initProc can return: "msg", "null"; {} for no initProc
    HasTimeout    \* timeoutinterval is configured

Msgs    == 1..MaxMsgs
NoMsg   == 0
Login   == MaxMsgs + 1
InitMsg == MaxMsgs + 2     \* the message initProc returns
Garbled == MaxMsgs + 3     \* a frame that is not one message
NoSnap  == MaxMsgs + 1     \* for snap: no initial message yet
Sent    == Msgs \cup {Login, InitMsg}
Conns   == Clients \X (1..MaxConns)

ASSUME BroadcastAssumption ==
    /\ IsFiniteSet(Clients)
    /\ MaxMsgs \in Nat /\ MaxConns \in Nat /\ MaxFaults \in Nat
    /\ MaxStats \in Nat /\ Room \in Nat \ {0} /\ Parts \in Nat \ {0, 1}
    /\ InitResults \subseteq {"msg", "null"} /\ HasTimeout \in BOOLEAN

VARIABLES
    \* Shared, under the mutex lock.
    queue,        \* firstMsgPtr .. lastMsgPtr
    ref,          \* refcnt of the messages; 0 when there is no such message
    pipe,         \* bytes in triggerPipe
    shutdownPending,
    nmsg,         \* messages broadcast so far
    \* The other threads.
    stats,        \* broadcast.stats: "idle", or "wait" with lock held
    nstats,
    stop,         \* StopBroadcasters: "no", "flagged", "wait", "joined"
    \* The broadcaster thread.
    pc,
    hot,          \* its msgPtr # NULL
    todo,         \* active clients not yet verified in this pass
    \* The Client structs.
    place,        \* the list it is on: "active" or "retry"
    state, msg,
    off,          \* parts of msg sent: bufPtr, nsend
    revents,
    cur,          \* number of its connection, the last one made
    \* The connections.
    net,
    wire,         \* parts sent and not received
    \* The Sock structs of the receivers.
    rx,           \* "none", "open" or "closed"
    login,        \* recvPtr # NULL
    frame,        \* parts of the frame being read
    want,         \* parts of its body
    got,          \* messages given to the receiver's callback
    snap,         \* messages broadcast when its InitMsg was made, or NoSnap
    nfault

queueVars  == <<queue, ref, pipe, shutdownPending, nmsg>>
otherVars  == <<stats, nstats, stop>>
threadVars == <<pc, hot, todo>>
clientVars == <<place, state, msg, off, revents, cur>>
netVars    == <<net, wire, snap, nfault>>
recvVars   == <<rx, login, frame, want, got>>
vars == <<queueVars, otherVars, threadVars, clientVars, netVars, recvVars>>

-----------------------------------------------------------------------------
QueueType ==
    /\ queue \in Seq(Msgs) /\ ref \in [Msgs -> Int] /\ pipe \in Nat
    /\ shutdownPending \in BOOLEAN /\ nmsg \in 0..MaxMsgs

OtherType ==
    /\ stats \in {"idle", "wait"} /\ nstats \in 0..MaxStats
    /\ stop \in {"no", "flagged", "wait", "joined"}

ThreadType ==
    /\ pc \in {"top", "poll", "verify", "next", "done"}
    /\ hot \in BOOLEAN /\ todo \in SUBSET Clients

ClientType ==
    /\ place \in [Clients -> {"active", "retry"}]
    /\ state \in [Clients -> {"CONNECT", "LOGIN", "READY"}]
    /\ msg \in [Clients -> Sent \cup {NoMsg}]
    /\ off \in [Clients -> 0..Parts]
    /\ revents \in [Clients -> SUBSET {"in", "out"}]
    /\ cur \in [Clients -> 0..MaxConns]

Stream == Seq(Sent \X (1..Parts))

NetType ==
    /\ net \in [Conns -> {"unused", "syn", "refused", "up", "broken"}]
    /\ wire \in [Conns -> Stream]
    /\ snap \in [Conns -> 0..NoSnap] /\ nfault \in 0..MaxFaults

RecvType ==
    /\ rx \in [Conns -> {"none", "open", "closed"}]
    /\ login \in [Conns -> BOOLEAN]
    /\ frame \in [Conns -> Stream]
    /\ want \in [Conns -> 0..Parts]
    /\ got \in [Conns -> Seq(Sent \cup {Garbled})]

TypeOK == /\ QueueType /\ OtherType /\ ThreadType
          /\ ClientType /\ NetType /\ RecvType

Active    == {c \in Clients : place[c] = "active"}
Retrying  == Clients \ Active
Conn(c)   == <<c, cur[c]>>
\* The broadcaster has not closed its end.
SockOpen(k) == place[k[1]] = "active" /\ cur[k[1]] = k[2]

\* Dci_CreateBroadcaster.  The thread's msgPtr is not initialised.
Init ==
    /\ queue = <<>> /\ ref = [m \in Msgs |-> 0] /\ pipe = 0
    /\ shutdownPending = FALSE /\ nmsg = 0
    /\ stats = "idle" /\ nstats = 0 /\ stop = "no"
    /\ pc = "top" /\ hot \in BOOLEAN /\ todo = {}
    /\ place = [c \in Clients |-> "retry"]
    /\ state = [c \in Clients |-> "CONNECT"]
    /\ msg = [c \in Clients |-> NoMsg] /\ off = [c \in Clients |-> 0]
    /\ revents = [c \in Clients |-> {}] /\ cur = [c \in Clients |-> 0]
    /\ net = [k \in Conns |-> "unused"] /\ wire = [k \in Conns |-> <<>>]
    /\ snap = [k \in Conns |-> NoSnap] /\ nfault = 0
    /\ rx = [k \in Conns |-> "none"] /\ login = [k \in Conns |-> FALSE]
    /\ frame = [k \in Conns |-> <<>>] /\ want = [k \in Conns |-> 0]
    /\ got = [k \in Conns |-> <<>>]

-----------------------------------------------------------------------------
(* The threads that use the broadcaster.                                   *)

LockFree == stats = "idle"     \* the mutex lock, held over steps only here

\* Mutant: the test is made after the message is in.
TriggersLate == Len(queue) = 1

\* Mutant: every message writes a byte.
TriggersAlways == TRUE

\* Does Dci_Broadcast write to the trigger pipe?
Triggers == queue = <<>>

\* The message becomes the last of the queue: lastMsgPtr->nextPtr = msgPtr.
Enqueued(m) == Append(queue, m)

Dci_Broadcast ==
    /\ LockFree /\ nmsg < MaxMsgs
    /\ nmsg' = nmsg + 1
    /\ \/ /\ shutdownPending
          /\ UNCHANGED <<queue, ref, pipe>>
       \/ /\ ~shutdownPending
          /\ queue' = Enqueued(nmsg')
          /\ ref' = [ref EXCEPT ![nmsg'] = 1]
          /\ pipe' = IF Triggers THEN pipe + 1 ELSE pipe
    /\ UNCHANGED <<shutdownPending, otherVars, threadVars, clientVars, netVars,
                   recvVars>>

\* Mutant: the thread is not woken.
StatsLockSilent ==
    /\ LockFree /\ ~shutdownPending /\ nstats < MaxStats
    /\ stats' = "wait" /\ nstats' = nstats + 1
    /\ UNCHANGED <<queueVars, stop, threadVars, clientVars, netVars, recvVars>>

\* StatsObjCmd and ClientsObjCmd: under lock, wake the broadcaster and wait
\* for bPtr->lock, which the broadcaster keeps while it polls.
StatsLock ==
    /\ LockFree /\ ~shutdownPending /\ nstats < MaxStats
    /\ stats' = "wait" /\ nstats' = nstats + 1
    /\ pipe' = pipe + 1
    /\ UNCHANGED <<queue, ref, shutdownPending, nmsg, stop, threadVars,
                   clientVars, netVars, recvVars>>

StatsRead ==
    /\ stats = "wait" /\ pc \notin {"poll", "verify"}
    /\ stats' = "idle"
    /\ UNCHANGED <<queueVars, nstats, stop, threadVars, clientVars, netVars,
                   recvVars>>

\* StopBroadcasters sets the flag, triggers the thread and joins it.
StopFlag ==
    /\ stop = "no" /\ LockFree
    /\ stop' = "flagged" /\ shutdownPending' = TRUE
    /\ UNCHANGED <<queue, ref, pipe, nmsg, stats, nstats, threadVars, clientVars,
                   netVars, recvVars>>

\* Mutant: the thread is not woken.
StopTriggerSilent ==
    /\ stop = "flagged"
    /\ stop' = "wait"
    /\ UNCHANGED <<queueVars, stats, nstats, threadVars, clientVars, netVars,
                   recvVars>>

StopTrigger ==
    /\ stop = "flagged"
    /\ stop' = "wait" /\ pipe' = pipe + 1
    /\ UNCHANGED <<queue, ref, shutdownPending, nmsg, stats, nstats, threadVars,
                   clientVars, netVars, recvVars>>

StopJoin ==
    /\ stop = "wait" /\ pc = "done"
    /\ stop' = "joined"
    /\ UNCHANGED <<queueVars, stats, nstats, threadVars, clientVars, netVars,
                   recvVars>>

-----------------------------------------------------------------------------
(* The broadcaster thread.                                                 *)

\* Take bPtr->lock.  When a retry is due, start a connection to the clients
\* on the retry list; Ns_SockAsyncConnect fails at once for some of them.
TopRetry ==
    /\ pc = "top" /\ Retrying # {}
    /\ \E S \in SUBSET {c \in Retrying : cur[c] < MaxConns} :
          /\ place' = [c \in Clients |-> IF c \in S THEN "active" ELSE place[c]]
          /\ state' = [c \in Clients |-> IF c \in S THEN "CONNECT" ELSE state[c]]
          /\ cur' = [c \in Clients |-> IF c \in S THEN cur[c] + 1 ELSE cur[c]]
          /\ net' = [k \in Conns |-> IF k[1] \in S /\ k[2] = cur[k[1]] + 1
                                     THEN "syn" ELSE net[k]]
    /\ pc' = "poll"
    /\ UNCHANGED <<queueVars, otherVars, hot, todo, msg, off, revents, wire,
                   snap, nfault, recvVars>>

TopSkip ==
    /\ pc = "top" /\ pc' = "poll"
    /\ UNCHANGED <<queueVars, otherVars, hot, todo, clientVars, netVars, recvVars>>

\* What poll() returns for a client: it asks for POLLOUT to finish a connect
\* or a send, and for POLLIN, which means the end of the connection, after
\* the connect.
Writable(k) == \/ net[k] \in {"refused", "broken"}
               \/ net[k] = "up" /\ (rx[k] = "closed" \/ Len(wire[k]) < Room)
AtEof(k)    == net[k] = "broken" \/ (net[k] = "up" /\ rx[k] = "closed")
Ready(c) ==
    {e \in {"in", "out"} :
        /\ c \in Active
        /\ e = "out" => /\ state[c] = "CONNECT" \/ msg[c] # NoMsg
                        /\ Writable(Conn(c))
        /\ e = "in"  => state[c] # "CONNECT" /\ AtEof(Conn(c))}

\* poll() waits without a limit when nobody is to be retried and msgPtr is
\* NULL.
Forever == Retrying = {} /\ ~hot

\* Mutant: the byte is read without POLLIN.
DrainedBlind == pipe - 1

\* The pass reads one byte of the trigger pipe if there is one.
Drained == IF pipe > 0 THEN pipe - 1 ELSE pipe

Poll ==
    /\ pc = "poll"
    /\ ~Forever \/ pipe > 0 \/ \E c \in Clients : Ready(c) # {}
    /\ pipe' = Drained
    /\ revents' = [c \in Clients |-> Ready(c)]
    /\ todo' = Active
    /\ pc' = "verify"
    /\ UNCHANGED <<queue, ref, shutdownPending, nmsg, otherVars, hot, place,
                   state, msg, off, cur, netVars, recvVars>>

\* Dci_MsgDecr by a client, as MsgDone and RetryClient do.
Decr(m) == IF m \in Msgs THEN [ref EXCEPT ![m] = @ - 1] ELSE ref

\* Mutant: the offset of the last message is kept.
StartMsgKeep(c, m) == msg' = [msg EXCEPT ![c] = m] /\ UNCHANGED off

\* MsgSend, for the login and the initProc message.
StartMsg(c, m) == msg' = [msg EXCEPT ![c] = m] /\ off' = [off EXCEPT ![c] = 0]

\* MsgDone: the message is given back, and the client has none.
MsgDone(c) == ref' = Decr(msg[c]) /\ StartMsg(c, NoMsg)

\* Mutant: the message is not released.
RetryClientLeak(c) ==
    /\ place' = [place EXCEPT ![c] = "retry"]
    /\ StartMsg(c, NoMsg) /\ UNCHANGED ref

RetryClient(c) ==
    /\ place' = [place EXCEPT ![c] = "retry"]
    /\ MsgDone(c)

Verify(c) ==
    /\ pc = "verify" /\ c \in todo
    /\ todo' = todo \ {c}
    /\ UNCHANGED <<queue, pipe, shutdownPending, nmsg, otherVars, pc, revents,
                   cur, net, nfault, recvVars>>

Connecting(c) == state[c] = "CONNECT" /\ "out" \in revents[c]

\* The connect has come to an end: send the login.
VerifyConnected(c) ==
    /\ Verify(c) /\ Connecting(c) /\ net[Conn(c)] = "up"
    /\ StartMsg(c, Login)
    /\ state' = [state EXCEPT ![c] = "LOGIN"]
    /\ UNCHANGED <<ref, hot, place, wire, snap>>

VerifyRefused(c) ==
    /\ Verify(c) /\ Connecting(c)
    /\ net[Conn(c)] # "up" \/ rx[Conn(c)] = "closed"
    /\ RetryClient(c)
    /\ UNCHANGED <<hot, state, wire, snap>>

VerifyDropped(c) ==
    /\ Verify(c) /\ state[c] # "CONNECT" /\ "in" \in revents[c]
    /\ RetryClient(c)
    /\ UNCHANGED <<hot, state, wire, snap>>

Sending(c) == /\ state[c] # "CONNECT" /\ revents[c] = {"out"}
              /\ msg[c] # NoMsg

VerifySendFail(c) ==
    /\ Verify(c) /\ Sending(c)
    /\ net[Conn(c)] = "broken" \/ rx[Conn(c)] = "closed"
    /\ RetryClient(c)
    /\ UNCHANGED <<hot, state, wire, snap>>

\* send() takes n parts; they are lost if the receiver has closed its end.
Put(c, n) ==
    /\ net[Conn(c)] = "up" /\ off[c] + n <= Parts
    /\ LET k == Conn(c) IN
       \/ /\ rx[k] = "closed" /\ UNCHANGED wire
       \/ /\ rx[k] # "closed" /\ Len(wire[k]) + n <= Room
          /\ wire' = [wire EXCEPT ![k] = @ \o
                        [i \in 1..n |-> <<msg[c], off[c] + i>>]]

VerifySendPart(c) ==
    /\ Verify(c) /\ Sending(c)
    /\ \E n \in 1..Parts-1 :
          /\ Put(c, n) /\ off[c] + n < Parts
          /\ off' = [off EXCEPT ![c] = @ + n]
    /\ UNCHANGED <<ref, hot, place, state, msg, snap>>

\* The last part of the message: MsgDone, and after the login the message
\* of the initProc.
LoginDone(c) == state[c] = "LOGIN" /\ InitResults # {}

VerifySendDone(c) ==
    /\ Verify(c) /\ Sending(c)
    /\ Put(c, Parts - off[c])
    /\ ~LoginDone(c)
    /\ MsgDone(c)
    /\ UNCHANGED <<hot, place, state, snap>>

VerifyLoginDone(c) ==
    /\ Verify(c) /\ Sending(c)
    /\ Put(c, Parts - off[c])
    /\ LoginDone(c)
    /\ \E r \in InitResults :
          /\ ref' = Decr(msg[c])
          /\ StartMsg(c, IF r = "msg" THEN InitMsg ELSE NoMsg)
          /\ hot' = (r = "msg")
    /\ snap' = [snap EXCEPT ![Conn(c)] = nmsg]
    /\ state' = [state EXCEPT ![c] = "READY"]
    /\ UNCHANGED place

Blocked(c) == state[c] # "CONNECT" /\ revents[c] = {} /\ msg[c] # NoMsg

\* The message is older than the timeout: drop it and "treat as reconnect",
\* on the same socket.
VerifyTimeout(c) ==
    /\ Verify(c) /\ Blocked(c) /\ HasTimeout
    /\ MsgDone(c)
    /\ state' = [state EXCEPT ![c] = "CONNECT"]
    /\ UNCHANGED <<hot, place, wire, snap>>

VerifyNothing(c) ==
    /\ Verify(c)
    /\ \/ Blocked(c)
       \/ state[c] = "CONNECT" /\ revents[c] = {}
       \/ state[c] # "CONNECT" /\ "in" \notin revents[c] /\ msg[c] = NoMsg
    /\ UNCHANGED <<ref, hot, place, state, msg, off, wire, snap>>

\* Mutant: only a login makes the loop busy.
BusyLogin == \E c \in Active : state[c] = "LOGIN" /\ msg[c] # NoMsg

\* busy, as the loop over the clients leaves it.
Busy == \E c \in Active : msg[c] # NoMsg

\* Unlock bPtr->lock; with somebody still sending, go round again.
VerifyEnd ==
    /\ pc = "verify" /\ todo = {}
    /\ pc' = IF Busy THEN "top" ELSE "next"
    /\ UNCHANGED <<queueVars, otherVars, hot, todo, clientVars, netVars, recvVars>>

\* The clients that get the next message.
Targets == {c \in Active : state[c] # "CONNECT"}

NextMsg ==
    /\ pc = "next" /\ LockFree /\ ~shutdownPending
    /\ pc' = "top"
    /\ hot' = (queue # <<>>)
    /\ \/ /\ queue = <<>>
          /\ UNCHANGED <<queue, ref, msg, off>>
       \/ /\ queue # <<>>
          /\ queue' = Tail(queue)
          /\ ref' = [ref EXCEPT ![Head(queue)] = @ + Cardinality(Targets) - 1]
          /\ msg' = [c \in Clients |-> IF c \in Targets THEN Head(queue)
                                                        ELSE msg[c]]
          /\ off' = [c \in Clients |-> IF c \in Targets THEN 0 ELSE off[c]]
    /\ UNCHANGED <<pipe, shutdownPending, nmsg, otherVars, todo, place, state,
                   revents, cur, netVars, recvVars>>

\* The end of the thread: drop the queue and close the clients.
Stopping ==
    /\ pc = "next" /\ LockFree /\ shutdownPending
    /\ pc' = "done"
    /\ queue' = <<>>
    /\ ref' = [m \in Msgs |-> IF m \in Range(queue) THEN ref[m] - 1 ELSE ref[m]]
    /\ place' = [c \in Clients |-> "retry"]
    /\ UNCHANGED <<pipe, shutdownPending, nmsg, otherVars, hot, todo, state, msg,
                   off, revents, cur, netVars, recvVars>>

-----------------------------------------------------------------------------
(* The network and the receivers.                                          *)

\* RecvAccept.
RecvAccept(k) ==
    /\ net[k] = "syn" /\ SockOpen(k)
    /\ net' = [net EXCEPT ![k] = "up"]
    /\ rx' = [rx EXCEPT ![k] = "open"]
    /\ UNCHANGED <<queueVars, otherVars, threadVars, clientVars, wire, snap,
                   nfault, login, frame, want, got>>

Refuse(k) ==
    /\ net[k] = "syn" /\ SockOpen(k) /\ nfault < MaxFaults
    /\ net' = [net EXCEPT ![k] = "refused"] /\ nfault' = nfault + 1
    /\ UNCHANGED <<queueVars, otherVars, threadVars, clientVars, wire, snap,
                   recvVars>>

\* A connection breaks: what has arrived can still be received.
Break(k) ==
    /\ net[k] = "up" /\ SockOpen(k) /\ nfault < MaxFaults
    /\ net' = [net EXCEPT ![k] = "broken"] /\ nfault' = nfault + 1
    /\ UNCHANGED <<queueVars, otherVars, threadVars, clientVars, wire, snap,
                   recvVars>>

\* stop: in RecvMsg.
CloseRecv(k) ==
    /\ rx' = [rx EXCEPT ![k] = "closed"]
    /\ wire' = [wire EXCEPT ![k] = <<>>]
    /\ frame' = [frame EXCEPT ![k] = <<>>]
    /\ UNCHANGED <<queueVars, otherVars, threadVars, clientVars, net, snap>>

\* recv() returns 0 or fails.
RecvEnd(k) ==
    /\ rx[k] = "open" /\ wire[k] = <<>>
    /\ ~SockOpen(k) \/ net[k] = "broken"
    /\ CloseRecv(k)
    /\ UNCHANGED <<nfault, login, want, got>>

\* NS_SOCK_EXIT, the end of the receiver's process.
RecvExit(k) ==
    /\ rx[k] = "open" /\ nfault < MaxFaults
    /\ nfault' = nfault + 1
    /\ CloseRecv(k)
    /\ UNCHANGED <<login, want, got>>

\* RecvMsg reads the length of a frame.  A part that is no length is read
\* as one all the same; a length of zero ends the connection, because the
\* next recv(), of zero bytes, returns zero.
RecvLength(k) ==
    /\ rx[k] = "open" /\ wire[k] # <<>> /\ frame[k] = <<>>
    /\ \E w \in 0..Parts-1 :
          /\ Head(wire[k])[2] = 1 => w = Parts - 1
          /\ want' = [want EXCEPT ![k] = w]
          /\ \/ w = 0 /\ CloseRecv(k)
             \/ /\ w > 0
                /\ frame' = [frame EXCEPT ![k] = <<Head(wire[k])>>]
                /\ wire' = [wire EXCEPT ![k] = Tail(@)]
                /\ UNCHANGED <<queueVars, otherVars, threadVars, clientVars,
                               net, snap, rx>>
    /\ UNCHANGED <<nfault, login, got>>

\* It reads a part of the body that is not the last.
RecvBody(k) ==
    /\ rx[k] = "open" /\ wire[k] # <<>> /\ frame[k] # <<>>
    /\ Len(frame[k]) < want[k]
    /\ frame' = [frame EXCEPT ![k] = Append(@, Head(wire[k]))]
    /\ wire' = [wire EXCEPT ![k] = Tail(@)]
    /\ UNCHANGED <<queueVars, otherVars, threadVars, clientVars, net, snap,
                   nfault, rx, login, want, got>>

\* The message that a frame is.
Decoded(f) == IF /\ Len(f) = Parts
                 /\ \A i \in 1..Parts : f[i] = <<f[1][1], i>>
              THEN f[1][1] ELSE Garbled

\* It reads the last part: log in, or call the receiver's callback, which
\* may refuse the message.
RecvLogin(k) ==
    /\ rx[k] = "open" /\ wire[k] # <<>> /\ frame[k] # <<>>
    /\ Len(frame[k]) = want[k] /\ ~login[k]
    /\ LET m == Decoded(Append(frame[k], Head(wire[k]))) IN
       \/ /\ m = Login
          /\ login' = [login EXCEPT ![k] = TRUE]
          /\ frame' = [frame EXCEPT ![k] = <<>>]
          /\ wire' = [wire EXCEPT ![k] = Tail(@)]
          /\ UNCHANGED <<queueVars, otherVars, threadVars, clientVars, net,
                         snap, rx>>
       \/ m # Login /\ CloseRecv(k) /\ UNCHANGED login
    /\ UNCHANGED <<nfault, want, got>>

RecvCall(k) ==
    /\ rx[k] = "open" /\ wire[k] # <<>> /\ frame[k] # <<>>
    /\ Len(frame[k]) = want[k] /\ login[k]
    /\ got' = [got EXCEPT ![k] =
                 Append(@, Decoded(Append(frame[k], Head(wire[k]))))]
    /\ \/ /\ frame' = [frame EXCEPT ![k] = <<>>]
          /\ wire' = [wire EXCEPT ![k] = Tail(@)]
          /\ UNCHANGED <<queueVars, otherVars, threadVars, clientVars, net,
                         snap, nfault, rx>>
       \/ nfault < MaxFaults /\ nfault' = nfault + 1 /\ CloseRecv(k)
    /\ UNCHANGED <<login, want>>

-----------------------------------------------------------------------------
ClientStep(c) ==
    \/ VerifyConnected(c) \/ VerifyRefused(c) \/ VerifyDropped(c)
    \/ VerifySendFail(c) \/ VerifySendPart(c) \/ VerifySendDone(c)
    \/ VerifyLoginDone(c) \/ VerifyTimeout(c) \/ VerifyNothing(c)

BroadcasterStep ==
    \/ TopRetry \/ TopSkip \/ Poll \/ VerifyEnd \/ NextMsg \/ Stopping
    \/ \E c \in Clients : ClientStep(c)

RecvStep(k) ==
    \/ RecvEnd(k) \/ RecvLength(k) \/ RecvBody(k) \/ RecvLogin(k) \/ RecvCall(k)

Next ==
    \/ Dci_Broadcast
    \/ StatsLock \/ StatsRead
    \/ StopFlag \/ StopTrigger \/ StopJoin
    \/ BroadcasterStep
    \/ \E k \in Conns : \/ RecvAccept(k) \/ Refuse(k) \/ Break(k)
                        \/ RecvExit(k) \/ RecvStep(k)

Spec == Init /\ [][Next]_vars

\* The threads of the broadcaster's process run.
ServerFairness ==
    /\ WF_vars(BroadcasterStep) /\ WF_vars(StatsRead)
    /\ WF_vars(StopTrigger \/ StopJoin)

\* Receivers that read: the socket callback thread of their process runs.
RecvFairness ==
    \A k \in Conns : WF_vars(RecvStep(k))

FairSpec == Spec /\ ServerFairness /\ RecvFairness

-----------------------------------------------------------------------------
(* Properties.                                                             *)

\* The reference count of a message is the number of its users: the queue and
\* the clients that still have to send it.  So no message is freed while
\* somebody sends it and none is kept, whatever becomes of the connections.
Users(m) == {c \in Clients : msg[c] = m}
RefExact ==
    \A m \in Msgs :
        ref[m] = Cardinality(Users(m)) + IF m \in Range(queue) THEN 1 ELSE 0

\* No lost wakeup: when the thread sleeps without a limit and a message is
\* queued, there is a byte in the trigger pipe or a client is still sending,
\* although Dci_Broadcast triggers only on an empty queue and the thread
\* reads one byte for each pass of its loop.
QueueSeen ==
    pc = "poll" /\ Forever /\ queue # <<>> => pipe > 0 \/ Busy

\* The trigger pipe does not fill up, however many messages are broadcast: a
\* write to a full pipe would block with the mutex lock held.  There is at
\* most one byte for a queue that is not empty, one more, left over by the pass
\* that emptied the queue, until the next poll, and those of the other threads.
Pending == IF queue = <<>> THEN 0 ELSE 1
Extra   == nstats + IF stop \in {"wait", "joined"} THEN 1 ELSE 0
Left    == IF pc \in {"verify", "next"} THEN 0 ELSE 1
PipeBound == pipe <= Pending + Extra + Left

\* A receiver gets whole messages, and never the login once it is logged in:
\* what one connection carries is a sequence of complete messages.
FramesIntact ==
    \A k \in Conns : Range(got[k]) \subseteq Msgs \cup {InitMsg}

\* Without a timeout the broadcaster implements the log of BroadcastLog: a
\* connection gets the initial message and then the log without a gap, and no
\* update falls between the snapshot the initial message holds and the first
\* message after it, whatever threads, failures and stops come in between.
Log == INSTANCE BroadcastLog
         WITH length <- nmsg, given <- got,
              Starts <- IF InitResults = {"msg"} THEN {InitMsg}
                                                 ELSE Msgs \cup {InitMsg}
ImplementsLog == Log!LogSpec

\* With receivers that read, every message is taken off the queue.
Dispatched == []<>(queue = <<>>)

\* With receivers that read, broadcast.stats returns, and with it every caller
\* that waits for the mutex lock it holds.
StatsReturns == []<>(stats = "idle")

\* With receivers that read, StopBroadcasters joins the thread.
StopCompletes == []<>(stop \in {"no", "joined"})

=============================================================================
