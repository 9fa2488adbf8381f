----------------------------- MODULE RpcServer -----------------------------
(***************************************************************************)
(* The socket server of dcicommon/server.c with the RPC callback of        *)
(* dcicommon/rpc.c: one thread connects to its clients, reads a request of *)
(* each, executes it, sends the reply and reads the next one, all without  *)
(* blocking on a single client.                                            *)
(*                                                                         *)
(* A byte is <<q, n, i>>: byte i of the request or the reply q that has a  *)
(* body of n bytes.  q is <<connection, number>>, number 0 for the         *)
(* handshake.  The header has Hdr bytes, and holds the whole of <<q, n>>.  *)
(* Statistics, warnings and the clock are left out: it may be time for a   *)
(* retry in any pass.                                                      *)
(***************************************************************************)
EXTENDS Naturals, Sequences, SequencesExt

CONSTANTS
    Clients,
    Hdr,          \* bytes of an RpcMsg, and of the handshake
    MaxBody,      \* bound on the bytes of a body
    MaxReqs,      \* of a client: bound on the requests over a connection
    MaxConns,     \* bound on the connections of a client
    MaxLost,      \* bound on the connections that are lost
    Bufsizes,     \* values of the bufsize parameter
    Room,         \* bytes a socket holds
    MinSend,      \* the room that makes a socket writable; a send that is
                  \* cut takes at least as many bytes
    MayStop       \* the server is shut down in the run

ASSUME ServerAssumption ==
    /\ Hdr \in Nat \ {0} /\ MaxBody \in Nat /\ MaxReqs \in [Clients -> Nat]
    /\ MaxConns \in Nat \ {0} /\ MaxLost \in Nat /\ Bufsizes \subseteq Nat
    /\ Room \in Nat /\ MinSend \in 1..Room
    /\ MayStop \in BOOLEAN

VARIABLES
    bufsize,
    \* The Client structs.
    state,        \* "Retry": on the retry list
    nleft, iov,
    bufPtr,       \* "rpcmsg" or "in"
    ahead,        \* the recvcnt bytes at recvbase
    \* CData.
    rpcmsg,       \* the bytes of the header that are received
    len,          \* rpcmsg.len
    in,
    \* The thread.
    ready,        \* clients with events of poll that are not handled
    trigger, running,
    \* The connections and the other ends.
    conn,         \* number of the connection of a client
    up,           \* "no", "asked" (connecting), "yes", "closed" by the client
    inq, outq,    \* the bytes in the socket, to the server and from it
    tosend,       \* the rest of the request the client is sending
    asked,        \* requests the client has begun to send
    heard,        \* bytes the client has got
    done,         \* the bodies executed, and the replies
    nlost

vars == <<bufsize, state, nleft, iov, bufPtr, ahead, rpcmsg, len, in, ready,
          trigger, running, conn, up, inq, outq, tosend, asked, heard, done,
          nlost>>
clientVars == <<nleft, iov, bufPtr, ahead, rpcmsg, len, in>>
peerVars   == <<tosend, asked, heard>>
loopVars   == <<bufsize, trigger, running>>

Bytes(q, n)  == [i \in 1..Hdr + n |-> <<q, n, i>>]
Header(q, n) == [i \in 1..Hdr |-> <<q, n, i>>]
Body(q, n)   == [i \in 1..n |-> <<q, n, Hdr + i>>]
Drop(s, n)   == SubSeq(s, n + 1, Len(s))
Least(a, b)  == IF a < b THEN a ELSE b

\* The bytes of some sequences, one after the other.
Join(ss) ==
    LET f[n \in 0..Len(ss)] == IF n = 0 THEN <<>> ELSE f[n-1] \o ss[n]
    IN  f[Len(ss)]

Handshake(k) == Bytes(<<k, 0>>, 0)

TypeOK ==
    /\ state \in [Clients -> {"Retry", "Connecting", "RecvData", "SendData"}]
    /\ nleft \in [Clients -> 0..Hdr + MaxBody]
    /\ bufPtr \in [Clients -> {"rpcmsg", "in"}]
    /\ len \in [Clients -> 0..MaxBody]
    /\ ready \subseteq Clients /\ trigger \in BOOLEAN /\ running \in BOOLEAN
    /\ conn \in [Clients -> 0..MaxConns]
    /\ up \in [Clients -> {"no", "asked", "yes", "closed"}]
    /\ nlost \in 0..MaxLost
    /\ \A c \in Clients :
          /\ Len(rpcmsg[c]) <= Hdr /\ Len(in[c]) <= MaxBody
          /\ Len(ahead[c]) <= bufsize
          /\ Len(inq[c]) <= Hdr + MaxBody /\ Len(outq[c]) <= Room
          /\ state[c] = "Retry" <=> up[c] = "no"
          /\ c \in ready => state[c] # "Retry"

Init ==
    /\ bufsize \in Bufsizes
    /\ state = [c \in Clients |-> "Retry"]
    /\ nleft = [c \in Clients |-> 0] /\ iov = [c \in Clients |-> <<>>]
    /\ bufPtr = [c \in Clients |-> "rpcmsg"] /\ ahead = [c \in Clients |-> <<>>]
    /\ rpcmsg = [c \in Clients |-> <<>>] /\ len = [c \in Clients |-> 0]
    /\ in = [c \in Clients |-> <<>>]
    /\ ready = {} /\ trigger = FALSE /\ running = TRUE
    /\ conn = [c \in Clients |-> 0] /\ up = [c \in Clients |-> "no"]
    /\ inq = [c \in Clients |-> <<>>] /\ outq = [c \in Clients |-> <<>>]
    /\ tosend = [c \in Clients |-> <<>>] /\ asked = [c \in Clients |-> 0]
    /\ heard = [c \in Clients |-> <<>>] /\ done = [c \in Clients |-> <<>>]
    /\ nlost = 0

-----------------------------------------------------------------------------
(* The top of the loop of DciServer: retries, poll, trigger.               *)

\* Ns_SockAsyncConnect for every client on the retry list, of which those in
\* C succeed.
Retry(C) ==
    /\ running /\ ready = {}
    /\ C # {} /\ C \subseteq {c \in Clients : state[c] = "Retry" /\ conn[c] < MaxConns}
    /\ state' = [c \in Clients |-> IF c \in C THEN "Connecting" ELSE state[c]]
    /\ conn' = [c \in Clients |-> IF c \in C THEN conn[c] + 1 ELSE conn[c]]
    /\ up' = [c \in Clients |-> IF c \in C THEN "asked" ELSE up[c]]
    /\ UNCHANGED <<loopVars, ready, clientVars, peerVars, inq, outq, done, nlost>>

\* The event that the state of the client is polled for, or an error.
Event(c) ==
    \/ up[c] = "closed"
    \/ state[c] = "Connecting" /\ up[c] = "yes"
    \/ state[c] = "RecvData" /\ inq[c] # <<>>
    \/ state[c] = "SendData" /\ Room - Len(outq[c]) >= MinSend

\* poll returns with the events of some clients.
Poll ==
    /\ running /\ ready = {} /\ ~trigger
    /\ ready' = {c \in Clients : state[c] # "Retry" /\ Event(c)}
    /\ ready' # {}
    /\ UNCHANGED <<loopVars, state, clientVars, peerVars, conn, up, inq, outq,
                   done, nlost>>

\* The trigger ends the loop, and the server drops every client.
Stop ==
    /\ running /\ ready = {} /\ trigger
    /\ running' = FALSE
    /\ state' = [c \in Clients |-> "Retry"]
    /\ up' = [c \in Clients |-> "no"]
    /\ in' = [c \in Clients |-> IF state[c] = "Retry" THEN in[c] ELSE <<>>]
    /\ inq' = [c \in Clients |-> <<>>]
    /\ outq' = [c \in Clients |-> <<>>]
    /\ tosend' = [c \in Clients |-> <<>>]
    /\ asked' = [c \in Clients |-> 0]
    /\ heard' = [c \in Clients |-> <<>>]
    /\ done' = [c \in Clients |-> <<>>]
    /\ UNCHANGED <<bufsize, trigger, ready, nleft, iov, bufPtr, ahead, rpcmsg,
                   len, conn, nlost>>

\* StopServers.
StopServers ==
    /\ MayStop /\ ~trigger
    /\ trigger' = TRUE
    /\ UNCHANGED <<bufsize, running, state, clientVars, ready, peerVars, conn,
                   up, inq, outq, done, nlost>>

-----------------------------------------------------------------------------
(* The clients with events, one after the other.  Each step is a call of   *)
(* Callback; steps of two clients may be mixed, as they share nothing.     *)

\* Mutant: a dropped client is not put on the retry list.
OnRetryLost == "Connecting"

\* The list of a client that failed.
OnRetry == "Retry"

\* DropClient, or the close of a connection that was not made; what is in the
\* socket is lost, and the other end finds it closed.
DropClient(c) ==
    /\ state' = [state EXCEPT ![c] = OnRetry]
    /\ in' = [in EXCEPT ![c] = IF state[c] = "Connecting" THEN @ ELSE <<>>]
    /\ ready' = ready \ {c}
    /\ up' = [up EXCEPT ![c] = "no"]
    /\ inq' = [inq EXCEPT ![c] = <<>>]
    /\ outq' = [outq EXCEPT ![c] = <<>>]
    /\ tosend' = [tosend EXCEPT ![c] = <<>>]
    /\ asked' = [asked EXCEPT ![c] = 0]
    /\ heard' = [heard EXCEPT ![c] = <<>>]
    /\ done' = [done EXCEPT ![c] = <<>>]
    /\ UNCHANGED <<loopVars, nleft, iov, bufPtr, ahead, rpcmsg, len, conn, nlost>>

\* Dci_ServerSendVec.
SendVec(c, bufs) ==
    /\ nleft' = [nleft EXCEPT ![c] = Len(Join(bufs))]
    /\ iov' = [iov EXCEPT ![c] = bufs]
    /\ state' = [state EXCEPT ![c] = "SendData"]

\* The connection is made: RpsProc with DCI_SERVER_INIT.
Connected(c) ==
    /\ c \in ready /\ state[c] = "Connecting" /\ up[c] # "closed"
    /\ SendVec(c, <<Handshake(conn[c])>>)
    /\ ahead' = [ahead EXCEPT ![c] = <<>>]
    /\ in' = [in EXCEPT ![c] = <<>>]
    /\ ready' = ready \ {c}
    /\ UNCHANGED <<loopVars, bufPtr, rpcmsg, len, peerVars, conn, up, inq, outq,
                   done, nlost>>

ConnectFailed(c) ==
    /\ c \in ready /\ state[c] = "Connecting" /\ up[c] = "closed"
    /\ DropClient(c)

\* Mutant: once around the loop for each event.
StaysOnce(c, ok, s) == FALSE

\* The loops of the thread go on after a callback that succeeded, from recv
\* to send but not back.
Stays(c, ok, s) == ok /\ (state[c] = "SendData" => s = "SendData")

\* RpsProc with DCI_SERVER_RECV when the header or the body is complete, of
\* which got are the last bytes: receive the body, or execute the request and
\* send the reply.
RpsRecv(c, got) ==
    LET msg == IF bufPtr[c] = "rpcmsg" THEN rpcmsg[c] \o got ELSE rpcmsg[c]
        n   == IF bufPtr[c] = "rpcmsg" THEN msg[1][2] ELSE len[c]
        arg == IF bufPtr[c] = "rpcmsg" THEN in[c] ELSE in[c] \o got
    IN  \/ /\ n # 0
           /\ rpcmsg' = [rpcmsg EXCEPT ![c] = msg]
           /\ len' = [len EXCEPT ![c] = 0]
           /\ in' = [in EXCEPT ![c] = <<>>]
           /\ nleft' = [nleft EXCEPT ![c] = n]
           /\ bufPtr' = [bufPtr EXCEPT ![c] = "in"]
           /\ UNCHANGED <<state, iov, done>>
        \/ /\ n = 0
           /\ in' = [in EXCEPT ![c] = arg]
           /\ \E m \in 0..MaxBody :
                 /\ SendVec(c, <<Header(msg[1][1], m), Body(msg[1][1], m)>>)
                 /\ len' = [len EXCEPT ![c] = m]
                 /\ rpcmsg' = [rpcmsg EXCEPT ![c] = Header(msg[1][1], m)]
                 /\ done' = [done EXCEPT ![c] = Append(@,
                                [req |-> msg, body |-> arg, reply |-> m])]
           /\ UNCHANGED bufPtr

\* n bytes have come, got.
Received(c, got) ==
    /\ IF Len(got) = nleft[c] THEN RpsRecv(c, got)
       ELSE /\ nleft' = [nleft EXCEPT ![c] = @ - Len(got)]
            /\ IF bufPtr[c] = "rpcmsg"
               THEN rpcmsg' = [rpcmsg EXCEPT ![c] = @ \o got] /\ UNCHANGED in
               ELSE in' = [in EXCEPT ![c] = @ \o got] /\ UNCHANGED rpcmsg
            /\ UNCHANGED <<state, iov, bufPtr, len, done>>
    /\ ready' = IF Stays(c, TRUE, state'[c]) THEN ready ELSE ready \ {c}
    /\ UNCHANGED <<loopVars, peerVars, conn, up, outq, nlost>>

\* Callback with DCI_SERVER_RECV, without the read-ahead buffer.
RecvDirect(c) ==
    LET n == Least(nleft[c], Len(inq[c])) IN
    /\ c \in ready /\ state[c] = "RecvData" /\ bufsize = 0 /\ n > 0
    /\ inq' = [inq EXCEPT ![c] = Drop(@, n)]
    /\ Received(c, SubSeq(inq[c], 1, n))
    /\ UNCHANGED ahead

\* Callback with DCI_SERVER_RECV: from the read-ahead buffer, which is filled
\* when it is empty.
RecvAhead(c) ==
    LET fill == IF ahead[c] # <<>> THEN 0 ELSE Least(bufsize, Len(inq[c]))
        have == ahead[c] \o SubSeq(inq[c], 1, fill)
        n    == Least(nleft[c], Len(have))
    IN  /\ c \in ready /\ state[c] = "RecvData" /\ bufsize > 0 /\ n > 0
        /\ inq' = [inq EXCEPT ![c] = Drop(@, fill)]
        /\ ahead' = [ahead EXCEPT ![c] = Drop(have, n)]
        /\ Received(c, SubSeq(have, 1, n))

\* recv has nothing: NS_TIMEOUT, or an error at the end of the stream.
RecvNone(c) ==
    /\ c \in ready /\ state[c] = "RecvData" /\ inq[c] = <<>> /\ ahead[c] = <<>>
    /\ IF up[c] = "closed" THEN DropClient(c)
       ELSE /\ ready' = ready \ {c}
            /\ UNCHANGED <<loopVars, state, clientVars, peerVars, conn, up, inq,
                           outq, done, nlost>>

\* Mutant: a buffer that is sent to its last byte is not finished.
UpdateIovKeep(bufs, n) ==
    [i \in 1..Len(bufs) |->
        IF n > Len(Join(SubSeq(bufs, 1, i))) THEN <<>>
        ELSE IF n > Len(Join(SubSeq(bufs, 1, i-1)))
             THEN Drop(bufs[i], n - Len(Join(SubSeq(bufs, 1, i-1))) - 1)
             ELSE bufs[i]]

\* The loop over msg_iov in Callback.  Left is what remains of n before
\* buffer i; a buffer that is sent in part does not set it to 0.
UpdateIov(bufs, n) ==
    LET left[i \in 1..Len(bufs) + 1] ==
            IF i = 1 THEN n
            ELSE IF left[i-1] >= Len(bufs[i-1]) THEN left[i-1] - Len(bufs[i-1])
            ELSE left[i-1]
    IN  [i \in 1..Len(bufs) |-> Drop(bufs[i], Least(left[i], Len(bufs[i])))]

\* Mutant: the request is not cleared for the next one.
RpsSendKeep(c) ==
    /\ nleft' = [nleft EXCEPT ![c] = Hdr]
    /\ bufPtr' = [bufPtr EXCEPT ![c] = "rpcmsg"]
    /\ rpcmsg' = [rpcmsg EXCEPT ![c] = <<>>]
    /\ state' = [state EXCEPT ![c] = "RecvData"]
    /\ UNCHANGED in

\* RpsProc with DCI_SERVER_SEND: receive the next header.
RpsSend(c) ==
    /\ nleft' = [nleft EXCEPT ![c] = Hdr]
    /\ bufPtr' = [bufPtr EXCEPT ![c] = "rpcmsg"]
    /\ rpcmsg' = [rpcmsg EXCEPT ![c] = <<>>]
    /\ state' = [state EXCEPT ![c] = "RecvData"]
    /\ in' = [in EXCEPT ![c] = <<>>]

\* Callback with DCI_SERVER_SEND: sendmsg takes n bytes.
Send(c, n) ==
    LET all == Join(iov[c]) IN
    /\ c \in ready /\ state[c] = "SendData" /\ up[c] = "yes"
    /\ n \in 1..Least(Len(all), Room - Len(outq[c]))
    /\ n = Len(all) \/ n >= MinSend
    /\ outq' = [outq EXCEPT ![c] = @ \o SubSeq(all, 1, n)]
    /\ iov' = [iov EXCEPT ![c] = UpdateIov(@, n)]
    /\ IF nleft[c] = n THEN RpsSend(c)
       ELSE /\ nleft' = [nleft EXCEPT ![c] = @ - n]
            /\ UNCHANGED <<bufPtr, rpcmsg, state, in>>
    /\ ready' = IF Stays(c, TRUE, state'[c]) THEN ready ELSE ready \ {c}
    /\ UNCHANGED <<loopVars, ahead, len, peerVars, conn, up, inq, done, nlost>>

\* sendmsg takes nothing: NS_TIMEOUT for a socket that is full, an error for
\* one that is closed or when there is nothing to send.
SendNone(c) ==
    /\ c \in ready /\ state[c] = "SendData"
    /\ \/ (up[c] = "closed" \/ Join(iov[c]) = <<>>) /\ DropClient(c)
       \/ /\ up[c] = "yes" /\ Join(iov[c]) # <<>>
          /\ Room - Len(outq[c]) < Least(MinSend, Len(Join(iov[c])))
          /\ ready' = ready \ {c}
          /\ UNCHANGED <<loopVars, state, clientVars, peerVars, conn, up, inq,
                         outq, done, nlost>>

-----------------------------------------------------------------------------
(* The other ends: RPC clients, that send one request after the other over *)
(* a connection and wait for the reply of each.                            *)

\* The client accepts the connection.
Accept(c) ==
    /\ up[c] = "asked"
    /\ up' = [up EXCEPT ![c] = "yes"]
    /\ UNCHANGED <<loopVars, state, clientVars, ready, peerVars, conn, inq,
                   outq, done, nlost>>

\* The bytes the server is to have sent when the requests so far are done.
Expected(c) ==
    Handshake(conn[c]) \o
    Join([i \in 1..Len(done[c]) |-> Bytes(<<conn[c], i>>, done[c][i].reply)])

\* The client has got the handshake and every reply.
Answered(c) ==
    /\ tosend[c] = <<>> /\ Len(done[c]) = asked[c]
    /\ Len(heard[c]) = Len(Expected(c))

\* It begins to send a request with a body of n bytes.
Ask(c, n) ==
    /\ up[c] = "yes" /\ Answered(c) /\ asked[c] < MaxReqs[c]
    /\ asked' = [asked EXCEPT ![c] = @ + 1]
    /\ tosend' = [tosend EXCEPT ![c] = Bytes(<<conn[c], asked[c] + 1>>, n)]
    /\ UNCHANGED <<loopVars, state, clientVars, ready, heard, conn, up, inq,
                   outq, done, nlost>>

\* n more bytes of the request arrive.
Arrive(c, n) ==
    /\ up[c] = "yes" /\ n \in 1..Len(tosend[c])
    /\ inq' = [inq EXCEPT ![c] = @ \o SubSeq(tosend[c], 1, n)]
    /\ tosend' = [tosend EXCEPT ![c] = Drop(@, n)]
    /\ UNCHANGED <<loopVars, state, clientVars, ready, asked, heard, conn, up,
                   outq, done, nlost>>

\* The client reads what has come.
Hear(c) ==
    /\ up[c] = "yes" /\ outq[c] # <<>>
    /\ heard' = [heard EXCEPT ![c] = @ \o outq[c]]
    /\ outq' = [outq EXCEPT ![c] = <<>>]
    /\ UNCHANGED <<loopVars, state, clientVars, ready, tosend, asked, conn, up,
                   inq, done, nlost>>

\* The connection is refused, closed by the client or lost.
Close(c) ==
    /\ up[c] \in {"asked", "yes"} /\ nlost < MaxLost
    /\ up' = [up EXCEPT ![c] = "closed"] /\ nlost' = nlost + 1
    /\ UNCHANGED <<loopVars, state, clientVars, ready, peerVars, conn, inq,
                   outq, done>>

-----------------------------------------------------------------------------
Handle(c) ==
    \/ Connected(c) \/ ConnectFailed(c)
    \/ RecvDirect(c) \/ RecvAhead(c) \/ RecvNone(c)
    \/ \E n \in 1..Room : Send(c, n)
    \/ SendNone(c)

Peer(c) == \/ Accept(c) \/ Hear(c)
           \/ \E n \in 1..Hdr + MaxBody : Arrive(c, n)

Next ==
    \/ \E C \in SUBSET Clients : Retry(C)
    \/ Poll \/ Stop \/ StopServers
    \/ \E c \in Clients : Handle(c) \/ Peer(c) \/ Close(c)
    \/ \E c \in Clients, n \in 0..MaxBody : Ask(c, n)

Spec == Init /\ [][Next]_vars

\* The thread runs, connects are answered in the end, and the clients go on
\* to read and to send what they have begun.  A client need not ask, and no
\* connection need be lost.  None of these steps can be repeated for ever, so
\* that fairness for all of them together is enough.
Progress ==
    \/ \E C \in SUBSET Clients : Retry(C)
    \/ Poll \/ Stop
    \/ \E c \in Clients : Handle(c) \/ Peer(c)

FairSpec == Spec /\ WF_vars(Progress)

-----------------------------------------------------------------------------
(* Properties.                                                             *)

\* What is executed over a connection is what the client asked, in its order
\* and once each, with the bytes of its own body and no byte of the request
\* before it or of an earlier connection, however the bytes arrive.
ExecutesAsked ==
    \A c \in Clients :
        /\ Len(done[c]) \in {asked[c], asked[c] - 1}
        /\ \A i \in 1..Len(done[c]) :
              LET d == done[c][i]  n == d.req[1][2] IN
              /\ d.req = Header(<<conn[c], i>>, n)
              /\ d.body = Body(<<conn[c], i>>, n)

\* A client has got, will get from the socket and will be sent the handshake
\* and then every reply whole, whatever part of it each send takes.
RepliesWhole ==
    \A c \in Clients :
        up[c] = "yes" /\ state[c] # "Connecting" =>
            heard[c] \o outq[c] \o (IF state[c] = "SendData" THEN Join(iov[c]) ELSE <<>>)
                = Expected(c)

\* No byte of a request is left in the read-ahead buffer when the thread goes
\* back to poll, which would not wake it for that byte.
NotStranded ==
    \A c \in Clients : ahead[c] # <<>> /\ up[c] = "yes" => c \in ready

\* Every request over a connection that lasts is answered, every client that
\* lost its connection gets a new one, and a stop is not held up by a client.
Serves ==
    []<>(IF trigger THEN ~running
         ELSE \A c \in Clients : up[c] = "yes" /\ Answered(c))

\* "send only the data that was not previously sent" (sock.c, Dci_UpdateIov,
\* which Callback repeats): the buffers hold the nleft bytes that are left.
SendsTheRest ==
    \A c \in Clients : state[c] = "SendData" => Len(Join(iov[c])) = nleft[c]
=============================================================================
