------------------------------ MODULE RpcPool ------------------------------
(***************************************************************************)
(* The client side of the DCI RPC protocol, dcicommon/rpc.c.               *)
(*                                                                         *)
(* An RPC end point (an Rpc struct) keeps a list of idle connections.      *)
(* Servers connect to the end point: the listen thread accepts them and    *)
(* puts them on the list.  An end point may also have an HTTP host, to     *)
(* which the requesting threads connect themselves.  Dci_RpcRun takes one  *)
(* connection for each of its jobs, sends the requests, waits for the      *)
(* responses and puts the connections back or closes them.                 *)
(*                                                                         *)
(* Every critical section of rpcPtr->lock is one action, and so is every   *)
(* stretch of code between two of them that touches a socket.  The         *)
(* condition variable rpcPtr->cond is the set of the threads that wait on  *)
(* it.  Request and connection statistics are left out: nothing reads them *)
(* but rpc.stats.  So is the stop flag, which is set and never read.       *)
(***************************************************************************)
EXTENDS Integers, Sequences, FiniteSets, Functions

CONSTANTS
    Threads,      \* threads that call Dci_RpcRun
    Rpcs,         \* end points of the listener
    Conns,        \* Conn structs (and sockets) that can exist at a time
    HttpRpcs,     \* the end points with rpcPtr->host # NULL
    HttpMax,      \* httpnumconnections, the initial httpAvail
    JobLists,     \* the end points of the jobs of one Dci_RpcRun call
    MaxJobs,      \* bound on njob
    MaxRuns,      \* bound on the calls of Dci_RpcRun by one thread
    MaxDrops,     \* bound on the connections servers drop
    MayStop,      \* the server is shut down in the run
    NoConn,       \* the NULL connection
    Listener      \* the listen thread

Slots == 1..MaxJobs

ASSUME PoolAssumption ==
    /\ IsFiniteSet(Conns) /\ NoConn \notin Conns
    /\ Listener \notin Threads
    /\ Rpcs # {} /\ HttpRpcs \subseteq Rpcs
    /\ HttpMax \in Nat /\ MaxRuns \in Nat /\ MaxDrops \in Nat
    /\ MaxJobs \in Nat \ {0}
    /\ \A js \in JobLists : js \in Seq(Rpcs) /\ Len(js) \in Slots

VARIABLES
    \* The Rpc structs.
    idle,         \* firstPtr .. lastPtr: the list of idle connections
    nsocks,       \* number of connections
    httpAvail,    \* number of HTTP connections that may still be made
    waiters,      \* threads blocked on rpcPtr->cond
    \* The Conn structs.
    st,           \* who has the connection, and whether it is counted
    rpc,          \* its end point
    http,         \* "no", or whether the HTTP_KEEP bit is set
    \* The sockets and the servers behind them.
    up,           \* the server has not closed its end
    req,          \* requests sent and not yet executed
    resp,         \* responses sent and not yet received
    executed,     \* requests some server has executed
    ndrops,       \* connections dropped by servers so far
    \* The calls of Dci_RpcRun.
    pc, jobs,
    i,            \* the job the acquiring or the finishing loop is at
    held,         \* conns[]
    err,          \* jobs[].error
    reply,        \* the request whose response jobs[] holds
    timedout,     \* status of RpcGet is NS_TIMEOUT
    nrun,
    \* The listen thread.
    lpc,
    trigger,      \* the shutdown trigger has been written
    seen,         \* the poll before RpcAccept also returned the trigger
    lrpc,         \* the end point accepted for, or drained
    scan, keep,   \* RpcAccept's list to check, and the checked one
    drop,         \* connections its poll found readable
    nfds,         \* entries in its poll array
    todo          \* end points still to be drained

rpcVars    == <<idle, nsocks, httpAvail, waiters>>
connVars   == <<st, rpc, http>>
sockVars   == <<up, req, resp, executed, ndrops>>
runVars    == <<pc, jobs, i, held, err, reply, timedout, nrun>>
listenVars == <<lpc, trigger, seen, lrpc, scan, keep, drop, nfds, todo>>
vars == <<rpcVars, connVars, sockVars, runVars, listenVars>>

-----------------------------------------------------------------------------
(* Types.                                                                  *)

\* A request names the thread, its call of Dci_RpcRun and the job.
Requests == Threads \X (1..MaxRuns) \X Slots
NoReply  == <<>>

\* "idle": on the idle list.  "busy": in a Dci_RpcRun call.  "scan": on
\* RpcAccept's private list.  "closed": RpcClose done, still counted in
\* nsocks.  "retired": no longer counted in nsocks, RpcClose to come.
ConnStates == {"free", "idle", "busy", "scan", "closed", "retired"}
Counted    == {"idle", "busy", "scan", "closed"}

Busy   == {"ESENDWAIT", "ETIMEOUT", "ERECVWAIT"}
Failed == {"ESEND", "ERECV", "EHTTP"}
Errors == Busy \cup Failed \cup {"NONE", "OK", "ENOCONN"}

RpcType ==
    /\ idle \in [Rpcs -> Seq(Conns)]
    /\ nsocks \in [Rpcs -> Int]
    /\ httpAvail \in [Rpcs -> Int]
    /\ waiters \in [Rpcs -> SUBSET (Threads \cup {Listener})]

ConnType ==
    /\ st \in [Conns -> ConnStates]
    /\ rpc \in [Conns -> Rpcs]
    /\ http \in [Conns -> {"no", "close", "keep"}]

SockType ==
    /\ up \in [Conns -> BOOLEAN]
    /\ req \in [Conns -> Seq(Requests)]
    /\ resp \in [Conns -> Seq(Requests)]
    /\ executed \in SUBSET Requests
    /\ ndrops \in 0..MaxDrops

RunType ==
    /\ pc \in [Threads -> {"idle", "get", "check", "dropped", "connect",
                           "run", "finish", "close"}]
    /\ jobs \in [Threads -> JobLists \cup {<<>>}]
    /\ i \in [Threads -> 1..(MaxJobs + 1)]
    /\ held \in [Threads -> [Slots -> Conns \cup {NoConn}]]
    /\ err \in [Threads -> [Slots -> Errors]]
    /\ reply \in [Threads -> [Slots -> Requests \cup {NoReply}]]
    /\ timedout \in [Threads -> BOOLEAN]
    /\ nrun \in [Threads -> 0..MaxRuns]

ListenType ==
    /\ lpc \in {"listen", "poll", "sweep", "drain", "exit"}
    /\ trigger \in BOOLEAN /\ seen \in BOOLEAN
    /\ lrpc \in Rpcs
    /\ scan \in Seq(Conns) /\ keep \in Seq(Conns)
    /\ drop \in SUBSET Conns
    /\ nfds \in Int
    /\ todo \in SUBSET Rpcs

TypeOK == RpcType /\ ConnType /\ SockType /\ RunType /\ ListenType

Init ==
    /\ idle = [r \in Rpcs |-> <<>>]
    /\ nsocks = [r \in Rpcs |-> 0]
    /\ httpAvail = [r \in Rpcs |-> IF r \in HttpRpcs THEN HttpMax ELSE 0]
    /\ waiters = [r \in Rpcs |-> {}]
    /\ st = [c \in Conns |-> "free"]
    /\ rpc = [c \in Conns |-> CHOOSE r \in Rpcs : TRUE]
    /\ http = [c \in Conns |-> "no"]
    /\ up = [c \in Conns |-> TRUE]
    /\ req = [c \in Conns |-> <<>>]
    /\ resp = [c \in Conns |-> <<>>]
    /\ executed = {}
    /\ ndrops = 0
    /\ pc = [t \in Threads |-> "idle"]
    /\ jobs = [t \in Threads |-> <<>>]
    /\ i = [t \in Threads |-> 1]
    /\ held = [t \in Threads |-> [j \in Slots |-> NoConn]]
    /\ err = [t \in Threads |-> [j \in Slots |-> "NONE"]]
    /\ reply = [t \in Threads |-> [j \in Slots |-> NoReply]]
    /\ timedout = [t \in Threads |-> FALSE]
    /\ nrun = [t \in Threads |-> 0]
    /\ lpc = "listen"
    /\ trigger = FALSE /\ seen = FALSE
    /\ lrpc = CHOOSE r \in Rpcs : TRUE
    /\ scan = <<>> /\ keep = <<>>
    /\ drop = {}
    /\ nfds = 0
    /\ todo = {}

-----------------------------------------------------------------------------
(* Helpers.                                                                *)

Njob(t)  == Len(jobs[t])
R(t)     == jobs[t][i[t]]
Cur(t)   == held[t][i[t]]
Token(t, j) == <<t, nrun[t], j>>

\* poll(POLLIN) with a zero timeout: a response is there, or the end of file.
Readable(c) == resp[c] # <<>> \/ ~up[c]

\* Ns_CondBroadcast(&rpcPtr->cond): every waiting thread goes on.
Broadcast(r) == waiters' = [waiters EXCEPT ![r] = {}]

\* RpcNewConn: a Conn struct on a socket the server has just connected or
\* accepted.
NewConn(c, r, s, h) ==
    /\ st[c] = "free"
    /\ st' = [st EXCEPT ![c] = s]
    /\ rpc' = [rpc EXCEPT ![c] = r]
    /\ http' = [http EXCEPT ![c] = h]
    /\ up' = [up EXCEPT ![c] = TRUE]
    /\ req' = [req EXCEPT ![c] = <<>>]
    /\ resp' = [resp EXCEPT ![c] = <<>>]
    /\ UNCHANGED <<executed, ndrops>>

\* RpcClose: what was not received is lost; the server may still execute a
\* request it has received.
CloseSock(c) == resp' = [resp EXCEPT ![c] = <<>>]

\* Mutant: every connection gives an HTTP place back.
FreedAlways(c) == 1

\* An HTTP connection that goes gives its place back.
FreedHttp(c) == IF http[c] # "no" THEN 1 ELSE 0

\* Mutant: nsocks is not decremented.
UncountKept(c) ==
    /\ httpAvail' = [httpAvail EXCEPT ![rpc[c]] = @ + FreedHttp(c)]
    /\ Broadcast(rpc[c])
    /\ UNCHANGED nsocks

\* Mutant: no broadcast.
UncountSilent(c) ==
    /\ nsocks' = [nsocks EXCEPT ![rpc[c]] = @ - 1]
    /\ httpAvail' = [httpAvail EXCEPT ![rpc[c]] = @ + FreedHttp(c)]
    /\ UNCHANGED waiters

\* --rpcPtr->nsocks, ++rpcPtr->httpAvail for HTTP, broadcast.
Uncount(c) ==
    /\ nsocks' = [nsocks EXCEPT ![rpc[c]] = @ - 1]
    /\ httpAvail' = [httpAvail EXCEPT ![rpc[c]] = @ + FreedHttp(c)]
    /\ Broadcast(rpc[c])

\* Mutant: one connection is enough to run the jobs.
MayRunAny(t, errs) == \E j \in 1..Njob(t) : errs[j] = "ESENDWAIT"

\* nbusy = njob: "All jobs or no jobs must be attempted".
MayRun(t, errs) == \A j \in 1..Njob(t) : errs[j] = "ESENDWAIT"

\* The acquiring loop of Dci_RpcRun goes on to the next job with error e for
\* this one.  After the last job it runs the jobs if every one has its
\* connection; else no job is attempted and all end with RPC_ENOCONN.
NextJob(t, e) ==
    LET errs == [err[t] EXCEPT ![i[t]] = e]
        last == i[t] = Njob(t)
        all  == MayRun(t, errs)
    IN  /\ i' = [i EXCEPT ![t] = IF last THEN 1 ELSE @ + 1]
        /\ pc' = [pc EXCEPT ![t] = IF ~last THEN "get"
                                   ELSE IF all THEN "run" ELSE "finish"]
        /\ err' = [err EXCEPT ![t] =
                     IF last /\ ~all
                     THEN [j \in Slots |-> IF j <= Njob(t) THEN "ENOCONN"
                                                           ELSE errs[j]]
                     ELSE errs]
        /\ timedout' = [timedout EXCEPT ![t] = FALSE]
        /\ UNCHANGED <<jobs, reply, nrun>>

\* RpcGet's loop ends without a connection: connect if there is an HTTP host,
\* else the job has none.
GiveUp(t) ==
    IF R(t) \in HttpRpcs
    THEN /\ pc' = [pc EXCEPT ![t] = "connect"]
         /\ UNCHANGED <<jobs, i, err, reply, timedout, nrun>>
    ELSE NextJob(t, "ENOCONN")

-----------------------------------------------------------------------------
(* Dci_RpcRun: get a connection for every job.                             *)

RunStart(t) ==
    /\ pc[t] = "idle" /\ nrun[t] < MaxRuns
    /\ \E js \in JobLists : jobs' = [jobs EXCEPT ![t] = js]
    /\ pc' = [pc EXCEPT ![t] = "get"]
    /\ nrun' = [nrun EXCEPT ![t] = @ + 1]
    /\ UNCHANGED <<i, held, err, reply, timedout, rpcVars, connVars, sockVars,
                   listenVars>>

InGet(t) == pc[t] = "get" /\ t \notin waiters[R(t)]

\* Mutant: the status of the timed wait is not looked at.
MustWaitStill(t) == nsocks[R(t)] > 0 /\ httpAvail[R(t)] = 0

\* RpcGet waits while connections exist, none is idle, none can be made and
\* the deadline has not passed.
MustWait(t) == nsocks[R(t)] > 0 /\ httpAvail[R(t)] = 0 /\ ~timedout[t]

GetPop(t) ==
    /\ InGet(t) /\ idle[R(t)] # <<>>
    /\ held' = [held EXCEPT ![t][i[t]] = Head(idle[R(t)])]
    /\ st' = [st EXCEPT ![Head(idle[R(t)])] = "busy"]
    /\ idle' = [idle EXCEPT ![R(t)] = Tail(@)]
    /\ pc' = [pc EXCEPT ![t] = "check"]
    /\ UNCHANGED <<nsocks, httpAvail, waiters, rpc, http, sockVars, jobs, i,
                   err, reply, timedout, nrun, listenVars>>

GetWait(t) ==
    /\ InGet(t) /\ idle[R(t)] = <<>> /\ MustWait(t)
    /\ waiters' = [waiters EXCEPT ![R(t)] = @ \cup {t}]
    /\ UNCHANGED <<idle, nsocks, httpAvail, connVars, sockVars, runVars,
                   listenVars>>

\* Ns_CondTimedWait returns NS_TIMEOUT.
GetTimeout(t) ==
    /\ pc[t] = "get" /\ t \in waiters[R(t)]
    /\ waiters' = [waiters EXCEPT ![R(t)] = @ \ {t}]
    /\ timedout' = [timedout EXCEPT ![t] = TRUE]
    /\ UNCHANGED <<idle, nsocks, httpAvail, connVars, sockVars, pc, jobs, i,
                   held, err, reply, nrun, listenVars>>

GetNone(t) ==
    /\ InGet(t) /\ idle[R(t)] = <<>> /\ ~MustWait(t)
    /\ GiveUp(t)
    /\ UNCHANGED <<held, rpcVars, connVars, sockVars, listenVars>>

\* The popped connection is quiet: the job has its connection.
CheckOk(t) ==
    /\ pc[t] = "check" /\ ~Readable(Cur(t))
    /\ NextJob(t, "ESENDWAIT")
    /\ UNCHANGED <<held, rpcVars, connVars, sockVars, listenVars>>

\* The popped connection is readable: the server dropped it, close it.
CheckDrop(t) ==
    /\ pc[t] = "check" /\ Readable(Cur(t))
    /\ st' = [st EXCEPT ![Cur(t)] = "closed"]
    /\ CloseSock(Cur(t))
    /\ pc' = [pc EXCEPT ![t] = "dropped"]
    /\ UNCHANGED <<rpcVars, rpc, http, up, req, executed, ndrops, jobs, i,
                   held, err, reply, timedout, nrun, listenVars>>

\* RpcGet locks again after it closed a dropped connection, and loops.
Dropped(t) ==
    /\ pc[t] = "dropped"
    /\ Uncount(Cur(t))
    /\ st' = [st EXCEPT ![Cur(t)] = "free"]
    /\ held' = [held EXCEPT ![t][i[t]] = NoConn]
    /\ \/ /\ nsocks'[R(t)] > 0 /\ httpAvail'[R(t)] = 0 /\ ~timedout[t]
          /\ pc' = [pc EXCEPT ![t] = "get"]
          /\ UNCHANGED <<jobs, i, err, reply, timedout, nrun>>
       \/ /\ ~(nsocks'[R(t)] > 0 /\ httpAvail'[R(t)] = 0 /\ ~timedout[t])
          /\ GiveUp(t)
    /\ UNCHANGED <<idle, rpc, http, sockVars, listenVars>>

\* Ns_SockAsyncConnect, run without the lock, gave a socket.
ConnectOk(t) ==
    /\ pc[t] = "connect"
    /\ \E c \in Conns :
          /\ NewConn(c, R(t), "busy", "close")
          /\ held' = [held EXCEPT ![t][i[t]] = c]
    /\ nsocks' = [nsocks EXCEPT ![R(t)] = @ + 1]
    /\ httpAvail' = [httpAvail EXCEPT ![R(t)] = @ - 1]
    /\ NextJob(t, "ESENDWAIT")
    /\ UNCHANGED <<idle, waiters, listenVars>>

ConnectFail(t) ==
    /\ pc[t] = "connect"
    /\ NextJob(t, "ENOCONN")
    /\ UNCHANGED <<held, rpcVars, connVars, sockVars, listenVars>>

-----------------------------------------------------------------------------
(* Dci_RpcRun: run the jobs.                                               *)

JobDone(t, j, e) ==
    /\ err' = [err EXCEPT ![t][j] = e]
    /\ UNCHANGED <<pc, jobs, i, held, timedout, nrun>>

\* RpcSend has sent the last byte: a server that is up will see the request.
Send(t, j) ==
    /\ pc[t] = "run" /\ err[t][j] = "ESENDWAIT"
    /\ req' = [req EXCEPT ![held[t][j]] =
                 IF up[held[t][j]] THEN Append(@, Token(t, j)) ELSE @]
    /\ JobDone(t, j, "ETIMEOUT")
    /\ UNCHANGED <<reply, rpcVars, connVars, up, resp, executed, ndrops,
                   listenVars>>

SendFail(t, j) ==
    /\ pc[t] = "run" /\ err[t][j] = "ESENDWAIT" /\ ~up[held[t][j]]
    /\ JobDone(t, j, "ESEND")
    /\ UNCHANGED <<reply, rpcVars, connVars, sockVars, listenVars>>

\* RpcRecv has some of the response.
RecvPart(t, j) ==
    /\ pc[t] = "run" /\ err[t][j] = "ETIMEOUT" /\ resp[held[t][j]] # <<>>
    /\ JobDone(t, j, "ERECVWAIT")
    /\ UNCHANGED <<reply, rpcVars, connVars, sockVars, listenVars>>

\* RpcRecv has all of it.  An HTTP response says whether the connection is
\* kept.
RecvDone(t, j) ==
    LET c == held[t][j] IN
    /\ pc[t] = "run" /\ err[t][j] \in {"ETIMEOUT", "ERECVWAIT"}
    /\ resp[c] # <<>>
    /\ reply' = [reply EXCEPT ![t][j] = Head(resp[c])]
    /\ resp' = [resp EXCEPT ![c] = Tail(@)]
    /\ \E h \in {"close", "keep"} :
          http' = [http EXCEPT ![c] = IF @ = "no" THEN @ ELSE h]
    /\ JobDone(t, j, "OK")
    /\ UNCHANGED <<rpcVars, st, rpc, up, req, executed, ndrops, listenVars>>

\* An HTTP response with oversized headers, or not an RPC response.
RecvBad(t, j) ==
    /\ pc[t] = "run" /\ err[t][j] \in {"ETIMEOUT", "ERECVWAIT"}
    /\ http[held[t][j]] # "no" /\ resp[held[t][j]] # <<>>
    /\ resp' = [resp EXCEPT ![held[t][j]] = Tail(@)]
    /\ JobDone(t, j, "EHTTP")
    /\ UNCHANGED <<reply, rpcVars, connVars, up, req, executed, ndrops,
                   listenVars>>

\* Mutant: the failed receive is reported as a failed send.
RecvFailAsSend(t, j) ==
    /\ pc[t] = "run" /\ err[t][j] \in {"ETIMEOUT", "ERECVWAIT"}
    /\ resp[held[t][j]] = <<>> /\ ~up[held[t][j]]
    /\ JobDone(t, j, "ESEND")
    /\ UNCHANGED <<reply, rpcVars, connVars, sockVars, listenVars>>

RecvFail(t, j) ==
    /\ pc[t] = "run" /\ err[t][j] \in {"ETIMEOUT", "ERECVWAIT"}
    /\ resp[held[t][j]] = <<>> /\ ~up[held[t][j]]
    /\ JobDone(t, j, "ERECV")
    /\ UNCHANGED <<reply, rpcVars, connVars, sockVars, listenVars>>

StopRun(t) ==
    /\ pc' = [pc EXCEPT ![t] = "finish"]
    /\ UNCHANGED <<jobs, i, held, err, reply, timedout, nrun, rpcVars,
                   connVars, sockVars, listenVars>>

Nbusy(t) == Cardinality({j \in 1..Njob(t) : err[t][j] \in Busy})

RunEnd(t)     == pc[t] = "run" /\ Nbusy(t) = 0 /\ StopRun(t)
\* The deadline of the poll loop passes with jobs still in progress.
RunTimeout(t) == pc[t] = "run" /\ Nbusy(t) > 0 /\ StopRun(t)

-----------------------------------------------------------------------------
(* Dci_RpcRun: put the connections back, or close them.  The loop over the *)
(* connections of a run that was not attempted is the same loop, with      *)
(* ENOCONN as the error of every job.                                      *)

Finishing(t) == pc[t] = "finish" /\ i[t] <= Njob(t)

FinishSkip(t) ==
    /\ Finishing(t) /\ Cur(t) = NoConn
    /\ i' = [i EXCEPT ![t] = @ + 1]
    /\ UNCHANGED <<pc, jobs, held, err, reply, timedout, nrun, rpcVars,
                   connVars, sockVars, listenVars>>

\* Mutant: a connection whose response did not come in time is put back.
IsPutTimeout(t) ==
    /\ Finishing(t) /\ Cur(t) # NoConn
    /\ err[t][i[t]] \in {"OK", "ENOCONN", "ETIMEOUT"}

IsPut(t) == Finishing(t) /\ Cur(t) # NoConn /\ err[t][i[t]] \in {"OK", "ENOCONN"}

\* RpcPut of a connection that stays open.
PutIdle(t) ==
    /\ IsPut(t) /\ http[Cur(t)] # "close"
    /\ idle' = [idle EXCEPT ![rpc[Cur(t)]] = Append(@, Cur(t))]
    /\ st' = [st EXCEPT ![Cur(t)] = "idle"]
    /\ Broadcast(rpc[Cur(t)])
    /\ held' = [held EXCEPT ![t][i[t]] = NoConn]
    /\ i' = [i EXCEPT ![t] = @ + 1]
    /\ UNCHANGED <<nsocks, httpAvail, rpc, http, sockVars, pc, jobs, err, reply,
                   timedout, nrun, listenVars>>

\* The connection is given up under the lock and closed after it.
Retire(t) ==
    /\ Uncount(Cur(t))
    /\ st' = [st EXCEPT ![Cur(t)] = "retired"]
    /\ pc' = [pc EXCEPT ![t] = "close"]
    /\ UNCHANGED <<idle, rpc, http, sockVars, jobs, i, held, err, reply,
                   timedout, nrun, listenVars>>

\* RpcPut of an HTTP connection that is not kept.
PutClose(t) == IsPut(t) /\ http[Cur(t)] = "close" /\ Retire(t)

\* The end of a job that failed or is still waiting for I/O.
JobFail(t) ==
    /\ Finishing(t) /\ Cur(t) # NoConn
    /\ err[t][i[t]] \notin {"OK", "ENOCONN"}
    /\ Retire(t)

\* Mutant: the loop skips the connection after a closed one.
AfterCloseSkip(t) == i' = [i EXCEPT ![t] = @ + 2]

\* ++i of the finishing loop.
AfterClose(t) == i' = [i EXCEPT ![t] = @ + 1]

CloseConn(t) ==
    /\ pc[t] = "close"
    /\ st' = [st EXCEPT ![Cur(t)] = "free"]
    /\ CloseSock(Cur(t))
    /\ held' = [held EXCEPT ![t][i[t]] = NoConn]
    /\ AfterClose(t)
    /\ pc' = [pc EXCEPT ![t] = "finish"]
    /\ UNCHANGED <<rpcVars, rpc, http, up, req, executed, ndrops, jobs, err,
                   reply, timedout, nrun, listenVars>>

\* Every job has its error and its response: what the caller gets.
Results(t) == pc[t] = "finish" /\ i[t] > Njob(t)

\* The caller is done with its job structs.
Return(t) ==
    /\ Results(t)
    /\ pc' = [pc EXCEPT ![t] = "idle"]
    /\ jobs' = [jobs EXCEPT ![t] = <<>>]
    /\ i' = [i EXCEPT ![t] = 1]
    /\ err' = [err EXCEPT ![t] = [j \in Slots |-> "NONE"]]
    /\ reply' = [reply EXCEPT ![t] = [j \in Slots |-> NoReply]]
    /\ UNCHANGED <<held, timedout, nrun, rpcVars, connVars, sockVars, listenVars>>

-----------------------------------------------------------------------------
(* The listen thread.                                                      *)

\* Mutant: the detached connections stay on the list.
DetachCopy(r) == UNCHANGED idle

\* rpcPtr->firstPtr = rpcPtr->lastPtr = NULL.
Detach(r) == idle' = [idle EXCEPT ![r] = <<>>]

\* Mutant: the array is sized before the new connection is counted.
PollSizeBefore(r) == nsocks[r]

\* nfds = rpcPtr->nsocks.
PollSize(r) == nsocks'[r]

\* RpcAccept: count and push the new connection, then detach the whole list.
\* A connection whose handshake fails changes nothing.
Accept(c, r) ==
    /\ lpc = "listen" /\ st[c] = "free"
    /\ st' = [d \in Conns |-> IF d = c \/ d \in Range(idle[r])
                              THEN "scan" ELSE st[d]]
    /\ rpc' = [rpc EXCEPT ![c] = r]
    /\ http' = [http EXCEPT ![c] = "no"]
    /\ up' = [up EXCEPT ![c] = TRUE]
    /\ req' = [req EXCEPT ![c] = <<>>]
    /\ resp' = [resp EXCEPT ![c] = <<>>]
    /\ nsocks' = [nsocks EXCEPT ![r] = @ + 1]
    /\ scan' = Append(idle[r], c)
    /\ Detach(r)
    /\ nfds' = PollSize(r)
    /\ keep' = <<>>
    /\ lrpc' = r
    /\ seen' = trigger
    /\ lpc' = "poll"
    /\ UNCHANGED <<httpAvail, waiters, executed, ndrops, runVars, trigger, drop,
                   todo>>

\* RpcAccept polls every connection it has detached.
ScanPoll ==
    /\ lpc = "poll"
    /\ drop' = {c \in Range(scan) : Readable(c)}
    /\ lpc' = "sweep"
    /\ UNCHANGED <<rpcVars, connVars, sockVars, runVars, trigger, seen, lrpc,
                   scan, keep, nfds, todo>>

\* RpcAccept closes the dropped ones and reverses the list of the others.
ScanClose ==
    /\ lpc = "sweep" /\ scan # <<>> /\ Head(scan) \in drop
    /\ st' = [st EXCEPT ![Head(scan)] = "closed"]
    /\ CloseSock(Head(scan))
    /\ scan' = Tail(scan)
    /\ UNCHANGED <<rpcVars, rpc, http, up, req, executed, ndrops, runVars, lpc,
                   trigger, seen, lrpc, keep, drop, nfds, todo>>

ScanKeep ==
    /\ lpc = "sweep" /\ scan # <<>> /\ Head(scan) \notin drop
    /\ keep' = <<Head(scan)>> \o keep
    /\ scan' = Tail(scan)
    /\ UNCHANGED <<rpcVars, connVars, sockVars, runVars, lpc, trigger, seen,
                   lrpc, drop, nfds, todo>>

\* Begin to drain one of the end points in S, or exit when none is left.
DrainNext(S) ==
    \/ /\ S = {} /\ lpc' = "exit"
       /\ UNCHANGED <<lrpc, todo>>
    \/ \E r \in S : lrpc' = r /\ todo' = S \ {r} /\ lpc' = "drain"

\* RpcAccept puts the checked connections back on the list.
Relist ==
    /\ lpc = "sweep" /\ scan = <<>>
    /\ nsocks' = [nsocks EXCEPT ![lrpc] = @ - Cardinality(drop)]
    /\ st' = [c \in Conns |-> IF c \in drop THEN "free"
                              ELSE IF c \in Range(keep) THEN "idle" ELSE st[c]]
    /\ idle' = [idle EXCEPT ![lrpc] = @ \o keep]
    /\ Broadcast(lrpc)
    /\ drop' = {} /\ keep' = <<>> /\ nfds' = 0
    /\ IF seen THEN DrainNext(Rpcs)
               ELSE lpc' = "listen" /\ UNCHANGED <<lrpc, todo>>
    /\ UNCHANGED <<httpAvail, rpc, http, sockVars, runVars, trigger, seen, scan>>

\* RpcStopListener writes the trigger at server shutdown.
StopListener ==
    /\ MayStop /\ ~trigger /\ trigger' = TRUE
    /\ UNCHANGED <<rpcVars, connVars, sockVars, runVars, lpc, seen, lrpc, scan,
                   keep, drop, nfds, todo>>

ListenExit ==
    /\ lpc = "listen" /\ trigger
    /\ DrainNext(Rpcs)
    /\ UNCHANGED <<rpcVars, connVars, sockVars, runVars, trigger, seen, scan,
                   keep, drop, nfds>>

\* RpcListenThread at shutdown, from one wait to the next: close every idle
\* connection of the end point; while others are still out, wait for them.
Drain ==
    /\ lpc = "drain" /\ Listener \notin waiters[lrpc]
    /\ idle' = [idle EXCEPT ![lrpc] = <<>>]
    /\ nsocks' = [nsocks EXCEPT ![lrpc] = @ - Len(idle[lrpc])]
    /\ st' = [c \in Conns |-> IF c \in Range(idle[lrpc]) THEN "free" ELSE st[c]]
    /\ resp' = [c \in Conns |-> IF c \in Range(idle[lrpc]) THEN <<>>
                                                           ELSE resp[c]]
    /\ \/ /\ nsocks'[lrpc] > 0
          /\ waiters' = [waiters EXCEPT ![lrpc] = @ \cup {Listener}]
          /\ UNCHANGED <<lpc, lrpc, todo>>
       \/ /\ nsocks'[lrpc] <= 0
          /\ DrainNext(todo)
          /\ UNCHANGED waiters
    /\ UNCHANGED <<httpAvail, rpc, http, up, req, executed, ndrops, runVars,
                   trigger, seen, scan, keep, drop, nfds>>

-----------------------------------------------------------------------------
(* The servers: each answers the requests of a connection in order, and    *)
(* may go away at any time, with or without the responses on their way.    *)

SockOpen(c) == st[c] \in {"idle", "busy", "scan", "retired"}

ServerReply(c) ==
    /\ up[c] /\ req[c] # <<>>
    /\ executed' = executed \cup {Head(req[c])}
    /\ req' = [req EXCEPT ![c] = Tail(@)]
    /\ resp' = [resp EXCEPT ![c] = IF SockOpen(c) THEN Append(@, Head(req[c]))
                                                  ELSE @]
    /\ UNCHANGED <<rpcVars, connVars, up, ndrops, runVars, listenVars>>

ServerDrop(c) ==
    /\ up[c] /\ SockOpen(c) /\ ndrops < MaxDrops
    /\ ndrops' = ndrops + 1
    /\ up' = [up EXCEPT ![c] = FALSE]
    /\ req' = [req EXCEPT ![c] = <<>>]
    /\ \E q \in {resp[c], <<>>} : resp' = [resp EXCEPT ![c] = q]
    /\ UNCHANGED <<rpcVars, connVars, executed, runVars, listenVars>>

-----------------------------------------------------------------------------
ThreadStep(t) ==
    \/ GetPop(t) \/ GetWait(t) \/ GetNone(t) \/ CheckOk(t) \/ CheckDrop(t)
    \/ Dropped(t) \/ ConnectOk(t) \/ ConnectFail(t) \/ RunEnd(t)
    \/ FinishSkip(t) \/ PutIdle(t) \/ PutClose(t) \/ JobFail(t) \/ CloseConn(t)
    \/ Return(t) \/ GetTimeout(t) \/ RunTimeout(t)

JobStep(t, j) ==
    \/ Send(t, j) \/ SendFail(t, j) \/ RecvPart(t, j) \/ RecvDone(t, j)
    \/ RecvBad(t, j) \/ RecvFail(t, j)

ListenStep == ScanPoll \/ ScanClose \/ ScanKeep \/ Relist \/ ListenExit \/ Drain

Next ==
    \/ \E t \in Threads : \/ RunStart(t) \/ ThreadStep(t)
                          \/ \E j \in Slots : JobStep(t, j)
    \/ \E c \in Conns : \/ \E r \in Rpcs : Accept(c, r)
                        \/ ServerReply(c)
                        \/ ServerDrop(c)
    \/ StopListener
    \/ ListenStep

Spec == Init /\ [][Next]_vars

\* Threads run, the lock is granted in the end, and the two deadlines (of the
\* condition wait and of the poll loop) are absolute times, so they pass
\* (a thread that waits, or whose jobs wait, has no other step).  No
\* fairness for the servers: they may never answer.
FairSpec ==
    /\ Spec
    /\ \A t \in Threads : WF_vars(ThreadStep(t))
    /\ WF_vars(ListenStep)

-----------------------------------------------------------------------------
(* Properties.                                                             *)

\* nsocks is the number of the connections of the end point that were opened
\* and not yet given up, over every path that opens or closes one: RpcGet,
\* RpcPut, Dci_RpcRun, RpcAccept and the shutdown loop.
CountedConns(r) == {c \in Conns : rpc[c] = r /\ st[c] \in Counted}
NsocksExact == \A r \in Rpcs : nsocks[r] = Cardinality(CountedConns(r))

\* A connection is in one place: once on one idle list, or in one slot of one
\* Dci_RpcRun call, or on RpcAccept's list; no closed one is on any list.
OneOwner ==
    /\ \A r \in Rpcs : /\ IsInjective(idle[r])
                      /\ \A c \in Range(idle[r]) : st[c] = "idle" /\ rpc[c] = r
    /\ \A t \in Threads, j \in Slots : held[t][j] # NoConn =>
          /\ st[held[t][j]] \in {"busy", "closed", "retired"}
          /\ \A u \in Threads, k \in Slots :
                held[u][k] = held[t][j] => u = t /\ k = j
    /\ IsInjective(scan) /\ IsInjective(keep)
    /\ Range(scan) \cap Range(keep) = {}
    /\ \A c \in Range(scan) \cup Range(keep) : st[c] = "scan" /\ rpc[c] = lrpc

\* A job that ends with RPC_OK has the response to its own request, although
\* connections are reused and requests are given up while the server is still
\* at work on them.
OwnReply ==
    \A t \in Threads, j \in Slots :
        err[t][j] = "OK" => reply[t][j] = Token(t, j)

\* "All jobs or no jobs must be attempted": when one job of a call ends with
\* RPC_ENOCONN, all do, and no server has or will get a request of the call.
AllOrNothing ==
    \A t \in Threads : Results(t) =>
        \A j, k \in 1..Njob(t) : err[t][j] = "ENOCONN" =>
            /\ err[t][k] = "ENOCONN"
            /\ Token(t, k) \notin executed
            /\ \A c \in Conns : Token(t, k) \notin Range(req[c])

\* RpcAccept sizes its poll array by nsocks and fills it from the detached
\* list: the list is never longer.
PollArrayFits == lpc = "poll" => Len(scan) <= nfds

\* No thread sleeps on the condition variable while a connection is on the
\* idle list, or after the last connection is gone: every push and every
\* decrement of nsocks wakes those who wait, the shutdown loop's silent
\* decrements included.
NoLostWakeup ==
    \A r \in Rpcs : waiters[r] # {} => idle[r] = <<>> /\ nsocks[r] > 0

\* The places left and the HTTP connections in use never add up to more than
\* httpnumconnections: no path gives a place back twice.
HttpInUse(r) == {c \in Conns : /\ rpc[c] = r /\ http[c] # "no"
                               /\ st[c] \in Counted}
HttpPlaces ==
    \A r \in Rpcs : httpAvail[r] + Cardinality(HttpInUse(r))
                        <= IF r \in HttpRpcs THEN HttpMax ELSE 0

\* The pool implements the service of RpcService.  A thread has its results
\* when the loop that gives the connections back is over.
Phase(t) == IF pc[t] = "idle" THEN "idle"
            ELSE IF Results(t) THEN "returned" ELSE "running"
Meaning(e) == CASE e = "OK" -> "done"
                [] e = "ENOCONN" -> "noconn"
                [] e \in {"ESEND", "ESENDWAIT"} -> "notsent"
                [] OTHER -> "unknown"
AfterSend == {"ETIMEOUT", "ERECVWAIT", "OK", "ERECV", "EHTTP"}
SentRequests ==
    UNION {{Token(t, j) : j \in {k \in Slots : err[t][k] \in AfterSend}} :
              t \in Threads}
Service == INSTANCE RpcService WITH
    phase   <- [t \in Threads |-> Phase(t)],
    ncall   <- nrun,
    njob    <- [t \in Threads |-> Njob(t)],
    outcome <- [t \in Threads |-> [j \in Slots |->
                  IF Results(t) /\ j <= Njob(t) THEN Meaning(err[t][j])
                                                ELSE "none"]],
    sent    <- SentRequests,
    pending <- UNION {Range(req[c]) : c \in Conns}

\* A request reaches a server at most once.  A job that ends before its
\* request was sent (RPC_ENOCONN, RPC_ESEND, RPC_ESENDWAIT) was not executed
\* and will not be: it is safe to retry, which dci.h does not say of
\* RPC_ETIMEOUT and RPC_ERECVWAIT.  One that ends with RPC_OK was executed.
\* This stays true of the requests a call gave up and left in a server's
\* socket.
ImplementsService == Service!ServiceSpec

\* Every Dci_RpcRun call returns, whatever the servers do: also two calls that
\* each hold a connection the other waits for.
RunReturns == \A t \in Threads : []<>(pc[t] = "idle")

\* A triggered listen thread ends: no connection is lost from the count its
\* shutdown loop waits on, without a deadline, to reach zero.  (The trigger
\* is never taken back.)
ShutdownCompletes == []<>(trigger => lpc = "exit")

=============================================================================
