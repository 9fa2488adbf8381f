# A verification project for the DCI module (nsdci)

nsdci is a loadable module for AOLserver, in C. It gives a group of web servers
the services they share: calls between servers (RPC), broadcasts, replicated
variables, cache flushes, a small-object broker, a network file system, counters
and polls. This directory holds TLA+ models of its protocol code, TLC runs on
small instances, and TLAPS proofs for all instances.

## 1. Inventory

The code that matters is `src/dcicommon` (about 21,000 lines of C in use).
`src/dciadmin` is a small administration module, `src/config` names hosts and
ports, `src/pages` shows counters with a vendored JavaScript toolkit, and
`src/gdbm-1.8.3` is a vendored library.

| Component | State it keeps | Operations | Interacts with |
|---|---|---|---|
| RPC client, `rpc.c` | per end point: list of idle connections, `nsocks`, `httpAvail`, a lock and a condition; per call: `conns[]`, job errors | `Dci_RpcRun`, `RpcGet`, `RpcPut`, `RpcAccept`, the listen thread and its shutdown loop | servers connect to it; sob, nfs, nt, np, neval, nrate, proxy call it |
| RPC server, `rpc.c` `Rps*` and `server.c` | per connection: header/data buffers, state of the send or receive | `RpsProc`, `Callback`, `DciServer` loop | connects to the client's listen port, answers in order |
| Broadcaster, `broadcast.c` | message queue with reference counts, clients on an active or a retry list, trigger pipe | `Dci_Broadcast`, the broadcaster thread, `StopBroadcasters`, the statistics commands | nv and ncf send through it; the receiver is its peer |
| Receiver, `receiver.c` | per socket: length or data being read, the receiver logged in to | `RecvAccept`, `RecvMsg` | calls nv and ncf |
| Cache flush, `flush.c`, `cache.c` | list of caches; repeater list | `Dci_NcfSend`, `NcfRecv`, `NcfRepeat` | broadcaster, receiver, sob |
| Object broker, `sob.c` | cache of objects with fill in progress | `sob.get`, `put`, `copy`, `delete` | RPC, ncf |
| Network files, `nfs.c`, `file.c` | directory of files with callbacks and versions | read, write, unlink, update callbacks | RPC |
| Network variables, `nv.c` | arrays with update lists and an initial message | set, unset, flush, reload, `RecvUpdate` | broadcaster, receiver |
| Tally, polls, rates, `otally.c`, `poll.c`, `nrate.c` | counters, batches to be sent | add, flush, reload | RPC |
| Proxies, `proxy.c`, `nproxy.c`, `neval.c` | pools of worker processes | get, evaluate, put | RPC |
| Content and formats (`av.c`, `cb.c`, `art.c`, `http.c`, encoders) | little | parse, format | files, gdbm |

The properties that make each part correct, in a line each:

- RPC client: a connection has one owner; `nsocks` and `httpAvail` agree with
  the connections; a response belongs to the request it is given to; a call
  sends all of its requests or none; every call and the shutdown end.
- RPC server: a response is sent whole, in the order of the requests, whatever
  part of it each `sendmsg` takes.
- Broadcaster and receiver: a connection carries whole messages, in order and
  without gaps after the initial one; a message lives exactly as long as
  somebody has to send it; the thread never sleeps over a message; everyone who
  waits for it goes on.
- ncf, sob, nfs: after a write and its flush, no cache holds the old value.
- nv: a replica that has received everything equals the master; the file equals
  the array after the last flush.
- Tally, polls, rates: a count is applied once, and saved.
- Proxies: a process has one user; none of an old pool serves a new one.

What is hard in this code: several threads per end point with a lock that is
dropped in the middle of an operation; requests that are given up while the
server goes on with them; connections that die between any two steps; event
loops with partial sends; counts that must agree with lists; shutdown loops that
wait for a count without a deadline. The list, with the line of each, is
`hazards` in `PROJECT.json`.

## 2. Plan

The order follows what the rest of the system depends on. Done:

1. `RpcPool`: the RPC client, with all calling threads, the listen thread, the
   shutdown and the servers as its environment; shown to implement
   `RpcService`, which says what a caller may conclude from an error code.
2. `Broadcast`: the broadcaster thread, the threads that use it, the network
   and the receivers; without a timeout shown to implement `BroadcastLog`, a
   log that every connection reads forwards from an initial snapshot.
3. `RpcServer`: `server.c`'s loop with `RpsProc`, the buffers of a reply, the
   read-ahead buffer and partial sends.
4. `Nv` over `BroadcastLog`: arrays, initial message and replicas, with the
   three locks of nv and the broadcaster; `NvFlush`: the persist files.
5. `Sob` over `BroadcastLog` and the promises of `RpcService`: caches of the
   object broker, the file server's writes and the flushes they send.
6. `Proxy`: the pools of `proxy.c`.

Left, in this order:

7. `Tally`: the batches of `otally.c`, their free list and the connections that
   break in the middle of one; then polls and rates.
8. Repeaters: an nv replica that is broadcast further, and `NcfRepeat`.
9. The work queue of `dciadmin`, whose jobs are files.

Every safety property that a passing run checks has its theorem (section 11); a
module added later should come with its own. Runs are kept few: each module has
one or two, shared between its properties.

How the modules build on each other:

```
RpcPool  --implements-->  RpcService   (assumed by Sob)
Broadcast --implements--> BroadcastLog <--extended by-- Nv, Sob
RpcServer                               the server RpcPool's environment abstracts
NvFlush                                 the files Nv starts from (Stored)
```

## 3. RpcPool: the RPC client (`rpc.c`)

### State

| Variables | Code |
|---|---|
| `idle`, `nsocks`, `httpAvail`, `waiters` | `firstPtr..lastPtr`, `nsocks`, `httpAvail` of an `Rpc`; the threads in a wait on its `cond` |
| `st`, `rpc`, `http` | the `Conn` structs: where each is, its `rpcPtr`, its HTTP and HTTP_KEEP bits |
| `up`, `req`, `resp`, `executed` | the sockets and the servers behind them |
| `pc`, `jobs`, `i`, `held`, `err`, `reply`, `timedout` | one `Dci_RpcRun` call per thread: `conns[]`, `jobs[].error`, the response a job holds, the status of the timed wait |
| `lpc`, `trigger`, `seen`, `lrpc`, `scan`, `keep`, `drop`, `nfds`, `todo` | the listen thread: `RpcAccept`'s private lists and poll array, and the shutdown loop |

`st` makes explicit what the code keeps in program positions: a connection is
`idle`, `busy` in a call, on `RpcAccept`'s list (`scan`), `closed` but still
counted (between `RpcClose` and `--nsocks`), or `retired` (the other order, in
`RpcPut` and at the end of `Dci_RpcRun`).

### Actions

One action for each critical section of `rpcPtr->lock`, and one for each stretch
of code between two of them that touches a socket. `GetPop`, `GetWait`,
`GetTimeout`, `GetNone`, `CheckOk`, `CheckDrop`, `Dropped`, `ConnectOk` and
`ConnectFail` are `RpcGet`. `Send` .. `RecvFail`, `RunEnd` and `RunTimeout` are
the poll loop of `Dci_RpcRun` with `RpcSend` and `RpcRecv`; bytes are abstracted
to "request sent whole" and "some" or "all of the response read", which is what
the error codes tell apart. `PutIdle`, `PutClose`, `JobFail`, `CloseConn` and
`Return` are its last loop with `RpcPut`. `Accept`, `ScanPoll`, `ScanClose`,
`ScanKeep` and `Relist` are `RpcAccept`; `StopListener`, `ListenExit` and
`Drain` the shutdown. `ServerReply` and `ServerDrop` are the environment: a
server answers in order or goes away, with or without what it has sent.

Left out: statistics (written and only reported), connection ids, warnings, and
the `stop` flag, which the code sets and never reads.

## 4. Broadcast: broadcaster and receivers (`broadcast.c`, `receiver.c`)

### State

| Variables | Code |
|---|---|
| `queue`, `ref`, `pipe`, `shutdownPending` | `firstMsgPtr..lastMsgPtr`, `refcnt`, the bytes in `triggerPipe`, the flag: all under the global `lock` |
| `stats`, `stop` | a thread in `broadcast.stats` that waits for `bPtr->lock` with `lock` held; `StopBroadcasters` |
| `pc`, `hot`, `todo` | the broadcaster thread; `hot` is `msgPtr != NULL`, on which the limit of its `poll` depends, and which is uninitialised at first |
| `place`, `state`, `msg`, `off`, `revents`, `cur` | the `Client` structs: list, state, message and how much of it is sent, poll result, socket |
| `net`, `wire` | the connections and what is on its way; a socket's buffers take `Room` parts |
| `rx`, `login`, `frame`, `want`, `got` | the receiver's `Sock` structs: what of a frame has been read, its length, and the messages given to the callback |
| `snap` | how many messages had been broadcast when the initial message was made (for `ImplementsLog` only) |

A message is `Parts` parts, the first one its length, so that sends and reads
stop at every place that matters. A part that is no length but is read as one
gives any length. Clock times are nondeterministic: a retry may be due and a
send may be too old at any pass.

### Actions

`Dci_Broadcast`, `StatsLock`/`StatsRead` and `StopFlag`/`StopTrigger`/`StopJoin`
are the other threads. The thread's loop is `TopRetry`/`TopSkip` (connect to the
clients on the retry list), `Poll`, one `Verify...` action for each way an active
client is handled after the poll, `VerifyEnd`, and `NextMsg` or `Stopping`. The
clients are verified one by one, with the network and the receivers in between,
because the poll's result may be out of date by then. `RecvAccept` and
`RecvLength`, `RecvBody`, `RecvLogin`, `RecvCall`, `RecvEnd`, `RecvExit` are
`receiver.c`. `Refuse` and `Break` are failures of the network, bounded by
`MaxFaults`.

Left out: the order of the client lists (every client is handled by itself),
warnings, the debug flag, and the reference an initProc keeps on its own message.

## 5. The abstract specifications

`RpcService` has no connections: a call of some jobs is made, each of its
requests is sent at most once, a sent request may be executed at any time later
or lost, and the call ends with an outcome for each job that must be true:
"done" only if executed, "notsent" and "noconn" only if the request never left,
"noconn" for all jobs or for none. `RpcPool!Service` maps the error codes
(`Meaning`) and the positions of a thread (`Phase`) to it; `pending` is what is
in the sockets. So `ImplementsService` says of the code that an error that
invites a retry is never given for a request that a server has or may execute.

`BroadcastLog` has no thread, no queue and no frames: the log grows, a
connection is given the initial message, made when the log had a known length,
and then messages in the order of the log. Messages the snapshot already holds
may be given again, since they may still be in the queue when the client is
served; none that it lacks is left out. Both `Nv` and `Sob` extend this module,
so what is checked of them rests on exactly what `Broadcast` is shown to do.

## 6. Nv and NvFlush: network variables (`nv.c`)

`Nv` has the `Array` structs of a server (`vars`, `log`, `dirty` for `NV_INIT`,
`owner` of the lock), `servPtr->init`, and for each client its connection and
replica. A command is two steps, the change under the array's lock (`Change`)
and `BroadcastUpdates` with the lock still held, because `Dci_Broadcast` waits
for the broadcaster mutex in between. `Connect`, `InitLock` and `InitBuild` are
the broadcaster's call of `ClientInitMsg`, one lock at a time; `StatsLock` and
`StatsRead` are `broadcast.stats`. `RecvUpdate` applies a message command by
command with the code's `arrayPtr`, including what it does for a netname it does
not know. `hist` records the server's arrays as of each message, for `Synced`.

`NvFlush` has the flusher's pass array by array: copy and clear `NV_FLUSH` under
the lock, write the temporary file, rename. Writes and renames fail, the process
ends and starts again at any point, and changes come between any two steps until
the shutdown begins. Contents are version numbers; a file that was written in
part is `Partial`. `lostWrite` and `waited` are there for the properties.

## 7. RpcServer: socket server and RPC callback (`server.c`, `rpc.c`)

The variables are the fields of `Client` (`state`, `nleft`, `iov`, `bufPtr`,
`ahead` for the bytes at `recvbase`) and of `CData` (`rpcmsg`, `len`, `in`), and
`ready`, the clients whose events the thread has still to handle. Every byte
carries the request or reply it belongs to, so that a byte in the wrong place is
seen. A pass of the loop is `Retry`, `Poll` and then one `Callback` at a time for
each client with an event; `Stays` is the condition of the inner loops. Steps of
two clients may mix, which the code's order does not do, but they share nothing.
`Accept`, `Ask`, `Arrive`, `Hear` and `Close` are the RPC client at the other end:
it asks again only when it has the reply, as `RpcPool` does.

`UpdateIov` is the code's loop as it stands. With it a send that ends inside the
header corrupts the reply (see Findings); `server_serve` therefore assumes that a
send takes at least a header (`MinSend = Hdr`), as a socket with eight free bytes
does in practice, and `server_rest` drops the assumption.

## 8. Sob: object broker, file server and cache flushes (`sob.c`, `nfs.c`, `flush.c`)

A get is `SobGetFile` (hit, wait, or a new entry and a request without the
lock), `NfsReadFile` at the server and `FetchOk` or `FetchFail`; a thread that
waits is `WaitAgain` or `WaitTimeout`. A write is `Write`, then `WriteFile` and
`NfsFlush` at the server, two steps with reads in between, and `WriteReturns`,
which may report a failure whatever the server did. A file's contents are the
number of the write that made them. The flushes go through `BroadcastLog` to
`NcfRecvKey` and `NcfRecvInit`. `flushed`, `floor`, `base` and `raced` are for
the properties: what a process has flushed for, and whether a fetch was under
way then. `NfsReadFile` may return the cached file although the file is newer:
the code compares size and time in seconds.

## 9. Proxy: process pools (`proxy.c`)

One mutex and one condition for all pools. `proxy.start` is `StartTake` and
`StartAdd`; `proxy.send` is `Send`, `Wake` or `Timeout`, then `Io` without the
lock, which ends with the comparison of `refid`, and `PutFront` or `End` with
it. `Signal` wakes one waiting thread, any one. A proxy is a number, given in
`StartTake` to the proxies the thread is about to allocate without the lock
(`new`), so that each has a place from then on; `old` are the ones it stops
meanwhile. `stock` counts what a pool should have, for `Stock`.

## 10. Runs

| Run | Instance | Shows |
|---|---|---|
| `rpc_live` | 2 calls of 2 jobs over 2 connections, shutdown, fair threads | one owner, all-or-nothing, the poll array; every call and the shutdown end, also when two calls hold what the other needs |
| `rpc_reuse` | 2 threads, 2 calls each, 2 connections, HTTP host with 1 place, 1 drop | no response goes to the wrong request, the counts and wakeups, no HTTP place is given back twice, `RpcService` is implemented |
| `bc_order` | 2 clients, 2 messages, 1 failure, an initial message, buffers of one part | framing, reference counts, `BroadcastLog` is implemented |
| `bc_live` | 1 client connected to twice, 2 messages of 3 parts, timeouts, a statistics call, shutdown, fair threads and receivers | no message slept over, pipe bounded; dispatch, the statistics command and the shutdown end |
| `nv_sync` | 2 threads, 2 arrays, 2 updates, 2 connections, a loss or a restart, a statistics call | replicas follow the arrays and end up equal, or the three locks are in a ring |
| `nv_flush` | 2 arrays, 4 changes, 2 failures, a crash, shutdown | whole files that only advance, no change forgotten, a stop in the wait saves all |
| `server_serve` | 2 clients, 2 requests of up to 4 bytes, read-ahead or not, a lost connection, shutdown | requests executed once and as sent, replies whole, no byte stranded, every request answered |
| `sob_cache` | 2 threads in a process, 3 gets, 2 writes, 2 connections, a loss | a cached value is old only after a race with a fetch; waiting threads are woken |
| `proxy_pool` | 4 threads, 2 pools, 2 proxies, 5 calls | no proxy lost or doubled, nobody waits for ever for a pool that has one |
| `bc_timeout_frames`, `nv_deadlock`, `server_rest` | | violations, see Findings |

Bounds. Two threads and two connections are the least with which threads take
each other's connections, wait for each other and meet `RpcAccept`'s detached
list; two jobs per call give a partial acquisition; two calls per thread give
reuse after every outcome of the first. Two clients share a message and fail at
different parts of it; two messages have an order; parts of two or three let a
send stop inside a message with buffers of one or two parts. Two connections per
client are the one that is lost and the one that makes up for it. Two arrays are
needed for an initial message that locks one while another changes; two updates
for one before and one after it. A header and a body of two bytes each, a socket
of three and a read-ahead of three let every piece end inside each part, and a
read-ahead span a header and part of its body. Four threads and two pools are
the least with which a signal wakes the wrong thread while another pool's proxy
is held. Deadlock is not checked in these runs: with every bounded counter used
up the system rightly stops.

Fairness. `RpcPool!FairSpec` has weak fairness for each calling thread and for
the listen thread only. A thread's timeouts are among its steps: both deadlines
are absolute times, so a wait ends even if nobody wakes it. Servers have no
fairness: they may never answer or connect. `Broadcast!ServerFairness` is weak
fairness for the broadcaster thread and for the waiting threads; `RecvFairness`
says that receivers read: without it a single stopped receiver blocks everything
when no timeout is configured, which is what the code does. `Nv`, `RpcServer`,
`Sob` and `Proxy` have one weak fairness condition for all steps of running
threads (`Progress`): none of these can be repeated for ever without a command,
a request or a failure from outside, which are bounded, so it asks no more than
fairness for each. Commands, failures, crashes and, in `Sob` and `Proxy`, the
deadline of a waiting thread are not in it: `GetReturns` and `Served` hold
because threads are woken, not because they give up. `NvFlush` has weak fairness
for the flusher, whose wait has a deadline, and for the join.

Assumptions of the runs, each about configuration or network and each needed:
`nv_sync` takes clients that link every array of the server, and a client that
reads an old connection to its end before the next (`Overlap = FALSE`);
`sob_cache` takes `flushonconnect` set, since without it a client that was away
keeps what was flushed meanwhile; `server_serve` takes `MinSend = Hdr`.

## 11. Proofs

Every theorem holds for all values of the constants that satisfy the assumption
of its module:

| Proof module | About | Assumption |
|---|---|---|
| `RpcPool_proofs` | `RpcPool`, `RpcService` | `PoolAssumption`: finitely many connections, natural bounds |
| `RpcServer_proofs` | `RpcServer` | `ServerAssumption`: natural sizes and bounds, a header of at least a byte, a connection to make, sockets that are writable only with room for a byte or more |
| `Broadcast_proofs` | `Broadcast`, `BroadcastLog` | `BroadcastAssumption`: finitely many clients, messages of two parts or more |
| `NvFlush_proofs` | `NvFlush` | `FlushAssumption`: natural bounds |
| `Nv_proofs` | `Nv` | `NvAssumption`: at least one client, finitely many keys, natural bounds, an initial message for every connection |
| `Sob_proofs` | `Sob` | `SobAssumption`: natural bounds, at least one key, `flushonconnect` set, a log long enough for the writes |
| `Proxy_proofs` | `Proxy` | `ProxyAssumption`: finitely many threads, natural bounds |

None says how many there are. `ListLemmas` has the facts about the elements of a
list after `Tail`, `Append` and `\o` that several of them use, and two that stand
in for induction over data: a set of numbers with 0 in it and with every next one
holds all (`Induct`, by the least counterexample), and a function defined by
recursion exists (`Recursion`), so that what it computes is shown by giving it.

RPC client:

- `TypeCorrect` and `OneOwnerAlways` follow from `OwnInv`, which is inductive.
  `OneOwner` alone is not: to see that a pop, push or close keeps it, one needs
  the state of the connection in each slot for each program position
  (`SlotState` in `HeldInv`), which slots are filled at each position
  (`ThreadInv`), that a job in progress has a connection (`ErrInv`), and that
  what `RpcAccept` is about to close is in no thread's slot (`ListenInv`). There
  is a lemma per group of actions; frame lemmas carry the other conjuncts.
- `NsocksAlwaysExact` adds the count to it: each action adds or removes one
  connection of the set that is counted, or a whole list of distinct ones in
  `Relist` and `Drain`, for which the lists have to be injective.
- `PollArrayAlwaysFits`: a detached list of distinct, counted connections of one
  end point is no longer than `nsocks`.
- `NeverLostWakeup`: whoever waits saw an empty list and a positive count, and
  every action that changes either broadcasts.
- `HttpPlacesAlways`: the sum of places and connections never grows, because
  places are given back only for an HTTP connection that stops being counted.
  (It is not constant: see the leak below.)
- `OwnReplyAlways`, `AllOrNothingAlways` and `PoolImplementsService` follow from
  `ReplyInv`. `OwnReply` speaks of the moment a response is read; what makes it
  true is what may be on a connection at any other time. A job that waits for
  its response has its own request, or its response, or nothing on its
  connection, and any other job has nothing there (`SlotTraffic`); connections
  that can be taken are quiet, and one that was given up still has the request
  at its server (`ConnTraffic`); a request is on one connection (`Once`) and of
  a job that has sent it or a call that is over (`UsedInv`); and a call has
  `RPC_ENOCONN` for all its jobs or for none (`CallInv`). The refinement maps
  each action to the one of `RpcService` it does (`Send` to a request that may
  be executed, the failures after it to an outcome that does not deny it), most
  of them to a stutter.

Broadcaster:

- `BroadcastTypeCorrect`.
- `QueueAlwaysSeen` and `PipeAlwaysBounded` follow from `WakeInv` and `PipeInv`.
  `WakeInv` says that at the top of the loop and in the poll a non-empty queue
  means a byte in the pipe, `hot`, or a client that sends; `PipeInv` gives a
  byte for a non-empty queue, one left over by the pass that emptied it, and
  those of the other threads.
- `RefAlwaysExact` follows from `RefInv`: queued messages are distinct and not
  newer than the last; clients on the retry list or connecting have no message;
  and nobody has one when the next is taken.
- `FramesAlwaysIntact` and `BroadcastImplementsLog` follow from `LogInv`, with
  the hypothesis `~HasTimeout`: with a timeout the code sends the login again in
  the middle of a message, and both are false (`bc_timeout_frames`). `LogInv`
  follows a message from the queue to the callback: without a shutdown the queue
  is the run of messages after the `Taken` ones (`QueueRun`); where the thread
  is with a client follows the last part it has sent, and the message after that
  one is the next of the queue (`SenderInv`); each part on its way follows the
  one before, and the first the parts the receiver has (`StreamInv`), where
  `Link` says which message may follow which after a given snapshot. A message
  given to a callback is then the next of the log.

RPC server:

- `ServerTypeCorrect`, `OnlyAsked` and `NothingStranded` follow from
  `ServerInv`, which follows every byte of a connection. Towards the server: what
  has been received of a header (`InHeader`) or of a body (`InBody`), then the
  read-ahead buffer, what is in the socket and what the client has still to send
  are together the request it has asked (`Receiving`). The lengths add up with
  `nleft`, and a length of 0 tells a body apart from a header. That stands for
  any split of the bytes: each receive, from the socket or the read-ahead buffer,
  is reduced to one step that takes some bytes off the front (`Took`), and then to
  a part, a whole header or a whole request (`InvPart`, `InvWants`,
  `InvExecutes`). The read-ahead buffer is empty unless the loop is with the
  client, which is `NotStranded`.
- Towards the client only lengths add up without a hypothesis (`Counted`, with
  the one or two buffers of `Sending`): a send that ends within the header leaves
  fewer bytes in the buffers than `nleft`. It is enough for the other direction,
  since a client that has heard all is one whose next request the server waits
  for (`AnsweredReceives`).
- `RepliesAreWhole` and `RestIsKept` follow from `WholeInv`, which says which
  bytes they are, with the hypothesis `MinSend >= Hdr`: a send that is cut takes
  the header buffer whole. `server_rest` shows that both are false without it.
  What `UpdateIov` leaves of one or two buffers is the lemma `Updated`.

Network variables:

- `FlushTypeCorrect`, `NeverForgotten` and `FileOnlyAdvances` follow from
  `FlushInv`. `NotForgotten` alone is not inductive: after the rename the file
  must hold the copy (`tmp = ds` at the rename), and `FileAdvances` needs the
  order file, copy, array of the versions of the array being written.
- `StopAlwaysSaves` adds `StopInv`: once a stop has found the flusher at its
  wait, an array that is not saved has still to be looked at in this pass, with
  its flag set, or is on its way; and that what is being written then is what
  the array holds, so that a rename that clears `lostWrite` is of that.
- `NvTypeCorrect` follows from `TypeInv`, which has the sequences of commands and
  `LockInv`: a thread in `BroadcastUpdates` has one array's lock, and the
  broadcaster those of the first `nlocked` arrays.
- `AlwaysSynced` follows from `NvInv`, with two hypotheses: every client has
  configured every array, and reads no old connection after the next one.
  Without either the code does not keep `Synced` (see Findings). `Synced` says
  nothing of a replica while updates come again; the invariant has to. Each
  message makes the arrays as of it from those before it, and what an array has
  in its log is what has happened since (`HistInv`); the initial message makes
  any replica equal to the arrays as of its snapshot, and is still current while
  no array is marked (`InitInv`); and each value of a replica is as of the last
  message, or still as of the snapshot while that is newer (`ReadInv`). The last
  holds because a command either makes a value the same whatever it was, or
  leaves it alone (`CellAll`), so an update that comes again can only bring a
  value to where the server had it. Messages are applied by recursion; what that
  computes is in `ApplyTo` and `RecvTo`, shown with `Recursion` and `Induct`.

Object broker:

- `SobTypeCorrect`, `NeverOlder` and `StaleOnlyByRaceAlways` follow from
  `SobInv`. `StaleOnlyByRace` speaks of a moment when the writes are done and
  the flushes have come; the invariant says what leads there. Writes are
  numbered and each makes at most one version, the file has the last one of its
  object, and what the server has cached is no older than any flush sent
  (`WriteInv`, `ServerInv`: the cache entry goes before the flush is sent).
  A process has flushed for every message it has got and for nothing newer than
  the file or the server's cache (`FlushInv`, `GivenInv`), so a fetch that no
  flush overtakes reads what the process has flushed for, or newer
  (`ThreadInv`), and caches that (`CacheInv`). The bound on versions is a count
  of the writes that have made one.

Proxies:

- `ProxyTypeCorrect` follows from `ProxyInv`: every numbered proxy is in exactly
  one place, a list, a thread's hand, the lists of a `proxy.start`, or dropped
  (`OnePlace`). One lemma (`Moved`) says that a step that moves some proxies to
  a place each and leaves the others keeps this, and every action is a case of
  it. Which variables a call has filled (`CallInv`) and that lists have no
  proxy twice are needed to see that it is. The counts of `TypeOK` follow.
- `StockAlways` adds that a pool that was not made has no proxy, and needs that
  no thread has a later `refid` than its pool, so that nobody has a proxy of a
  pool that was remade just now.

Only model-checked: the liveness properties (`RunReturns`, `ShutdownCompletes`,
`Dispatched`, `StatsReturns`, `StopCompletes`, `Converges`, `Reaches`, `Serves`,
`GetReturns`, `Served`), which with fairness are out of the prover's
reach. Every safety and action property of a passing run has its theorem.

## 12. Findings

With a run:

- `bc_timeout_frames`: after a send timeout the client is not put on the retry
  list, as the comment says; the login is sent again in the middle of the
  stream, and the receiver is given frames that are no messages.
- `nv_deadlock`: `broadcast.stats` holds the broadcaster mutex and waits for
  `bPtr->lock`; the broadcaster holds that and waits for an array in
  `ClientInitMsg`; a command holds the array and waits for the mutex.
- `server_rest`: after a send that ended inside the header, `Callback` cuts the
  same number of bytes off the body (`server.c:579`).

The model has these behaviours too, and a property without the exception or the
assumption named here fails:

- `rpc.c:949`: `httpAvail`, the "Limit on number of HTTP connections", is
  exceeded. `RpcGet` connects after a wait that timed out with no place left,
  and tests and takes a place in two critical sections.
- `rpc.c:1388`: `RpcAccept` closes a kept HTTP connection that its server has
  dropped and does not give its place back, as the other paths do.
- `broadcast.c:526`: the timeout that is to keep an unresponsive host "from
  blocking the rest" is not looked at when the poll before it has no limit,
  which happens after an initProc that returned NULL.
- `nv.c:1687`: a client that has not linked one of the server's arrays applies
  that array's commands to the array before it in the message, or drops the
  connection if there is none.
- `receiver.c`: nothing orders the thread that reads an old connection and the
  one that reads the next; a replica can stay behind after a late update.
- `nv.c:1960`: a change whose write or rename failed is not written again until
  the array changes (`lostWrite` in `NotForgotten`).
- `nv.c:2008`: a stop during a pass ends the flusher without another pass, and
  what changed since the copies is lost (`waited` in `StopSaves`).
- `sob.c:1053`: a value read before a write and cached after its flush stays
  (`raced` in `StaleOnlyByRace`).
- `proxy.c:437`: `refid` is compared without the lock; a process of the old pool
  gets into the new one (`stock` in `PutFront`).

Seen while reading:

- `Dci_RpcTimedSend` documents `RPC_TIMEOUT` for a response that does not come
  in time, but its switch (`rpc.c:563`) does not map `RPC_ETIMEOUT`.
- `nv.c:1984` tests `NV_FSYNC` (2) in the variable that holds the flags of
  `open`, `O_CREAT|O_WRONLY|O_EXCL`: the file is not synced, whatever the option.
- `sob.c:454` and `605` test `result`, which stays 0 for a job that failed, and
  not `error`; `SobCopyCmd` says it flushes on write (`sob.c:486`) and does not.
- `nfs.c:888` and `899` use a cache entry found before the lock was given up.
- `nfs.c:1261` updates a board without a lock across read and write.
- `flush.c:223`: nobody gives back the first reference to the initial message.
- `proxy.c:435` sets `ok` after a failed read, so that a dead process goes back
  to the front; `StartCmd` never frees the proxies it stops.

## 13. Not modelled

- The tally, polls and rates, repeaters, and the work queue: see the plan.
- `RpsRequest`: a request over HTTP is one call of the handler by AOLserver's
  own connection thread.
- nproxy and neval: sequential calls over the RPC that is modelled.
- Comment boards, directories and address views: record formats over files.
- The content and format code (`art.c`, `img.c`, `page.c`, `html.c`, the
  encoders), start-up, configuration and Tcl glue: no protocol.
- The statistics pages, the vendored JavaScript toolkit they use
  (`src/pages/stats/dojo`, by far the most lines of the repository) and the
  vendored gdbm library: third-party code that keeps no state of this system.
  The program itself is the C code, and only that is modelled.

Condition variables, mutexes, `poll`, sockets and the cache of AOLserver are
modelled from how the code uses them.
