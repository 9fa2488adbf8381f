-------------------------------- MODULE Sob --------------------------------
(***************************************************************************)
(* The small object broker: the caches of its clients (dcicommon/sob.c),   *)
(* the writes of the file server behind them (nfs.c) and the cache flushes *)
(* the server broadcasts (flush.c).                                        *)
(*                                                                         *)
(* The RPCs are calls of RpcService: a request is executed at most once,   *)
(* and the call may fail before or after.  The flushes are the log of      *)
(* BroadcastLog, whose clients are the processes that hold a cache.  The   *)
(* versions of a file are numbered in the order of the writes; that a file *)
(* is not there is a version too.  One server is modelled; a put to a list *)
(* of them is a put to each.  The limit on the size of a cache and clients *)
(* without a cache are left out.                                           *)
(***************************************************************************)
EXTENDS BroadcastLog, FiniteSets

CONSTANTS
    Threads, Home,    \* the threads, and the process each runs in
    Writers,          \* the threads that also run the commands that write
    Keys,
    MaxWrites, MaxGets, MaxFaults,    \* bounds
    FlushOnWrite,     \* the flushOnWrite option of the client
    None, Pending     \* no cache entry, and one without a value

Writes   == 1..MaxWrites
Versions == 0..MaxWrites
AnyKey   == CHOOSE k \in Keys : TRUE

ASSUME SobAssumption ==
    /\ Home \in [Threads -> Clients] /\ Writers \subseteq Threads /\ Keys # {}
    /\ MaxWrites \in Nat /\ MaxGets \in Nat /\ MaxFaults \in Nat
    /\ MaxMsgs >= MaxWrites      \* the bound of the log is not met
    /\ FlushOnWrite \in BOOLEAN
    /\ None \notin Versions /\ Pending \notin Versions \cup {None}
    /\ Starts = {InitMsg}        \* flushonconnect is set

VARIABLES
    \* The file server.
    file,         \* version of a key's file
    nver,         \* number of versions
    wkey, wst,    \* a write request: its key, and "new", "sent", "written",
                  \* "done" (flush sent) or "failed"
    wver,         \* the version it made
    fcache,       \* nfsPtr->cache
    body,         \* the keys the messages flush
    \* The clients.
    cache,
    pc,           \* "idle", "fetch", "wait" or "write"
    key, val,     \* key of the call; None or the version the server has read
    job,          \* the write of the call
    woken,        \* a thread that waits has been woken
    ngets,
    \* Their connections to the broadcaster.
    conn, lost, nfault,
    \* What the properties need.
    flushed,      \* the latest version a process has flushed its cache for
    floor,        \* flushed, at the start of the fetch; of a cached value
    base,         \* the floor of its fetch
    raced         \* the last flush came while a fetch was under way

serverVars == <<file, nver, wkey, wst, wver, fcache, body>>
threadVars == <<pc, key, val, job, woken, ngets, floor>>
cacheVars  == <<cache, flushed, base, raced>>
connVars   == <<conn, lost, nfault>>
vars == <<serverVars, threadVars, cacheVars, connVars, logVars>>

Kinds == {"put", "copy", "post"}

TypeOK ==
    /\ file \in [Keys -> Versions] /\ nver \in Versions
    /\ fcache \in [Keys -> Versions \cup {None}]
    /\ wst \in [Writes -> {"new", "sent", "written", "done", "failed"}]
    /\ cache \in [Clients -> [Keys -> Versions \cup {None, Pending}]]
    /\ pc \in [Threads -> {"idle", "fetch", "wait", "write"}]
    /\ val \in [Threads -> Versions \cup {None}] /\ woken \in [Threads -> BOOLEAN]
    /\ conn \in [Clients -> 0..MaxConns] /\ lost \in [Clients -> BOOLEAN]
    /\ raced \in [Clients -> [Keys -> BOOLEAN]]
    /\ Len(body) = length
    \* An entry without a value has a thread that will fill or flush it.
    /\ \A p \in Clients, k \in Keys :
          cache[p][k] = Pending =>
              \E t \in Threads : Home[t] = p /\ pc[t] = "fetch" /\ key[t] = k

Init ==
    /\ LogInit
    /\ file = [k \in Keys |-> 0] /\ nver = 0
    /\ wkey = [w \in Writes |-> AnyKey] /\ wst = [w \in Writes |-> "new"]
    /\ wver = [w \in Writes |-> 0] /\ fcache = [k \in Keys |-> None]
    /\ body = <<>>
    /\ cache = [p \in Clients |-> [k \in Keys |-> None]]
    /\ pc = [t \in Threads |-> "idle"]
    /\ key = [t \in Threads |-> AnyKey]
    /\ val = [t \in Threads |-> None] /\ job = [t \in Threads |-> 0]
    /\ woken = [t \in Threads |-> FALSE] /\ ngets = 0
    /\ conn = [p \in Clients |-> 0] /\ lost = [p \in Clients |-> TRUE]
    /\ nfault = 0
    /\ flushed = [p \in Clients |-> [k \in Keys |-> 0]]
    /\ floor = [t \in Threads |-> 0]
    /\ base = [p \in Clients |-> [k \in Keys |-> 0]]
    /\ raced = [p \in Clients |-> [k \in Keys |-> FALSE]]

-----------------------------------------------------------------------------
(* SobGetFile.                                                             *)

Fetching(p, k) == \E t \in Threads : Home[t] = p /\ pc[t] = "fetch" /\ key[t] = k

\* Ns_CacheBroadcast: the threads of a process that wait are woken.
Broadcast(p) ==
    woken' = [t \in Threads |-> woken[t] \/ (Home[t] = p /\ pc[t] = "wait")]

\* The call returns, and its local variables end.
Return(t) ==
    /\ pc' = [pc EXCEPT ![t] = "idle"]
    /\ key' = [key EXCEPT ![t] = AnyKey]
    /\ val' = [val EXCEPT ![t] = None]
    /\ job' = [job EXCEPT ![t] = 0]
    /\ floor' = [floor EXCEPT ![t] = 0]

\* The entry is there: return its value, or wait for it.  It is not: create
\* it, give up the lock and ask the server.
SobGetFile(t, k) ==
    LET p == Home[t] IN
    /\ pc[t] = "idle" /\ ngets < MaxGets
    /\ ngets' = ngets + 1
    /\ \/ /\ cache[p][k] = None
          /\ cache' = [cache EXCEPT ![p][k] = Pending]
          /\ pc' = [pc EXCEPT ![t] = "fetch"]
          /\ key' = [key EXCEPT ![t] = k]
          /\ floor' = [floor EXCEPT ![t] = flushed[p][k]]
          /\ UNCHANGED woken
       \/ /\ cache[p][k] = Pending
          /\ pc' = [pc EXCEPT ![t] = "wait"]
          /\ key' = [key EXCEPT ![t] = k]
          /\ woken' = [woken EXCEPT ![t] = FALSE]
          /\ UNCHANGED <<cache, floor>>
       \/ /\ cache[p][k] \in Versions
          /\ UNCHANGED <<cache, pc, key, floor, woken>>
    /\ UNCHANGED <<serverVars, val, job, flushed, base, raced, connVars, logVars>>

\* The read came: set the value, in a new entry if the one made before was
\* flushed, and wake the threads that wait.
FetchOk(t) ==
    LET p == Home[t]  k == key[t] IN
    /\ pc[t] = "fetch" /\ val[t] # None
    /\ cache' = [cache EXCEPT ![p][k] = val[t]]
    /\ base' = [base EXCEPT ![p][k] = floor[t]]
    /\ Return(t)
    /\ Broadcast(p)
    /\ UNCHANGED <<serverVars, ngets, flushed, raced, connVars, logVars>>

\* Mutant: the threads that wait are left to their deadline.
FailedQuiet(p) == UNCHANGED woken

\* The threads that wait are woken for a failure, too.
Failed(p) == Broadcast(p)

\* Mutant: the entry stays.
AfterFailKeep(c, k) == c

\* The entry is flushed, whoever has set it.
AfterFail(c, k) == [c EXCEPT ![k] = None]

\* The read failed.
FetchFail(t) ==
    LET p == Home[t]  k == key[t] IN
    /\ pc[t] = "fetch"
    /\ cache' = [cache EXCEPT ![p] = AfterFail(@, k)]
    /\ Return(t)
    /\ Failed(p)
    /\ UNCHANGED <<serverVars, ngets, flushed, base, raced, connVars, logVars>>

\* A thread that waited looks again: it returns the value, or an error when
\* the entry is gone, or waits for the value of whoever made it anew.
WaitAgain(t) ==
    /\ pc[t] = "wait" /\ woken[t]
    /\ IF cache[Home[t]][key[t]] = Pending THEN UNCHANGED <<pc, key, val, job, floor>>
       ELSE Return(t)
    /\ woken' = [woken EXCEPT ![t] = FALSE]
    /\ UNCHANGED <<serverVars, ngets, cacheVars, connVars, logVars>>

\* Its deadline passes: it returns an error, and the fetch goes on.
WaitTimeout(t) ==
    /\ pc[t] = "wait" /\ ~woken[t]
    /\ Return(t)
    /\ UNCHANGED <<serverVars, woken, ngets, cacheVars, connVars, logVars>>

-----------------------------------------------------------------------------
(* The commands that write.                                                *)

\* Mutant: only an entry without a value is flushed.
FlushEntryPending(c, k) == IF c[k] = Pending THEN [c EXCEPT ![k] = None] ELSE c

\* Ns_CacheFlushEntry of a key, if it has an entry.
FlushEntry(c, k) == [c EXCEPT ![k] = None]

\* What a flush means to the properties: process p has flushed the keys K for
\* the versions v.
Note(p, K, v) ==
    /\ flushed' = [flushed EXCEPT ![p] = [k \in Keys |->
                      IF k \in K /\ v[k] > @[k] THEN v[k] ELSE @[k]]]
    /\ raced' = [raced EXCEPT ![p] = [k \in Keys |->
                      IF k \in K THEN Fetching(p, k) ELSE @[k]]]
    /\ base' = [base EXCEPT ![p] = [k \in Keys |-> IF k \in K THEN 0 ELSE @[k]]]

\* The number of the next write request, and the request for key k.
NextWrite == Cardinality({w \in Writes : wst[w] # "new"}) + 1

NewWrite(k) ==
    /\ NextWrite \in Writes
    /\ wst' = [wst EXCEPT ![NextWrite] = "sent"]
    /\ wkey' = [wkey EXCEPT ![NextWrite] = k]

\* A command that writes sends its request.
Write(t, k) ==
    /\ pc[t] = "idle"
    /\ NewWrite(k)
    /\ pc' = [pc EXCEPT ![t] = "write"]
    /\ key' = [key EXCEPT ![t] = k]
    /\ job' = [job EXCEPT ![t] = NextWrite]
    /\ UNCHANGED <<file, nver, wver, fcache, body, val, woken, ngets, floor,
                   cacheVars, connVars, logVars>>

\* SobPutCmd and SobDeleteCmd flush whatever comes of the request, NcbPostCmd
\* and NcbDeleteCmd when it succeeded, SobCopyCmd does not.
Flushes(kind, ok) == FlushOnWrite /\ (kind = "put" \/ (kind = "post" /\ ok))

\* The RPC returns, with success only when the server has done the write.  The
\* kind of command, nsob.put, append and delete, nsob.copy, or ncb.post and
\* delete, matters only now.
WriteReturns(t, kind, ok) ==
    LET p == Home[t]  k == key[t]  w == job[t] IN
    /\ pc[t] = "write"
    /\ ok => wst[w] = "done"
    /\ IF Flushes(kind, ok)
       THEN /\ cache' = [cache EXCEPT ![p] = FlushEntry(@, k)]
            /\ Note(p, {k}, [j \in Keys |-> IF ok THEN wver[w] ELSE 0])
       ELSE UNCHANGED cacheVars
    /\ Return(t)
    /\ UNCHANGED <<serverVars, woken, ngets, connVars, logVars>>

-----------------------------------------------------------------------------
(* The file server.                                                        *)

\* A client of another kind, without a cache, sends a write.
OtherWrite(k) ==
    /\ NewWrite(k)
    /\ UNCHANGED <<file, nver, wver, fcache, body, threadVars, cacheVars, connVars,
                   logVars>>

\* NfsWriteFile3 and NfsUnlinkFile: the rename, append or unlink.
WriteFile(w) ==
    /\ wst[w] = "sent"
    /\ nver' = nver + 1
    /\ file' = [file EXCEPT ![wkey[w]] = nver + 1]
    /\ wver' = [wver EXCEPT ![w] = nver + 1]
    /\ wst' = [wst EXCEPT ![w] = "written"]
    /\ UNCHANGED <<wkey, fcache, body, threadVars, cacheVars, connVars, logVars>>

\* The request did not come, or the write failed.
WriteFails(w) ==
    /\ wst[w] = "sent"
    /\ wst' = [wst EXCEPT ![w] = "failed"]
    /\ UNCHANGED <<file, nver, wkey, wver, fcache, body, threadVars, cacheVars,
                   connVars, logVars>>

\* NfsFlush: the server's own cache is flushed, Dci_NcfSend.
NfsFlush(w) ==
    /\ wst[w] = "written"
    /\ Publish
    /\ body' = Append(body, [key |-> wkey[w], ver |-> wver[w]])
    /\ wst' = [wst EXCEPT ![w] = "done"]
    /\ fcache' = [fcache EXCEPT ![wkey[w]] = None]
    /\ UNCHANGED <<file, nver, wkey, wver, threadVars, cacheVars, connVars>>

\* NfsReadFile: the cached file, which need not be the file if that has the
\* same size and time, or the file, which is then cached.
NfsReadFile(t) ==
    LET k == key[t] IN
    /\ pc[t] = "fetch" /\ val[t] = None
    /\ fcache' = [fcache EXCEPT ![k] = file[k]] \/ (fcache[k] # None /\ UNCHANGED fcache)
    /\ val' = [val EXCEPT ![t] = fcache'[k]]
    /\ UNCHANGED <<file, nver, wkey, wst, wver, body, pc, key, job, woken, ngets,
                   floor, cacheVars, connVars, logVars>>

-----------------------------------------------------------------------------
(* The flushes: the broadcaster, and NcfRecv in the clients.               *)

\* A process is connected, and NcfClientInitMsg makes the first message.
Connect(p) ==
    /\ lost[p] /\ conn[p] < MaxConns
    /\ conn' = [conn EXCEPT ![p] = @ + 1]
    /\ lost' = [lost EXCEPT ![p] = FALSE]
    /\ Snapshot(<<p, conn[p] + 1>>)
    /\ UNCHANGED <<serverVars, threadVars, cacheVars, nfault>>

\* NcfRecv of the flush of a key.
NcfRecvKey(p, m) ==
    LET k == body[m].key IN
    /\ Deliver(<<p, conn[p]>>, m)
    /\ cache' = [cache EXCEPT ![p] = FlushEntry(@, k)]
    /\ IF cache[p][k] # None THEN Broadcast(p) ELSE UNCHANGED woken
    /\ Note(p, {k}, [j \in Keys |-> body[m].ver])
    /\ UNCHANGED <<serverVars, pc, key, val, job, ngets, floor, connVars>>

\* Mutant: the first message flushes nothing.
FlushAllNone(c) == c

\* NcfFlushAll: every entry of the caches that are registered.
FlushAll(c) == [k \in Keys |-> None]

\* NcfRecv of the first message.  It was made when the flushes of the first
\* snap messages had been sent.
NcfRecvInit(p) ==
    LET c == <<p, conn[p]>> IN
    /\ Deliver(c, InitMsg)
    /\ cache' = [cache EXCEPT ![p] = FlushAll(@)]
    /\ Broadcast(p)
    /\ Note(p, Keys, [k \in Keys |->
           LET vs == {0} \cup {body[m].ver : m \in {i \in 1..snap[c] : body[i].key = k}}
           IN  CHOOSE v \in vs : \A u \in vs : u <= v])
    /\ UNCHANGED <<serverVars, pc, key, val, job, ngets, floor, connVars>>

\* The connection is lost, with the messages on it.
Lose(p) ==
    /\ ~lost[p] /\ nfault < MaxFaults
    /\ lost' = [lost EXCEPT ![p] = TRUE] /\ nfault' = nfault + 1
    /\ UNCHANGED <<serverVars, threadVars, cacheVars, conn, logVars>>

-----------------------------------------------------------------------------
Server == \E w \in Writes : WriteFile(w) \/ WriteFails(w) \/ NfsFlush(w)

Recv(p) == ~lost[p] /\ (NcfRecvInit(p) \/ \E m \in Msgs : NcfRecvKey(p, m))

Next ==
    \/ \E t \in Threads, k \in Keys : SobGetFile(t, k)
    \/ \E t \in Threads : \/ NfsReadFile(t) \/ FetchOk(t) \/ FetchFail(t)
                          \/ WaitAgain(t) \/ WaitTimeout(t)
    \/ \E t \in Writers, k \in Keys : Write(t, k)
    \/ \E t \in Writers, kind \in Kinds, ok \in BOOLEAN : WriteReturns(t, kind, ok)
    \/ \E k \in Keys : OtherWrite(k)
    \/ Server
    \/ \E p \in Clients : Connect(p) \/ Recv(p) \/ Lose(p)

Spec == Init /\ [][Next]_vars

\* Every RPC returns (RunReturns in RpcPool) and a thread that is woken runs.
\* Nothing is assumed of the deadline of a thread that waits.
Progress ==
    \E t \in Threads : \/ FetchOk(t) \/ FetchFail(t) \/ WaitAgain(t)
                       \/ \E kind \in Kinds, ok \in BOOLEAN : WriteReturns(t, kind, ok)

FairSpec == Spec /\ WF_vars(Progress)

-----------------------------------------------------------------------------
(* Properties.                                                             *)

\* A cached value is no older than the last write the process has flushed its
\* cache for, by its own command or for the server's message; and if a fetch
\* was under way at that flush, no older than the flush before that fetch.
NotOlder ==
    \A p \in Clients, k \in Keys :
        cache[p][k] \in Versions =>
            cache[p][k] >= IF raced[p][k] THEN base[p][k] ELSE flushed[p][k]

\* Every flush that has been sent has come.
Delivered(p) ==
    /\ ~lost[p] /\ given[<<p, conn[p]>>] # <<>>
    /\ LET g == given[<<p, conn[p]>>]  m == g[Len(g)]
       IN  (IF m = InitMsg THEN snap[<<p, conn[p]>>] ELSE m) = length

\* When the writes are done and their flushes have come, a cached value is
\* the file, also after connections were lost; it is an old one only if a
\* fetch was under way when a flush came.
StaleOnlyByRace ==
    \A p \in Clients, k \in Keys :
        /\ Delivered(p) /\ cache[p][k] \in Versions /\ ~raced[p][k]
        /\ \A w \in Writes : wkey[w] = k => wst[w] # "written"
        => cache[p][k] = file[k]

\* A thread that waits for the fetch of another is woken when that fetch has
\* ended, well or not, also if the entry was flushed or made anew meanwhile:
\* it does not stay until its deadline.
GetReturns == []<>(\A t \in Threads : pc[t] # "wait")
=============================================================================
