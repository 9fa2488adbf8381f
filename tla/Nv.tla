--------------------------------- MODULE Nv ---------------------------------
(***************************************************************************)
(* Network variables, dcicommon/nv.c: the arrays of a server, the threads  *)
(* that change them, the messages its broadcaster sends and the replicas   *)
(* of the clients.                                                         *)
(*                                                                         *)
(* The broadcaster is the log of BroadcastLog, which Broadcast implements; *)
(* of its thread only what nv meets is kept: it calls ClientInitMsg with   *)
(* bPtr->lock held, and broadcast.stats waits for bPtr->lock with the      *)
(* mutex of Dci_Broadcast held.  A variable is a key's value or Unset.     *)
(* nv.append and nv.lappend are nv.set with a longer value.  Sizes and     *)
(* statistics are left out.  The persist files are in NvFlush.             *)
(***************************************************************************)
EXTENDS BroadcastLog, SequencesExt

CONSTANTS
    Threads,      \* threads that run nv commands
    Arrays,       \* servPtr->arrays, in this order
    Keys,
    Stored,       \* what the persist files hold at the start
    Linked,       \* of a client: the arrays it has configured
    MaxValue,     \* values are 0..MaxValue
    Unset,
    MaxFaults,    \* bound on lost connections and restarts of clients
    MaxStats,     \* bound on the calls of broadcast.stats
    Overlap,      \* a client may read an old connection after the next one
    Nobody, Bcast \* who holds a lock: nobody, the broadcaster

Values == 0..MaxValue
Names  == ToSet(Arrays)
Empty  == [k \in Keys |-> Unset]

ASSUME NvAssumption ==
    /\ Clients # {} /\ IsFiniteSet(Keys) /\ Arrays \in Seq(Names)
    /\ MaxValue \in Nat /\ Unset \notin Values
    /\ MaxFaults \in Nat /\ MaxStats \in Nat
    /\ Nobody \notin Threads /\ Bcast \notin Threads \cup {Nobody}
    /\ Stored \in [Names -> [Keys -> Values \cup {Unset}]]
    /\ Linked \in [Clients -> SUBSET Names] /\ Overlap \in BOOLEAN
    /\ Starts = {InitMsg}     \* ClientInitMsg always returns a message

VARIABLES
    \* The Array structs of the server.
    vars, log,
    dirty,        \* NV_INIT is set
    owner,        \* of the array's lock
    pc,           \* of a thread: "idle" or "update", in BroadcastUpdates
    init,         \* servPtr->init; <<>> for NULL
    \* The broadcaster and broadcast.stats.
    blk,          \* bPtr->lock: "free", or "init", held in ClientInitMsg
    nlocked,      \* arrays ClientInitMsg has locked
    who,          \* the client it is called for
    stats,        \* "idle", or "wait" with the broadcaster mutex held
    nstats,
    \* The messages, and the clients.
    body,         \* of the messages broadcast, in order
    first,        \* the initial message sent over a connection
    hist,         \* the server's arrays as of each message; hist[1]: before
    conn,         \* the number of a client's last connection
    lost,         \* it has ended
    dead,         \* connections up to this one are not read any more
    replica,      \* the arrays of the client
    nfault

masterVars == <<vars, log, dirty, owner, pc, init>>
bcastVars  == <<blk, nlocked, who, stats, nstats>>
clientVars == <<conn, lost, dead, replica, nfault>>
msgVars    == <<body, first, hist>>
nvVars == <<masterVars, bcastVars, clientVars, msgVars, logVars>>

\* The commands of a message: array, flush, set, unset.
Array(a)  == [op |-> "A", name |-> a]
Flush     == [op |-> "F"]
Set(k, v) == [op |-> "S", key |-> k, value |-> v]
Uns(k)    == [op |-> "U", key |-> k]

NvType ==
    /\ vars \in [Names -> [Keys -> Values \cup {Unset}]]
    /\ dirty \in [Names -> BOOLEAN]
    /\ owner \in [Names -> Threads \cup {Nobody, Bcast}]
    /\ pc \in [Threads -> {"idle", "update"}]
    /\ \A t \in Threads : pc[t] = "update" <=> \E a \in Names : owner[a] = t
    /\ blk \in {"free", "init"} /\ nlocked \in 0..Len(Arrays)
    /\ who \in Clients /\ stats \in {"idle", "wait"} /\ nstats \in 0..MaxStats
    /\ Len(body) = length /\ Len(hist) = length + 1
    /\ conn \in [Clients -> 0..MaxConns] /\ dead \in [Clients -> 0..MaxConns]
    /\ lost \in [Clients -> BOOLEAN]
    /\ replica \in [Clients -> [Names -> [Keys -> Values \cup {Unset}]]]
    /\ nfault \in 0..MaxFaults

\* DciNvModInit: CreateArray has loaded what the persist file holds, and sets
\* NV_INIT.
Init ==
    /\ LogInit
    /\ vars = Stored
    /\ log = [a \in Names |-> <<>>] /\ dirty = [a \in Names |-> TRUE]
    /\ owner = [a \in Names |-> Nobody] /\ pc = [t \in Threads |-> "idle"]
    /\ init = <<>>
    /\ blk = "free" /\ nlocked = 0 /\ who = CHOOSE c \in Clients : TRUE
    /\ stats = "idle" /\ nstats = 0
    /\ body = <<>> /\ first = [k \in Conns |-> <<>>] /\ hist = <<vars>>
    /\ conn = [c \in Clients |-> 0] /\ lost = [c \in Clients |-> TRUE]
    /\ dead = [c \in Clients |-> 0] /\ nfault = 0
    /\ replica = [c \in Clients |-> [a \in Names |-> Empty]]

-----------------------------------------------------------------------------
(* The commands.  Each changes one array under its lock and, with the lock *)
(* still held, broadcasts the log of the changes.                          *)

\* What a command does to the variables of an array.
Apply(v, x) == CASE x.op = "F" -> Empty
                 [] x.op = "S" -> [v EXCEPT ![x.key] = x.value]
                 [] x.op = "U" -> [v EXCEPT ![x.key] = Unset]

ApplyAll(v, xs) ==
    LET f[n \in 0..Len(xs)] == IF n = 0 THEN v ELSE Apply(f[n-1], xs[n])
    IN  f[Len(xs)]

\* Mutant: a lock is not waited for.
LockableAlways(a) == TRUE

\* Ns_MutexLock(&arrayPtr->lock) returns.
Lockable(a) == owner[a] = Nobody

\* Mutant: an unset does not ask for a new initial message.
DirtyOnSet(a, xs) == dirty[a] \/ \E j \in 1..Len(xs) : xs[j].op # "U"

\* SetVar, UnsetVar and FlushArray set NV_DIRTY.
Dirty(a, xs) == dirty[a] \/ xs # <<>>

Change(t, a, xs) ==
    /\ pc[t] = "idle" /\ Lockable(a)
    /\ length + Cardinality({u \in Threads : pc[u] = "update"}) < MaxMsgs
    /\ vars' = [vars EXCEPT ![a] = ApplyAll(@, xs)]
    /\ log' = [log EXCEPT ![a] = @ \o xs]
    /\ dirty' = [dirty EXCEPT ![a] = Dirty(a, xs)]
    /\ owner' = [owner EXCEPT ![a] = t]
    /\ pc' = [pc EXCEPT ![t] = "update"]
    /\ UNCHANGED <<init, bcastVars, clientVars, msgVars, logVars>>

\* nv.set, nv.append, nv.lappend.
NvSetCmd(t, a) ==
    \E k \in Keys, v \in Values : Change(t, a, <<Set(k, v)>>)

\* nv.cset of a key that is there changes nothing.
NvCSetCmd(t, a) ==
    \E k \in Keys, v \in Values :
        vars[a][k] = Unset /\ Change(t, a, <<Set(k, v)>>)

NvIncrCmd(t, a) ==
    \E k \in Keys : /\ vars[a][k] \in 0..MaxValue-1
                    /\ Change(t, a, <<Set(k, vars[a][k] + 1)>>)

\* nv.unset of a key that is not there changes nothing.
NvUnsetCmd(t, a) ==
    \E k \in Keys : vars[a][k] # Unset /\ Change(t, a, <<Uns(k)>>)

\* nv.flush, of all or of the keys that match a pattern; it always
\* broadcasts.
NvFlushCmd(t, a) ==
    \/ Change(t, a, <<Flush>>)
    \/ \E K \in SUBSET {k \in Keys : vars[a][k] # Unset} :
          Change(t, a, [j \in 1..Cardinality(K) |-> Uns(SetToSeq(K)[j])])

\* nv.load of a list, with or without -noflush.
NvLoadCmd(t, a) ==
    \E pre \in {<<>>, <<Flush>>}, K \in SUBSET Keys, v \in Values :
        Change(t, a, pre \o [j \in 1..Cardinality(K) |-> Set(SetToSeq(K)[j], v)])

\* BroadcastUpdates, and Dci_Broadcast, which needs the broadcaster mutex.
BroadcastUpdates(t, a) ==
    /\ pc[t] = "update" /\ owner[a] = t /\ stats = "idle"
    /\ Publish
    /\ body' = Append(body, <<Array(a)>> \o log[a])
    /\ hist' = Append(hist, [hist[Len(hist)] EXCEPT ![a] = vars[a]])
    /\ log' = [log EXCEPT ![a] = <<>>]
    /\ owner' = [owner EXCEPT ![a] = Nobody]
    /\ pc' = [pc EXCEPT ![t] = "idle"]
    /\ UNCHANGED <<vars, dirty, init, bcastVars, clientVars, first>>

-----------------------------------------------------------------------------
(* The broadcaster thread: it holds bPtr->lock while it calls              *)
(* ClientInitMsg.                                                          *)

\* A client has been connected again and the login is sent: ClientInitMsg.
Connect(c) ==
    /\ blk = "free" /\ lost[c] /\ conn[c] < MaxConns
    /\ conn' = [conn EXCEPT ![c] = @ + 1]
    /\ lost' = [lost EXCEPT ![c] = FALSE]
    /\ blk' = "init" /\ who' = c
    /\ UNCHANGED <<masterVars, nlocked, stats, nstats, dead, replica, nfault,
                   msgVars, logVars>>

\* ClientInitMsg locks the arrays one after the other.
InitLock ==
    /\ blk = "init" /\ nlocked < Len(Arrays)
    /\ Lockable(Arrays[nlocked + 1])
    /\ owner' = [owner EXCEPT ![Arrays[nlocked + 1]] = Bcast]
    /\ nlocked' = nlocked + 1
    /\ UNCHANGED <<vars, log, dirty, pc, init, blk, who, stats, nstats,
                   clientVars, msgVars, logVars>>

\* Mutant: the reload does not flush the array first.
ReloadOnly(a) ==
    LET ks == SetToSeq({k \in Keys : vars[a][k] # Unset})
    IN  <<Array(a)>> \o [j \in 1..Len(ks) |-> Set(ks[j], vars[a][ks[j]])]

\* AppendReload.
Reload(a) ==
    LET ks == SetToSeq({k \in Keys : vars[a][k] # Unset})
    IN  <<Array(a), Flush>> \o [j \in 1..Len(ks) |-> Set(ks[j], vars[a][ks[j]])]

\* The message that brings a client up to date.
Current ==
    LET f[n \in 0..Len(Arrays)] == IF n = 0 THEN <<>> ELSE f[n-1] \o Reload(Arrays[n])
    IN  f[Len(Arrays)]

\* With every array locked: build the message if one of them has changed
\* since the last one, else send the last one again.
InitBuild ==
    /\ blk = "init" /\ nlocked = Len(Arrays)
    /\ init' = IF \E a \in Names : dirty[a] THEN Current ELSE init
    /\ dirty' = [a \in Names |-> FALSE]
    /\ owner' = [a \in Names |-> Nobody]
    /\ nlocked' = 0 /\ blk' = "free"
    /\ first' = [first EXCEPT ![<<who, conn[who]>>] = init']
    /\ Snapshot(<<who, conn[who]>>)
    /\ UNCHANGED <<vars, log, pc, who, stats, nstats, clientVars, body, hist>>

\* broadcast.stats: under the mutex, wait for bPtr->lock.
StatsLock ==
    /\ stats = "idle" /\ nstats < MaxStats
    /\ stats' = "wait" /\ nstats' = nstats + 1
    /\ UNCHANGED <<masterVars, blk, nlocked, who, clientVars, msgVars, logVars>>

StatsRead ==
    /\ stats = "wait" /\ blk = "free"
    /\ stats' = "idle"
    /\ UNCHANGED <<masterVars, blk, nlocked, who, nstats, clientVars, msgVars,
                   logVars>>

-----------------------------------------------------------------------------
(* The clients.                                                            *)

\* RecvUpdate applies one command; arr is arrayPtr.  A netname that is not
\* linked leaves arrayPtr as it was, and ends the message if it is NULL.
RecvCmd(c, s, x) ==
    IF x.op = "A" THEN
       IF x.name \in Linked[c] THEN [s EXCEPT !.arr = x.name]
       ELSE IF s.arr = Nobody THEN [s EXCEPT !.ok = FALSE] ELSE s
    ELSE IF s.ok THEN [s EXCEPT !.rep[s.arr] = Apply(@, x)] ELSE s

RecvAll(c, s, xs) ==
    LET f[n \in 0..Len(xs)] == IF n = 0 THEN s ELSE RecvCmd(c, f[n-1], xs[n])
    IN  f[Len(xs)]

\* The connections of a client that are read: not one of an earlier life, and
\* without Overlap none after its successor.
Readable(k) ==
    /\ k[2] \in dead[k[1]]+1..conn[k[1]]
    /\ Overlap \/ \A j \in k[2]+1..MaxConns : given[<<k[1], j>>] = <<>>

\* RecvUpdate.  A message that fails ends the connection.
RecvUpdate(k, m) ==
    LET s == [arr |-> Nobody, ok |-> TRUE, rep |-> replica[k[1]]]
        r == RecvAll(k[1], s, IF m = InitMsg THEN first[k] ELSE body[m]) IN
    /\ Readable(k)
    /\ Deliver(k, m)
    /\ replica' = [replica EXCEPT ![k[1]] = r.rep]
    /\ dead' = IF r.ok THEN dead ELSE [dead EXCEPT ![k[1]] = k[2]]
    /\ lost' = IF r.ok \/ k[2] # conn[k[1]] THEN lost
               ELSE [lost EXCEPT ![k[1]] = TRUE]
    /\ UNCHANGED <<masterVars, bcastVars, msgVars, conn, nfault>>

\* The broadcaster loses the connection; what was sent can still be read.
Lose(c) ==
    /\ ~lost[c] /\ nfault < MaxFaults
    /\ lost' = [lost EXCEPT ![c] = TRUE] /\ nfault' = nfault + 1
    /\ UNCHANGED <<masterVars, bcastVars, conn, dead, replica, msgVars, logVars>>

\* The client's process ends and starts again.
Restart(c) ==
    /\ nfault < MaxFaults /\ nfault' = nfault + 1
    /\ dead' = [dead EXCEPT ![c] = conn[c]]
    /\ lost' = [lost EXCEPT ![c] = TRUE]
    /\ replica' = [replica EXCEPT ![c] = [a \in Names |-> Empty]]
    /\ UNCHANGED <<masterVars, bcastVars, conn, msgVars, logVars>>

-----------------------------------------------------------------------------
Command(t, a) ==
    \/ NvSetCmd(t, a) \/ NvCSetCmd(t, a) \/ NvIncrCmd(t, a) \/ NvUnsetCmd(t, a)
    \/ NvFlushCmd(t, a) \/ NvLoadCmd(t, a)

Receive(k) == \E m \in Msgs \cup {InitMsg} : RecvUpdate(k, m)

Next ==
    \/ \E t \in Threads, a \in Names : Command(t, a) \/ BroadcastUpdates(t, a)
    \/ InitLock \/ InitBuild
    \/ StatsLock \/ StatsRead
    \/ \E c \in Clients : Connect(c) \/ Lose(c) \/ Restart(c)
    \/ \E k \in Conns : Receive(k)

Spec == Init /\ [][Next]_nvVars

\* The threads run, a lock that is free is granted, lost clients are
\* connected again, and what is broadcast to a connection that is not lost is
\* read (Dispatched in Broadcast).  None of these steps can be repeated without
\* a new command or failure, so that fairness for all of them together is
\* enough.
Progress ==
    \/ \E t \in Threads, a \in Names : BroadcastUpdates(t, a)
    \/ InitLock \/ InitBuild \/ StatsRead
    \/ \E c \in Clients : Connect(c) \/ (~lost[c] /\ Receive(<<c, conn[c]>>))

FairSpec == Spec /\ WF_nvVars(Progress)

-----------------------------------------------------------------------------
(* Properties.                                                             *)

SameArrays(c, v) == \A a \in Linked[c] : replica[c][a] = v[a]

\* A replica is the server's arrays as of the last message it has got, from
\* the message on that its initial message already holds: the initial message
\* is current although it is made only when an array has changed, it is cut
\* between two updates of every array, and updates it holds may come again.
\* (While they come again the replica may be in a state the server never was
\* in.)
Synced ==
    \A c \in Clients : \A j \in dead[c]+1..MaxConns :
        LET k == <<c, j>>
            n == IF Last(given[k]) = InitMsg THEN snap[k] ELSE Last(given[k])
        IN  /\ given[k] # <<>>
            /\ \A i \in j+1..MaxConns : given[<<c, i>>] = <<>>
            /\ n >= snap[k]
            => SameArrays(c, hist[n + 1])

\* broadcast.stats waits for bPtr->lock with the broadcaster mutex held, the
\* broadcaster for an array with bPtr->lock held, and the thread that has the
\* array for the broadcaster mutex.
Blocked ==
    /\ stats = "wait" /\ blk = "init" /\ nlocked < Len(Arrays)
    /\ owner[Arrays[nlocked + 1]] \in Threads

\* When the updates and the failures have stopped, every replica is the same
\* as the server's arrays, or the three threads above have blocked each
\* other: nothing else keeps an update from a client.
Converges == <>[](Blocked \/ \A c \in Clients : SameArrays(c, vars))

\* "Update will appear in clients." (nv.c, BroadcastUpdates) and "Message
\* will be sent soon." (broadcast.c, Dci_Broadcast).
UpdateAppears == <>[](\A c \in Clients : SameArrays(c, vars))
=============================================================================
