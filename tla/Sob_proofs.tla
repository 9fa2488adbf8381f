----------------------------- MODULE Sob_proofs -----------------------------
(***************************************************************************)
(* Proofs about Sob: its types, that a cached value is no older than the   *)
(* last flush, and that only a fetch that a flush overtakes leaves an old  *)
(* one, for every number of processes, threads, keys, writes and           *)
(* connections.                                                            *)
(***************************************************************************)
EXTENDS Sob, FiniteSetTheorems, SequenceTheorems,
        WellFoundedInduction, TLAPS

\* The types of all variables.
Flushed == [key : Keys, ver : Versions]

ServerType ==
    /\ file \in [Keys -> Versions] /\ nver \in Versions
    /\ fcache \in [Keys -> Versions \cup {None}]
    /\ wst \in [Writes -> {"new", "sent", "written", "done", "failed"}]
    /\ wkey \in [Writes -> Keys] /\ wver \in [Writes -> Versions]
    /\ body \in Seq(Flushed) /\ Len(body) = length

ThreadType ==
    /\ pc \in [Threads -> {"idle", "fetch", "wait", "write"}]
    /\ key \in [Threads -> Keys] /\ val \in [Threads -> Versions \cup {None}]
    /\ job \in [Threads -> 0..MaxWrites] /\ woken \in [Threads -> BOOLEAN]
    /\ floor \in [Threads -> Versions]

CacheType ==
    /\ cache \in [Clients -> [Keys -> Versions \cup {None, Pending}]]
    /\ flushed \in [Clients -> [Keys -> Versions]]
    /\ base \in [Clients -> [Keys -> Versions]]
    /\ raced \in [Clients -> [Keys -> BOOLEAN]]

ConnType ==
    /\ conn \in [Clients -> 0..MaxConns] /\ lost \in [Clients -> BOOLEAN]
    /\ length \in 0..MaxMsgs
    /\ given \in [Conns -> Seq(Msgs \cup {InitMsg})]
    /\ snap \in [Conns -> 0..NoSnap]

SobType == ServerType /\ ThreadType /\ CacheType /\ ConnType

\* The requests are numbered, and each makes at most one version.
Made == {w \in Writes : wst[w] \in {"written", "done"}}
WriteInv ==
    /\ \A w \in Writes : wst[w] # "new" <=> w < NextWrite
    /\ nver = Cardinality(Made)

\* The file has the last version made of it, and what the server has cached
\* is no older than a flush that was sent.
ServerInv ==
    /\ \A k \in Keys : /\ file[k] <= nver
                       /\ fcache[k] # None => fcache[k] <= file[k]
                       /\ file[k] = 0 \/ \E w \in Made : wkey[w] = k /\ wver[w] = file[k]
    /\ \A w \in Made : wver[w] <= file[wkey[w]]
    /\ \A w \in Writes : wst[w] = "done" =>
          /\ fcache[wkey[w]] # None => wver[w] <= fcache[wkey[w]]
          /\ \E m \in 1..length : body[m].key = wkey[w] /\ body[m].ver = wver[w]
    /\ \A m \in 1..length :
          /\ body[m].ver <= file[body[m].key]
          /\ fcache[body[m].key] # None => body[m].ver <= fcache[body[m].key]

\* What a process has flushed its cache for is no newer than what it would
\* read, and no older than the messages it has got.
LastGiven(c) == given[c][Len(given[c])]
Got(c, m)    == m <= snap[c] \/ (LastGiven(c) \in Msgs /\ m <= LastGiven(c))
FlushInv ==
    /\ \A p \in Clients, k \in Keys :
          /\ flushed[p][k] <= file[k]
          /\ fcache[k] # None => flushed[p][k] <= fcache[k]
    /\ \A p \in Clients : conn[p] >= 1 =>
          LET c == <<p, conn[p]>> IN
          given[c] # <<>> =>
              \A m \in 1..length :
                  Got(c, m) => body[m].ver <= flushed[p][body[m].key]

\* The messages of a connection are of the log, and so is the snapshot.
GivenInv ==
    /\ \A c \in Conns :
          /\ (given[c] = <<>> /\ snap[c] = NoSnap) \/ snap[c] <= length
          /\ given[c] # <<>> /\ LastGiven(c) \in Msgs => LastGiven(c) <= length
    /\ \A p \in Clients : ~lost[p] => conn[p] >= 1

\* A fetch has read no version older than its floor, which is the last flush
\* unless the flush overtook it.
FetchInv(t) ==
    IF pc[t] = "fetch"
    THEN /\ floor[t] <= flushed[Home[t]][key[t]]
         /\ ~raced[Home[t]][key[t]] => floor[t] = flushed[Home[t]][key[t]]
         /\ val[t] # None => floor[t] <= val[t] /\ val[t] <= file[key[t]]
    ELSE val[t] = None
WriterInv(t) ==
    pc[t] = "write" =>
        job[t] \in Writes /\ wst[job[t]] # "new" /\ wkey[job[t]] = key[t]
ThreadInv == \A t \in Threads : FetchInv(t) /\ WriterInv(t)

\* An entry without a value has a thread that fetches it, and a value is one
\* of the file.
CacheInv ==
    /\ NotOlder
    /\ \A p \in Clients, k \in Keys :
          /\ cache[p][k] = Pending => Fetching(p, k)
          /\ cache[p][k] \in Versions => cache[p][k] <= file[k]

SobInv == WriteInv /\ ServerInv /\ FlushInv /\ GivenInv /\ ThreadInv /\ CacheInv

-----------------------------------------------------------------------------
(* Numbers.                                                                *)

\* A set of natural numbers with a bound has a greatest member.
LEMMA Greatest ==
    ASSUME NEW N \in Nat, NEW S \in SUBSET (0..N), S # {}
    PROVE  \E v \in S : \A u \in S : u <= v
<1> DEFINE T == {n \in Nat : \E v \in S : n = N - v}
<1>1. T \subseteq Nat /\ T # {}
  <2>1. PICK v \in S : TRUE
    OBVIOUS
  <2>2. N - v \in T
    BY <2>1
  <2> QED BY <2>2
<1> HIDE DEF T
<1>2. PICK n \in T : \A m \in T : ~(<<m, n>> \in OpToRel(<, Nat))
    BY <1>1, NatLessThanWellFounded, WFMin
<1>3. n \in Nat /\ \A m \in T : n <= m
  <2>1. \A m \in T : m \in Nat /\ n \in Nat /\ (m < n => <<m, n>> \in OpToRel(<, Nat))
    BY <1>1 DEF OpToRel
  <2>2. \A m \in T : ~(m < n)
    BY <1>2, <2>1, Zenon
  <2>3. n \in Nat /\ \A m \in T : m \in Nat
    BY <1>1
  <2> QED BY <2>2, <2>3
<1>4. PICK v \in S : n = N - v
    BY <1>2 DEF T
<1>5. \A u \in S : N - u \in T
    BY DEF T
<1> QED BY <1>3, <1>4, <1>5

LEMMA Numbers ==
    /\ MaxWrites \in Nat /\ MaxMsgs \in Nat /\ MaxConns \in Nat
    /\ 0 \in Versions /\ Versions \subseteq Nat /\ Writes \subseteq Nat
    /\ \A v \in Versions : v # None /\ v # Pending
    /\ None # Pending /\ AnyKey \in Keys /\ InitMsg \notin Msgs
    /\ Starts = {InitMsg} /\ Msgs \subseteq Nat
<1>1. AnyKey \in Keys
    BY SobAssumption DEF AnyKey
<1> QED BY <1>1, SobAssumption, LogAssumption DEF Versions, Writes, Msgs

-----------------------------------------------------------------------------
(* Types.                                                                  *)

LEMMA InitType == Init => SobType
<1> SUFFICES ASSUME Init PROVE SobType
    OBVIOUS
<1>1. ServerType
  <2>1. body \in Seq(Flushed) /\ Len(body) = length
    BY DEF Init, LogInit
  <2> QED BY <2>1, Numbers DEF Init, ServerType
<1>2. ThreadType
    BY Numbers DEF Init, ThreadType
<1>3. CacheType
    BY Numbers DEF Init, CacheType
<1>4. ConnType
    BY Numbers DEF Init, LogInit, ConnType, NoSnap
<1> QED BY <1>1, <1>2, <1>3, <1>4 DEF SobType

\* What Note does to each key.
LEMMA NoteFacts ==
    ASSUME CacheType, NEW p \in Clients, NEW K \in SUBSET Keys,
           NEW v \in [Keys -> Versions], Note(p, K, v)
    PROVE  /\ flushed' \in [Clients -> [Keys -> Versions]]
           /\ base' \in [Clients -> [Keys -> Versions]]
           /\ raced' \in [Clients -> [Keys -> BOOLEAN]]
           /\ \A q \in Clients : q # p =>
                 /\ flushed'[q] = flushed[q] /\ base'[q] = base[q]
                 /\ raced'[q] = raced[q]
           /\ \A k \in Keys : flushed'[p][k] =
                 IF k \in K /\ v[k] > flushed[p][k] THEN v[k] ELSE flushed[p][k]
           /\ \A k \in Keys : k \in K => raced'[p][k] = Fetching(p, k)
           /\ \A k \in Keys : k \notin K => /\ raced'[p][k] = raced[p][k]
                                           /\ base'[p][k] = base[p][k]
<1>1. /\ flushed' = [flushed EXCEPT ![p] = [k \in Keys |->
                        IF k \in K /\ v[k] > flushed[p][k] THEN v[k] ELSE flushed[p][k]]]
      /\ raced' = [raced EXCEPT ![p] = [k \in Keys |->
                        IF k \in K THEN Fetching(p, k) ELSE raced[p][k]]]
      /\ base' = [base EXCEPT ![p] = [k \in Keys |-> IF k \in K THEN 0 ELSE base[p][k]]]
    BY DEF Note, CacheType
<1>2. \A k \in Keys : Fetching(p, k) \in BOOLEAN
    BY DEF Fetching
<1>3. raced' \in [Clients -> [Keys -> BOOLEAN]]
  <2>1. [k \in Keys |-> IF k \in K THEN Fetching(p, k) ELSE raced[p][k]]
           \in [Keys -> BOOLEAN]
    <3>1. \A k \in Keys : raced[p][k] \in BOOLEAN
      BY Zenon DEF CacheType
    <3>2. \A k \in Keys : (IF k \in K THEN Fetching(p, k) ELSE raced[p][k]) \in BOOLEAN
      BY <1>2, <3>1, Zenon
    <3> QED BY <3>2, Zenon
  <2> QED BY <1>1, <2>1, Zenon DEF CacheType
<1>4. /\ \A q \in Clients : q # p => raced'[q] = raced[q]
      /\ raced'[p] = [k \in Keys |-> IF k \in K THEN Fetching(p, k) ELSE raced[p][k]]
    BY <1>1, Zenon DEF CacheType
<1>5. /\ \A k \in Keys : k \in K => raced'[p][k] = Fetching(p, k)
      /\ \A k \in Keys : k \notin K => raced'[p][k] = raced[p][k]
    BY <1>4, Zenon
<1>6. /\ flushed' \in [Clients -> [Keys -> Versions]]
      /\ \A q \in Clients : q # p => flushed'[q] = flushed[q]
      /\ \A k \in Keys : flushed'[p][k] =
            IF k \in K /\ v[k] > flushed[p][k] THEN v[k] ELSE flushed[p][k]
    BY <1>1 DEF CacheType
<1>7. /\ base' \in [Clients -> [Keys -> Versions]]
      /\ \A q \in Clients : q # p => base'[q] = base[q]
      /\ \A k \in Keys : k \notin K => base'[p][k] = base[p][k]
    BY <1>1, Numbers DEF CacheType
<1> QED BY <1>3, <1>4, <1>5, <1>6, <1>7

\* One entry of a cache is set.
SetsEntry(p, k, e) ==
    \/ cache' = [cache EXCEPT ![p][k] = e]
    \/ cache' = [cache EXCEPT ![p] = [@ EXCEPT ![k] = e]]

LEMMA SetEntry ==
    ASSUME CacheType, NEW p \in Clients, NEW k \in Keys,
           NEW e \in Versions \cup {None, Pending}, SetsEntry(p, k, e)
    PROVE  /\ cache' \in [Clients -> [Keys -> Versions \cup {None, Pending}]]
           /\ cache'[p][k] = e
           /\ \A q \in Clients, j \in Keys :
                 q # p \/ j # k => cache'[q][j] = cache[q][j]
<1>1. /\ cache \in [Clients -> [Keys -> Versions \cup {None, Pending}]]
      /\ cache[p] \in [Keys -> Versions \cup {None, Pending}]
    BY DEF CacheType
<1>2. PICK f : f = [cache[p] EXCEPT ![k] = e]
    OBVIOUS
<1>3. cache' = [cache EXCEPT ![p] = f]
    BY <1>1, <1>2 DEF SetsEntry
<1>4. /\ f \in [Keys -> Versions \cup {None, Pending}]
      /\ f[k] = e /\ \A j \in Keys : j # k => f[j] = cache[p][j]
    BY <1>1, <1>2
<1> QED BY <1>1, <1>3, <1>4

\* The call returns.
LEMMA ReturnType ==
    ASSUME ThreadType, NEW t \in Threads, Return(t)
    PROVE  /\ pc' \in [Threads -> {"idle", "fetch", "wait", "write"}]
           /\ key' \in [Threads -> Keys] /\ val' \in [Threads -> Versions \cup {None}]
           /\ job' \in [Threads -> 0..MaxWrites] /\ floor' \in [Threads -> Versions]
           /\ pc'[t] = "idle"
           /\ \A u \in Threads : u # t =>
                 /\ pc'[u] = pc[u] /\ key'[u] = key[u] /\ val'[u] = val[u]
                 /\ job'[u] = job[u] /\ floor'[u] = floor[u]
BY Numbers DEF ThreadType, Return

LEMMA BroadcastType ==
    ASSUME ThreadType, NEW p, Broadcast(p)
    PROVE  woken' \in [Threads -> BOOLEAN]
BY Zenon DEF ThreadType, Broadcast

\* SobGetFile and what its fetch and its wait come to.
LEMMA GetType ==
    ASSUME SobType, NEW t \in Threads, NEW k \in Keys,
           SobGetFile(t, k) \/ FetchOk(t) \/ FetchFail(t) \/ WaitAgain(t)
              \/ WaitTimeout(t)
    PROVE  SobType'
<1>0. /\ ServerType /\ ThreadType /\ CacheType /\ ConnType /\ Home[t] \in Clients
      /\ key[t] \in Keys
    BY SobAssumption DEF SobType, ThreadType
<1>1. UNCHANGED <<serverVars, connVars, logVars, flushed, raced>>
    BY DEF SobGetFile, FetchOk, FetchFail, WaitAgain, WaitTimeout, cacheVars
<1>2. ServerType' /\ ConnType'
    BY <1>0, <1>1 DEF serverVars, connVars, logVars, ServerType, ConnType
<1>3. base' \in [Clients -> [Keys -> Versions]]
  <2>1. CASE FetchOk(t)
    BY <1>0, <2>1 DEF FetchOk, CacheType, ThreadType
  <2>2. CASE ~FetchOk(t)
    BY <1>0, <2>2 DEF SobGetFile, FetchFail, WaitAgain, WaitTimeout, cacheVars, CacheType
  <2> QED BY <2>1, <2>2
<1>4. cache' \in [Clients -> [Keys -> Versions \cup {None, Pending}]]
  <2>1. CASE SobGetFile(t, k)
    <3>1. cache' = cache \/ SetsEntry(Home[t], k, Pending)
      BY <2>1 DEF SobGetFile, SetsEntry
    <3>2. Pending \in Versions \cup {None, Pending}
      OBVIOUS
    <3>3. SetsEntry(Home[t], k, Pending) =>
             cache' \in [Clients -> [Keys -> Versions \cup {None, Pending}]]
      BY <1>0, <3>2, SetEntry, Zenon
    <3> QED BY <1>0, <3>1, <3>3 DEF CacheType
  <2>2. CASE FetchOk(t)
    <3>1. val[t] \in Versions \cup {None, Pending}
      BY <1>0 DEF ThreadType
    <3>2. SetsEntry(Home[t], key[t], val[t])
      BY <2>2 DEF FetchOk, SetsEntry
    <3> QED BY <1>0, <3>1, <3>2, SetEntry, Zenon
  <2>3. CASE FetchFail(t)
    <3>1. SetsEntry(Home[t], key[t], None)
      BY <2>3 DEF FetchFail, AfterFail, SetsEntry
    <3>2. None \in Versions \cup {None, Pending}
      OBVIOUS
    <3> QED BY <1>0, <3>1, <3>2, SetEntry, Zenon
  <2>4. CASE WaitAgain(t) \/ WaitTimeout(t)
    BY <1>0, <2>4 DEF WaitAgain, WaitTimeout, cacheVars, CacheType
  <2> QED BY <2>1, <2>2, <2>3, <2>4
<1>5. ThreadType'
  <2>1. CASE SobGetFile(t, k)
    <3>1. /\ pc' \in [Threads -> {"idle", "fetch", "wait", "write"}]
          /\ key' \in [Threads -> Keys] /\ UNCHANGED <<val, job>>
          /\ floor' \in [Threads -> Versions]
      <4>1. /\ \/ UNCHANGED <<pc, key, floor>>
               \/ /\ pc' = [pc EXCEPT ![t] = "fetch"] /\ key' = [key EXCEPT ![t] = k]
                  /\ floor' = [floor EXCEPT ![t] = flushed[Home[t]][k]]
               \/ /\ pc' = [pc EXCEPT ![t] = "wait"] /\ key' = [key EXCEPT ![t] = k]
                  /\ UNCHANGED floor
            /\ UNCHANGED <<val, job>>
        BY <2>1 DEF SobGetFile
      <4>2. flushed[Home[t]][k] \in Versions
        BY <1>0 DEF CacheType
      <4> QED BY <1>0, <4>1, <4>2 DEF ThreadType
    <3>2. woken' \in [Threads -> BOOLEAN]
      <4>1. woken' = woken \/ woken' = [woken EXCEPT ![t] = FALSE]
        BY <2>1 DEF SobGetFile
      <4> QED BY <1>0, <4>1, Zenon DEF ThreadType
    <3> QED BY <1>0, <3>1, <3>2 DEF ThreadType
  <2>2. CASE FetchOk(t) \/ FetchFail(t)
    <3>1. Return(t) /\ Broadcast(Home[t])
      BY <2>2 DEF FetchOk, FetchFail, Failed
    <3> QED BY <1>0, <3>1, ReturnType, BroadcastType DEF ThreadType
  <2>3. CASE WaitAgain(t) \/ WaitTimeout(t)
    <3>1. woken' \in [Threads -> BOOLEAN]
      <4>1. woken' = woken \/ woken' = [woken EXCEPT ![t] = FALSE]
        BY <2>3 DEF WaitAgain, WaitTimeout
      <4> QED BY <1>0, <4>1, Zenon DEF ThreadType
    <3>2. Return(t) \/ UNCHANGED <<pc, key, val, job, floor>>
      BY <2>3 DEF WaitAgain, WaitTimeout
    <3> QED BY <1>0, <3>1, <3>2, ReturnType DEF ThreadType
  <2> QED BY <2>1, <2>2, <2>3
<1> QED BY <1>0, <1>1, <1>2, <1>3, <1>4, <1>5 DEF SobType, CacheType

\* The numbers of the requests and of the versions stay within their bounds.
LEMMA NextWriteType == ASSUME SobType PROVE NextWrite \in Nat
<1>1. IsFiniteSet(Writes)
    BY Numbers, FS_Interval DEF Writes
<1>2. {w \in Writes : wst[w] # "new"} \in SUBSET Writes
    OBVIOUS
<1>3. Cardinality({w \in Writes : wst[w] # "new"}) \in Nat
    BY <1>1, <1>2, FS_Subset, FS_CardinalityType
<1> QED BY <1>3 DEF NextWrite

LEMMA RoomForVersion ==
    ASSUME SobType, WriteInv, NEW w \in Writes, wst[w] = "sent"
    PROVE  nver + 1 \in Versions
<1>1. IsFiniteSet(Writes) /\ Cardinality(Writes) = MaxWrites
    BY Numbers, FS_Interval, SMTT(30) DEF Writes
<1>2. IsFiniteSet(Writes \ {w}) /\ Cardinality(Writes \ {w}) = MaxWrites - 1
    BY <1>1, FS_RemoveElement
<1>3. Made \in SUBSET (Writes \ {w})
    BY DEF Made
<1>4. IsFiniteSet(Made) /\ Cardinality(Made) <= MaxWrites - 1
    BY <1>2, <1>3, FS_Subset
<1>5. nver \in Nat /\ nver <= MaxWrites - 1
    BY <1>4, Numbers DEF WriteInv, SobType, ServerType
<1> QED BY <1>5, Numbers DEF Versions

\* The requests to write, their execution, and the reads.
LEMMA NewWriteType ==
    ASSUME SobType, NEW k \in Keys, NewWrite(k)
    PROVE  /\ wst' \in [Writes -> {"new", "sent", "written", "done", "failed"}]
           /\ wkey' \in [Writes -> Keys] /\ NextWrite \in Writes
           /\ wst' = [wst EXCEPT ![NextWrite] = "sent"]
           /\ wkey' = [wkey EXCEPT ![NextWrite] = k]
BY DEF SobType, ServerType, NewWrite

LEMMA WriteType ==
    ASSUME SobType, NEW t \in Threads, NEW k \in Keys, Write(t, k)
    PROVE  SobType'
<1>0. ServerType /\ ThreadType /\ CacheType /\ ConnType
    BY DEF SobType
<1>1. /\ NewWrite(k) /\ UNCHANGED <<file, nver, wver, fcache, body>>
      /\ UNCHANGED <<cacheVars, connVars, logVars>>
    BY DEF Write
<1>2. ServerType'
    BY <1>0, <1>1, NewWriteType DEF ServerType, logVars
<1>3. CacheType' /\ ConnType'
    BY <1>0, <1>1 DEF cacheVars, connVars, logVars, CacheType, ConnType
<1>4. ThreadType'
  <2>1. /\ UNCHANGED <<val, woken, floor>>
        /\ pc' = [pc EXCEPT ![t] = "write"] /\ key' = [key EXCEPT ![t] = k]
        /\ job' = [job EXCEPT ![t] = NextWrite]
    BY DEF Write
  <2>2. NextWrite \in 0..MaxWrites
    BY <1>1, NewWriteType, Numbers DEF Writes
  <2> QED BY <1>0, <2>1, <2>2 DEF ThreadType
<1> QED BY <1>2, <1>3, <1>4 DEF SobType

LEMMA OtherWriteType ==
    ASSUME SobType, NEW k \in Keys, OtherWrite(k)
    PROVE  SobType'
<1>0. ServerType /\ ThreadType /\ CacheType /\ ConnType
    BY DEF SobType
<1>1. /\ NewWrite(k) /\ UNCHANGED <<file, nver, wver, fcache, body>>
      /\ UNCHANGED <<threadVars, cacheVars, connVars, logVars>>
    BY DEF OtherWrite
<1>2. ServerType'
    BY <1>0, <1>1, NewWriteType DEF ServerType, logVars
<1>3. ThreadType' /\ CacheType' /\ ConnType'
    BY <1>0, <1>1 DEF threadVars, cacheVars, connVars, logVars, ThreadType, CacheType, ConnType
<1> QED BY <1>2, <1>3 DEF SobType

LEMMA ServerStepType ==
    ASSUME SobType, WriteInv, NEW w \in Writes, WriteFile(w) \/ WriteFails(w) \/ NfsFlush(w)
    PROVE  SobType'
<1>0. ServerType /\ ThreadType /\ CacheType /\ ConnType
    BY DEF SobType
<1>1. UNCHANGED <<threadVars, cacheVars, connVars, wkey>>
    BY DEF WriteFile, WriteFails, NfsFlush
<1>2. ThreadType' /\ CacheType'
    BY <1>0, <1>1 DEF threadVars, cacheVars, ThreadType, CacheType
<1>3. CASE WriteFile(w)
  <2>1. wst[w] = "sent"
    BY <1>3 DEF WriteFile
  <2>2. nver + 1 \in Versions
    BY <2>1, RoomForVersion
  <2>3. ServerType'
    BY <1>0, <1>3, <2>2 DEF WriteFile, ServerType, logVars
  <2>4. ConnType'
    BY <1>0, <1>1, <1>3 DEF WriteFile, ConnType, connVars, logVars
  <2> QED BY <1>2, <2>3, <2>4 DEF SobType
<1>4. CASE WriteFails(w)
  <2>3. ServerType'
    BY <1>0, <1>4 DEF WriteFails, ServerType, logVars
  <2>4. ConnType'
    BY <1>0, <1>1, <1>4 DEF WriteFails, ConnType, connVars, logVars
  <2> QED BY <1>2, <2>3, <2>4 DEF SobType
<1>5. CASE NfsFlush(w)
  <2>1. ConnType'
    BY <1>0, <1>1, <1>5, Numbers DEF NfsFlush, Publish, ConnType, connVars
  <2>2. PICK e : e = [key |-> wkey[w], ver |-> wver[w]]
    OBVIOUS
  <2>3. e \in Flushed
    BY <1>0, <2>2 DEF ServerType, Flushed
  <2>4. body' = Append(body, e) /\ length' = length + 1
    BY <1>5, <2>2 DEF NfsFlush, Publish
  <2>5. body' \in Seq(Flushed) /\ Len(body') = length'
    BY <1>0, <2>3, <2>4, AppendProperties DEF ServerType
  <2>6. /\ UNCHANGED <<file, nver, wver>> /\ wst' = [wst EXCEPT ![w] = "done"]
        /\ fcache' = [fcache EXCEPT ![wkey[w]] = None]
    BY <1>5 DEF NfsFlush
  <2>7. ServerType'
    BY <1>0, <1>1, <2>5, <2>6 DEF ServerType
  <2> QED BY <1>2, <2>1, <2>7 DEF SobType
<1> QED BY <1>3, <1>4, <1>5

LEMMA ReadType ==
    ASSUME SobType, NEW t \in Threads, NfsReadFile(t)
    PROVE  SobType'
<1>0. ServerType /\ ThreadType /\ CacheType /\ ConnType /\ key[t] \in Keys
    BY DEF SobType, ThreadType
<1>1. /\ UNCHANGED <<file, nver, wkey, wst, wver, body, pc, key, job, woken, floor>>
      /\ UNCHANGED <<cacheVars, connVars, logVars>>
      /\ \/ fcache' = [fcache EXCEPT ![key[t]] = file[key[t]]]
         \/ fcache' = fcache
      /\ val' = [val EXCEPT ![t] = fcache'[key[t]]]
    BY DEF NfsReadFile
<1>2. fcache' \in [Keys -> Versions \cup {None}]
    BY <1>0, <1>1 DEF ServerType
<1>3. val' \in [Threads -> Versions \cup {None}]
    BY <1>0, <1>1, <1>2 DEF ThreadType
<1>4. ServerType'
    BY <1>0, <1>1, <1>2 DEF ServerType, logVars
<1>5. ThreadType'
    BY <1>0, <1>1, <1>3 DEF ThreadType
<1>6. CacheType' /\ ConnType'
    BY <1>0, <1>1 DEF cacheVars, connVars, logVars, CacheType, ConnType
<1> QED BY <1>4, <1>5, <1>6 DEF SobType

\* The connections.
LEMMA ConnectType ==
    ASSUME SobType, NEW p \in Clients, Connect(p) \/ Lose(p)
    PROVE  SobType'
<1>0. ServerType /\ ThreadType /\ CacheType /\ ConnType
    BY DEF SobType
<1>1. UNCHANGED <<serverVars, threadVars, cacheVars, length, given>>
    BY DEF Connect, Lose, Snapshot, logVars
<1>2. ServerType' /\ ThreadType' /\ CacheType'
    BY <1>0, <1>1 DEF serverVars, threadVars, cacheVars, ServerType, ThreadType, CacheType
<1>3. lost' \in [Clients -> BOOLEAN]
  <2>1. lost' = [lost EXCEPT ![p] = FALSE] \/ lost' = [lost EXCEPT ![p] = TRUE]
    BY DEF Connect, Lose
  <2> QED BY <1>0, <2>1, Zenon DEF ConnType
<1>4. conn' \in [Clients -> 0..MaxConns]
  <2>1. conn' = conn \/ (conn[p] < MaxConns /\ conn' = [conn EXCEPT ![p] = conn[p] + 1])
    BY <1>0 DEF Connect, Lose, ConnType
  <2> QED BY <1>0, <2>1, Numbers DEF ConnType
<1>5. snap' \in [Conns -> 0..NoSnap]
  <2>1. snap' = snap \/ \E c : snap' = [snap EXCEPT ![c] = length]
    BY DEF Connect, Lose, Snapshot, logVars
  <2>2. length \in 0..NoSnap
    BY <1>0, Numbers DEF ConnType, NoSnap
  <2> QED BY <1>0, <2>1, <2>2 DEF ConnType
<1>6. ConnType'
    BY <1>0, <1>1, <1>3, <1>4, <1>5 DEF ConnType
<1> QED BY <1>2, <1>6 DEF SobType

-----------------------------------------------------------------------------
(* The three steps that flush a cache: the return of a write, and the two  *)
(* kinds of message.                                                       *)

\* Process p flushes the keys K, for versions v that the server has.
FlushStep(p, K, v) ==
    /\ K \in SUBSET Keys /\ v \in [Keys -> Versions]
    /\ Note(p, K, v)
    /\ cache' \in [Clients -> [Keys -> Versions \cup {None, Pending}]]
    /\ \A q \in Clients, k \in Keys :
          cache'[q][k] = IF q = p /\ k \in K THEN None ELSE cache[q][k]
    /\ \A k \in K : v[k] <= file[k] /\ (fcache[k] # None => v[k] <= fcache[k])

\* The steps on other variables.
LEMMA FlushStepType ==
    ASSUME SobType, NEW p \in Clients, NEW K, NEW v, FlushStep(p, K, v)
    PROVE  CacheType'
BY NoteFacts DEF FlushStep, SobType, CacheType

LEMMA ClearEntry ==
    ASSUME CacheType, NEW p \in Clients, NEW k \in Keys,
           cache' = [cache EXCEPT ![p] = [@ EXCEPT ![k] = None]]
    PROVE  /\ cache' \in [Clients -> [Keys -> Versions \cup {None, Pending}]]
           /\ \A q \in Clients, j \in Keys :
                 cache'[q][j] = IF q = p /\ j \in {k} THEN None ELSE cache[q][j]
<1>1. None \in Versions \cup {None, Pending}
    OBVIOUS
<1>2. SetsEntry(p, k, None)
    BY DEF SetsEntry
<1>3. /\ cache' \in [Clients -> [Keys -> Versions \cup {None, Pending}]]
      /\ cache'[p][k] = None
      /\ \A q \in Clients, j \in Keys : q # p \/ j # k => cache'[q][j] = cache[q][j]
    BY <1>1, <1>2, SetEntry, ZenonT(40)
<1> QED BY <1>3

LEMMA ReturnFlushes ==
    ASSUME SobType, SobInv, NEW t \in Threads, NEW kind \in Kinds, NEW ok \in BOOLEAN,
           WriteReturns(t, kind, ok)
    PROVE  UNCHANGED cacheVars \/ \E K, v : FlushStep(Home[t], K, v)
<1>0. ServerType /\ ThreadType /\ CacheType /\ Home[t] \in Clients /\ key[t] \in Keys
    BY SobAssumption DEF SobType, ThreadType
<1> SUFFICES ASSUME ~UNCHANGED cacheVars
             PROVE  \E K, v : FlushStep(Home[t], K, v)
    OBVIOUS
<1>1. PICK p, k, w : p = Home[t] /\ k = key[t] /\ w = job[t]
    OBVIOUS
<1>2. PICK v : v = [j \in Keys |-> IF ok THEN wver[w] ELSE 0]
    OBVIOUS
<1>3. /\ pc[t] = "write" /\ (ok => wst[w] = "done")
      /\ cache' = [cache EXCEPT ![p] = [@ EXCEPT ![k] = None]]
      /\ Note(p, {k}, v)
    BY <1>1, <1>2 DEF WriteReturns, FlushEntry
<1>4. w \in Writes /\ wkey[w] = k
    BY <1>1, <1>3 DEF SobInv, ThreadInv, WriterInv
<1>5. v \in [Keys -> Versions] /\ v[k] = (IF ok THEN wver[w] ELSE 0)
    BY <1>0, <1>1, <1>2, <1>4, Numbers DEF ServerType
<1>6. v[k] <= file[k] /\ (fcache[k] # None => v[k] <= fcache[k])
  <2>1. CASE ok
    <3>1. w \in Made /\ wst[w] = "done"
      BY <1>3, <1>4, <2>1 DEF Made
    <3> QED BY <1>4, <1>5, <2>1, <3>1 DEF SobInv, ServerInv
  <2>2. CASE ~ok
    <3>1. file[k] \in Versions /\ fcache[k] \in Versions \cup {None}
      BY <1>0, <1>1 DEF ServerType
    <3> QED BY <1>5, <2>2, <3>1, Numbers DEF Versions
  <2> QED BY <2>1, <2>2
<1>7. /\ cache' \in [Clients -> [Keys -> Versions \cup {None, Pending}]]
      /\ \A q \in Clients, j \in Keys :
            cache'[q][j] = IF q = p /\ j \in {k} THEN None ELSE cache[q][j]
  <2>1. CacheType /\ p \in Clients /\ k \in Keys
    BY <1>0, <1>1
  <2> QED BY <1>3, <2>1, ClearEntry
<1> QED BY <1>0, <1>1, <1>3, <1>5, <1>6, <1>7 DEF FlushStep

\* A process that is connected.
LEMMA Connected ==
    ASSUME SobType, SobInv, NEW p \in Clients, ~lost[p]
    PROVE  conn[p] \in 1..MaxConns /\ <<p, conn[p]>> \in Conns
<1>1. conn[p] \in 0..MaxConns /\ conn[p] >= 1
    BY DEF SobType, ConnType, SobInv, GivenInv
<1> QED BY <1>1, Numbers DEF Conns

LEMMA RecvKeyFlushes ==
    ASSUME SobType, SobInv, NEW p \in Clients, NEW m \in Msgs, NcfRecvKey(p, m)
    PROVE  /\ m \in 1..length /\ body[m] \in Flushed
           /\ FlushStep(p, {body[m].key}, [j \in Keys |-> body[m].ver])
<1>0. ServerType /\ ThreadType /\ CacheType /\ ConnType
    BY DEF SobType
<1>1. m \in 1..length
  <2>1. m <= length
    BY DEF NcfRecvKey, Deliver
  <2> QED BY <1>0, <2>1, Numbers DEF Msgs, ConnType
<1>2. body[m] \in Flushed
    BY <1>0, <1>1, ElementOfSeq DEF ServerType
<1>3. PICK k, u : k = body[m].key /\ u = body[m].ver
    OBVIOUS
<1>4. k \in Keys /\ u \in Versions
    BY <1>2, <1>3 DEF Flushed
<1>5. PICK v : v = [j \in Keys |-> u]
    OBVIOUS
<1>6. /\ Note(p, {k}, v)
      /\ cache' = [cache EXCEPT ![p] = [@ EXCEPT ![k] = None]]
    BY <1>3, <1>5 DEF NcfRecvKey, FlushEntry
<1>7. /\ cache' \in [Clients -> [Keys -> Versions \cup {None, Pending}]]
      /\ \A q \in Clients, j \in Keys :
            cache'[q][j] = IF q = p /\ j \in {k} THEN None ELSE cache[q][j]
    BY <1>0, <1>4, <1>6, ClearEntry
<1>8. v \in [Keys -> Versions] /\ v[k] = u
    BY <1>4, <1>5
<1>9. u <= file[k] /\ (fcache[k] # None => u <= fcache[k])
    BY <1>1, <1>3 DEF SobInv, ServerInv
<1>10. FlushStep(p, {k}, v)
    BY <1>4, <1>6, <1>7, <1>8, <1>9 DEF FlushStep
<1> QED BY <1>1, <1>2, <1>3, <1>5, <1>10

\* The first message flushes every key for the latest version of the flushes
\* its snapshot holds.
Latest(c) == [k \in Keys |->
                 LET vs == {0} \cup {body[m].ver : m \in {i \in 1..snap[c] : body[i].key = k}}
                 IN  CHOOSE v \in vs : \A u \in vs : u <= v]

LEMMA LatestFacts ==
    ASSUME SobType, SobInv, NEW c \in Conns, snap[c] # NoSnap
    PROVE  /\ Latest(c) \in [Keys -> Versions]
           /\ \A k \in Keys : /\ Latest(c)[k] <= file[k]
                              /\ fcache[k] # None => Latest(c)[k] <= fcache[k]
           /\ \A m \in 1..length :
                 m <= snap[c] => body[m].ver <= Latest(c)[body[m].key]
<1>0. /\ ServerType /\ ConnType /\ length \in Nat
      /\ snap[c] \in 0..length
  <2>1. ServerType /\ ConnType
    BY DEF SobType
  <2>2. snap[c] \in 0..NoSnap /\ snap[c] <= length
    BY <2>1 DEF SobInv, GivenInv, ConnType
  <2> QED BY <2>1, <2>2, Numbers DEF ConnType
<1>1. \A m \in 1..length : body[m].key \in Keys /\ body[m].ver \in Versions
  <2>1. \A m \in 1..length : body[m] \in Flushed
    BY <1>0, ElementOfSeq DEF ServerType
  <2> QED BY <2>1 DEF Flushed
<1>2. ASSUME NEW k \in Keys
      PROVE  /\ Latest(c)[k] \in Versions
             /\ Latest(c)[k] = 0 \/ \E m \in 1..length :
                                       body[m].key = k /\ body[m].ver = Latest(c)[k]
             /\ \A m \in 1..length :
                   m <= snap[c] /\ body[m].key = k => body[m].ver <= Latest(c)[k]
  <2>1. PICK vs : vs = {0} \cup {body[m].ver : m \in {i \in 1..snap[c] : body[i].key = k}}
    OBVIOUS
  <2>2. Latest(c)[k] = CHOOSE v \in vs : \A u \in vs : u <= v
    BY <2>1 DEF Latest
  <2>3. \A u \in vs : u = 0 \/ \E m \in 1..length : body[m].key = k /\ body[m].ver = u
    BY <1>0, <2>1
  <2>4. vs \in SUBSET (0..MaxWrites) /\ vs # {}
    <3>1. \A u \in vs : u \in Versions
      BY <1>1, <2>3, Numbers
    <3> QED BY <2>1, <3>1 DEF Versions
  <2>5. \E v \in vs : \A u \in vs : u <= v
    BY <2>4, Numbers, Greatest
  <2>6. Latest(c)[k] \in vs /\ \A u \in vs : u <= Latest(c)[k]
    BY <2>2, <2>5
  <2>7. \A m \in 1..length : m <= snap[c] /\ body[m].key = k => body[m].ver \in vs
    BY <1>0, <2>1
  <2> QED BY <2>3, <2>4, <2>6, <2>7 DEF Versions
<1>3. Latest(c) \in [Keys -> Versions]
  <2>1. Latest(c) = [k \in Keys |-> Latest(c)[k]]
    BY DEF Latest
  <2> QED BY <1>2, <2>1
<1>4. ASSUME NEW k \in Keys
      PROVE  Latest(c)[k] <= file[k] /\ (fcache[k] # None => Latest(c)[k] <= fcache[k])
  <2>1. CASE Latest(c)[k] = 0
    <3>1. file[k] \in Versions /\ fcache[k] \in Versions \cup {None}
      BY <1>0 DEF ServerType
    <3> QED BY <2>1, <3>1, Numbers DEF Versions
  <2>2. CASE \E m \in 1..length : body[m].key = k /\ body[m].ver = Latest(c)[k]
    BY <2>2 DEF SobInv, ServerInv
  <2> QED BY <1>2, <2>1, <2>2
<1> QED BY <1>1, <1>2, <1>3, <1>4

LEMMA RecvInitFlushes ==
    ASSUME SobType, SobInv, NEW p \in Clients, ~lost[p], NcfRecvInit(p)
    PROVE  snap[<<p, conn[p]>>] # NoSnap /\ FlushStep(p, Keys, Latest(<<p, conn[p]>>))
<1>0. CacheType
    BY DEF SobType
<1>1. PICK c \in Conns : c = <<p, conn[p]>>
    BY Connected
<1>2. Deliver(c, InitMsg)
    BY <1>1 DEF NcfRecvInit
<1>3. snap[c] # NoSnap
    BY <1>2, Numbers DEF Deliver
<1>4. /\ cache' = [cache EXCEPT ![p] = FlushAll(@)]
      /\ Note(p, Keys, Latest(c))
    BY <1>1 DEF NcfRecvInit, Latest
<1>5. /\ cache' \in [Clients -> [Keys -> Versions \cup {None, Pending}]]
      /\ \A q \in Clients, j \in Keys :
            cache'[q][j] = IF q = p /\ j \in Keys THEN None ELSE cache[q][j]
    BY <1>0, <1>4 DEF FlushAll, CacheType
<1>6. FlushStep(p, Keys, Latest(c))
    BY <1>3, <1>4, <1>5, LatestFacts DEF FlushStep
<1> QED BY <1>1, <1>3, <1>6

LEMMA DeliverType ==
    ASSUME SobType, NEW c \in Conns, NEW m \in Msgs \cup {InitMsg}, Deliver(c, m),
           UNCHANGED connVars
    PROVE  /\ ConnType' /\ UNCHANGED <<length, snap>>
           /\ given'[c] = Append(given[c], m)
           /\ \A d \in Conns : d # c => given'[d] = given[d]
<1>0. ConnType /\ given[c] \in Seq(Msgs \cup {InitMsg})
    BY DEF SobType, ConnType
<1>1. /\ given' = [given EXCEPT ![c] = Append(given[c], m)]
      /\ UNCHANGED <<length, snap>>
    BY DEF Deliver
<1>2. Append(given[c], m) \in Seq(Msgs \cup {InitMsg})
    BY <1>0, AppendProperties
<1> QED BY <1>0, <1>1, <1>2 DEF ConnType, connVars

\* The steps that flush.
LEMMA RecvType ==
    ASSUME SobType, SobInv, NEW p \in Clients, Recv(p)
    PROVE  SobType'
<1>0. ServerType /\ ThreadType /\ ~lost[p]
    BY DEF SobType, Recv
<1>1. PICK c \in Conns : c = <<p, conn[p]>>
    BY <1>0, Connected
<1>2. PICK m \in Msgs \cup {InitMsg} :
         /\ Deliver(c, m) /\ UNCHANGED connVars /\ UNCHANGED serverVars
         /\ UNCHANGED <<pc, key, val, job, floor>>
         /\ Broadcast(p) \/ UNCHANGED woken
  <2>1. CASE NcfRecvInit(p)
    BY <1>1, <2>1 DEF NcfRecvInit
  <2>2. CASE \E m \in Msgs : NcfRecvKey(p, m)
    BY <1>1, <2>2 DEF NcfRecvKey
  <2> QED BY <2>1, <2>2 DEF Recv
<1>3. ConnType' /\ ServerType'
    BY <1>0, <1>2, DeliverType DEF serverVars, ServerType
<1>4. ThreadType'
    BY <1>0, <1>2, BroadcastType DEF ThreadType
<1>5. CacheType'
  <2>1. CASE NcfRecvInit(p)
    BY <1>0, <2>1, RecvInitFlushes, FlushStepType
  <2>2. CASE \E i \in Msgs : NcfRecvKey(p, i)
    BY <2>2, RecvKeyFlushes, FlushStepType
  <2> QED BY <2>1, <2>2 DEF Recv
<1> QED BY <1>3, <1>4, <1>5 DEF SobType

LEMMA WriteReturnsType ==
    ASSUME SobType, SobInv, NEW t \in Threads, NEW kind \in Kinds, NEW ok \in BOOLEAN,
           WriteReturns(t, kind, ok)
    PROVE  SobType'
<1>0. ServerType /\ ThreadType /\ CacheType /\ ConnType /\ Home[t] \in Clients
    BY SobAssumption DEF SobType
<1>1. Return(t) /\ UNCHANGED <<serverVars, woken, connVars, logVars>>
    BY DEF WriteReturns
<1>2. ServerType' /\ ConnType'
    BY <1>0, <1>1 DEF serverVars, connVars, logVars, ServerType, ConnType
<1>3. ThreadType'
    BY <1>0, <1>1, ReturnType DEF ThreadType
<1>4. CacheType'
  <2>1. CASE UNCHANGED cacheVars
    BY <1>0, <2>1 DEF cacheVars, CacheType
  <2>2. CASE \E K, v : FlushStep(Home[t], K, v)
    BY <1>0, <2>2, FlushStepType
  <2> QED BY <2>1, <2>2, ReturnFlushes
<1> QED BY <1>2, <1>3, <1>4 DEF SobType

LEMMA StepType == SobType /\ SobInv /\ [Next]_vars => SobType'
<1> SUFFICES ASSUME SobType, SobInv, [Next]_vars PROVE SobType'
    OBVIOUS
<1>1. ASSUME NEW t \in Threads, NEW k \in Keys, SobGetFile(t, k)
      PROVE  SobType'
    BY <1>1, GetType
<1>2. ASSUME NEW t \in Threads,
             FetchOk(t) \/ FetchFail(t) \/ WaitAgain(t) \/ WaitTimeout(t)
      PROVE  SobType'
    BY <1>2, GetType, Numbers
<1>3. ASSUME NEW t \in Threads, NfsReadFile(t)
      PROVE  SobType'
    BY <1>3, ReadType
<1>4. ASSUME NEW t \in Threads, NEW k \in Keys, Write(t, k)
      PROVE  SobType'
    BY <1>4, WriteType
<1>5. ASSUME NEW k \in Keys, OtherWrite(k)
      PROVE  SobType'
    BY <1>5, OtherWriteType
<1>6. ASSUME NEW t \in Threads, NEW kind \in Kinds, NEW ok \in BOOLEAN,
             WriteReturns(t, kind, ok)
      PROVE  SobType'
    BY <1>6, WriteReturnsType
<1>7. ASSUME NEW w \in Writes, WriteFile(w) \/ WriteFails(w) \/ NfsFlush(w)
      PROVE  SobType'
    BY <1>7, ServerStepType DEF SobInv
<1>8. ASSUME NEW p \in Clients, Connect(p) \/ Lose(p)
      PROVE  SobType'
    BY <1>8, ConnectType
<1>9. ASSUME NEW p \in Clients, Recv(p)
      PROVE  SobType'
    BY <1>9, RecvType
<1>10. CASE UNCHANGED vars
  <2>1. UNCHANGED <<serverVars, threadVars, cacheVars, connVars, logVars>>
    BY <1>10 DEF vars
  <2> QED BY <2>1 DEF serverVars, threadVars, cacheVars, connVars, logVars, SobType,
             ServerType, ThreadType, CacheType, ConnType
<1>11. Writers \subseteq Threads
    BY SobAssumption
<1> QED BY <1>1, <1>2, <1>3, <1>4, <1>5, <1>6, <1>7, <1>8, <1>9, <1>10, <1>11
       DEF Next, Server

-----------------------------------------------------------------------------
(* The requests and the versions.                                          *)

\* The requests that were sent.
Asked == {w \in Writes : wst[w] # "new"}

LEMMA AskedFacts ==
    /\ IsFiniteSet(Asked) /\ Cardinality(Asked) \in Nat /\ NextWrite = Cardinality(Asked) + 1
    /\ IsFiniteSet(Made) /\ Cardinality(Made) \in Nat
<1>1. IsFiniteSet(Writes)
    BY Numbers, FS_Interval DEF Writes
<1>2. Asked \in SUBSET Writes /\ Made \in SUBSET Writes
    BY DEF Asked, Made
<1>3. IsFiniteSet(Asked) /\ IsFiniteSet(Made)
    BY <1>1, <1>2, FS_Subset
<1> QED BY <1>3, FS_CardinalityType DEF Asked, NextWrite

\* A new request takes the next number.
LEMMA NewWriteKeepsWrites ==
    ASSUME SobType, WriteInv, NEW k \in Keys, NewWrite(k), nver' = nver
    PROVE  /\ WriteInv' /\ NextWrite \in Writes
           /\ wst[NextWrite] = "new" /\ Made' = Made
<1>0. wst \in [Writes -> {"new", "sent", "written", "done", "failed"}]
    BY DEF SobType, ServerType
<1>1. PICK n \in Writes : n = NextWrite
    BY NewWriteType
<1>2. wst' = [wst EXCEPT ![n] = "sent"]
    BY <1>1, NewWriteType
<1>3. wst[n] = "new"
    BY <1>1, Numbers DEF WriteInv
<1>4. Asked' = Asked \cup {n} /\ n \notin Asked
    BY <1>0, <1>2, <1>3 DEF Asked
<1>5. Cardinality(Asked') = Cardinality(Asked) + 1
    BY <1>4, AskedFacts, FS_AddElement
<1>6. NextWrite' = Cardinality(Asked') + 1
    BY DEF NextWrite, Asked
<1>7. n \in Nat /\ NextWrite' = n + 1
    BY <1>1, <1>5, <1>6, AskedFacts, Numbers
<1>8. \A w \in Writes : wst'[w] # "new" <=> w < n + 1
  <2>1. \A w \in Writes : wst[w] # "new" <=> w < n
    BY <1>1 DEF WriteInv
  <2>2. \A w \in Writes : w \in Nat
    BY Numbers
  <2> QED BY <1>0, <1>2, <1>7, <2>1, <2>2
<1>9. Made' = Made
    BY <1>0, <1>2, <1>3 DEF Made
<1>10. WriteInv'
    BY <1>7, <1>8, <1>9 DEF WriteInv
<1> QED BY <1>1, <1>3, <1>9, <1>10

\* A request is executed, and its flush sent.
LEMMA ServerKeepsWrites ==
    ASSUME SobType, WriteInv, NEW w \in Writes, WriteFile(w) \/ WriteFails(w) \/ NfsFlush(w)
    PROVE  /\ WriteInv'
           /\ Made' = (IF wst'[w] = "written" THEN Made \cup {w} ELSE Made)
<1>0. wst \in [Writes -> {"new", "sent", "written", "done", "failed"}]
    BY DEF SobType, ServerType
<1>1. Asked' = Asked
  <2>1. PICK s \in {"written", "done", "failed"} : wst' = [wst EXCEPT ![w] = s]
    BY DEF WriteFile, WriteFails, NfsFlush
  <2>2. wst[w] # "new"
    BY DEF WriteFile, WriteFails, NfsFlush
  <2>3. \A u \in Writes : wst'[u] # "new" <=> wst[u] # "new"
    BY <1>0, <2>1, <2>2
  <2> QED BY <2>3 DEF Asked
<1>2. NextWrite' = NextWrite /\ \A u \in Writes : wst'[u] # "new" <=> u < NextWrite
  <2>1. NextWrite' = NextWrite
    BY <1>1 DEF Asked, NextWrite
  <2>2. \A u \in Writes : wst'[u] # "new" <=> wst[u] # "new"
    BY <1>1 DEF Asked
  <2> QED BY <2>1, <2>2 DEF WriteInv
<1>3. CASE WriteFile(w)
  <2>1. /\ wst[w] = "sent" /\ wst' = [wst EXCEPT ![w] = "written"]
        /\ nver' = nver + 1
    BY <1>3 DEF WriteFile
  <2>2. Made' = Made \cup {w} /\ w \notin Made /\ wst'[w] = "written"
    BY <1>0, <2>1 DEF Made
  <2>3. Cardinality(Made') = Cardinality(Made) + 1
    BY <2>2, AskedFacts, FS_AddElement
  <2>4. WriteInv'
    BY <1>2, <2>1, <2>3 DEF WriteInv
  <2> QED BY <2>2, <2>4
<1>4. CASE ~WriteFile(w)
  <2>1. /\ wst'[w] # "written" /\ nver' = nver
        /\ \/ wst[w] = "sent" /\ wst' = [wst EXCEPT ![w] = "failed"]
           \/ wst[w] = "written" /\ wst' = [wst EXCEPT ![w] = "done"]
    BY <1>0, <1>4 DEF WriteFails, NfsFlush
  <2>2. Made' = Made
    BY <1>0, <2>1 DEF Made
  <2> QED BY <1>2, <2>1, <2>2 DEF WriteInv
<1> QED BY <1>3, <1>4

-----------------------------------------------------------------------------
(* The file server.                                                        *)

LEMMA NewWriteKeepsServer ==
    ASSUME SobType, WriteInv, ServerInv, NEW k \in Keys, NewWrite(k),
           UNCHANGED <<file, nver, wver, fcache, body, length>>
    PROVE  ServerInv'
<1>0. /\ wst \in [Writes -> {"new", "sent", "written", "done", "failed"}]
      /\ wkey \in [Writes -> Keys]
    BY DEF SobType, ServerType
<1>1. PICK n \in Writes : n = NextWrite
    BY NewWriteType
<1>2. /\ wst' = [wst EXCEPT ![n] = "sent"] /\ wkey' = [wkey EXCEPT ![n] = k]
      /\ wst[n] = "new" /\ Made' = Made
    BY <1>1, NewWriteType, NewWriteKeepsWrites
<1>3. \A w \in Made : w \in Writes /\ wkey'[w] = wkey[w]
    BY <1>0, <1>2 DEF Made
<1>4. \A w \in Writes : wst'[w] = "done" => wst[w] = "done" /\ wkey'[w] = wkey[w]
    BY <1>0, <1>2
<1> QED BY <1>2, <1>3, <1>4 DEF ServerInv

LEMMA WriteFileKeepsServer ==
    ASSUME SobType, WriteInv, ServerInv, NEW w \in Writes, WriteFile(w)
    PROVE  /\ ServerInv' /\ UNCHANGED fcache
           /\ \A k \in Keys : file[k] <= file'[k]
<1>0. /\ ServerType /\ wkey[w] \in Keys /\ nver \in Nat /\ wst[w] = "sent"
      /\ length \in Nat
    BY Numbers DEF SobType, ServerType, ConnType, WriteFile
<1>1. PICK n : n = nver + 1
    OBVIOUS
<1>2. /\ nver' = n /\ file' = [file EXCEPT ![wkey[w]] = n]
      /\ wver' = [wver EXCEPT ![w] = n] /\ wst' = [wst EXCEPT ![w] = "written"]
      /\ UNCHANGED <<wkey, fcache, body, length>>
    BY <1>1 DEF WriteFile, logVars
<1>3. Made' = Made \cup {w} /\ w \notin Made
  <2>1. wst'[w] = "written"
    BY <1>0, <1>2 DEF ServerType
  <2>2. Made' = Made \cup {w}
    BY <2>1, ServerKeepsWrites
  <2>3. w \notin Made
    BY <1>0 DEF Made
  <2> QED BY <2>2, <2>3
<1>4. \A k \in Keys : /\ file[k] \in Nat /\ file[k] <= nver /\ file[k] <= file'[k]
                      /\ file'[k] <= n /\ file'[k] \in Nat
  <2>1. \A k \in Keys : file[k] \in Nat /\ file[k] <= nver
    BY <1>0, Numbers DEF ServerInv, ServerType
  <2> QED BY <1>0, <1>1, <1>2, <2>1 DEF ServerType
<1>5. \A k \in Keys : fcache[k] # None => fcache[k] <= file'[k]
  <2>1. \A k \in Keys : fcache[k] # None => fcache[k] \in Nat /\ fcache[k] <= file[k]
    <3>1. \A k \in Keys : fcache[k] \in Versions \cup {None}
      BY <1>0 DEF ServerType
    <3>2. \A k \in Keys : fcache[k] # None => fcache[k] <= file[k]
      BY DEF ServerInv
    <3> QED BY <3>1, <3>2, Numbers
  <2> QED BY <1>4, <2>1
<1>6. \A k \in Keys :
         file'[k] = 0 \/ \E u \in Made' : wkey[u] = k /\ wver'[u] = file'[k]
  <2>1. file'[wkey[w]] = n /\ wver'[w] = n
    BY <1>0, <1>2 DEF ServerType
  <2>2. \A k \in Keys : k # wkey[w] => file'[k] = file[k]
    BY <1>0, <1>2 DEF ServerType
  <2>3. \A u \in Made : u \in Writes /\ wver'[u] = wver[u]
    BY <1>0, <1>2, <1>3 DEF ServerType, Made
  <2>4. \A k \in Keys : file[k] = 0 \/ \E u \in Made : wkey[u] = k /\ wver[u] = file[k]
    BY DEF ServerInv
  <2> QED BY <1>3, <2>1, <2>2, <2>3, <2>4
<1>7. \A u \in Made' : wver'[u] <= file'[wkey[u]]
  <2>1. \A u \in Made : /\ u \in Writes /\ wver'[u] = wver[u] /\ wver[u] \in Nat
                        /\ wkey[u] \in Keys /\ wver[u] <= file[wkey[u]]
    BY <1>0, <1>2, <1>3, Numbers, ZenonT(40) DEF ServerType, Made, ServerInv
  <2>2. wver'[w] <= file'[wkey[w]]
    BY <1>0, <1>1, <1>2 DEF ServerType
  <2> QED BY <1>3, <1>4, <2>1, <2>2
<1>8. \A u \in Writes : wst'[u] = "done" =>
         /\ fcache[wkey[u]] # None => wver'[u] <= fcache[wkey[u]]
         /\ \E m \in 1..length : body[m].key = wkey[u] /\ body[m].ver = wver'[u]
  <2>1. \A u \in Writes : wst'[u] = "done" => wst[u] = "done" /\ wver'[u] = wver[u]
    BY <1>0, <1>2 DEF ServerType
  <2> QED BY <2>1 DEF ServerInv
<1>9. \A m \in 1..length : body[m].ver <= file'[body[m].key]
  <2>1. \A m \in 1..length : body[m].key \in Keys /\ body[m].ver \in Nat
    <3>1. \A m \in 1..length : body[m] \in Flushed
      BY <1>0, ElementOfSeq DEF ServerType
    <3> QED BY <3>1, Numbers DEF Flushed
  <2>2. \A m \in 1..length : body[m].ver <= file[body[m].key]
    BY DEF ServerInv
  <2> QED BY <1>4, <2>1, <2>2
<1>10. \A m \in 1..length : fcache[body[m].key] # None => body[m].ver <= fcache[body[m].key]
    BY DEF ServerInv
<1>11. ServerInv'
    BY <1>2, <1>4, <1>5, <1>6, <1>7, <1>8, <1>9, <1>10 DEF ServerInv
<1> QED BY <1>2, <1>4, <1>11

LEMMA WriteFailsKeepsServer ==
    ASSUME SobType, WriteInv, ServerInv, NEW w \in Writes, WriteFails(w)
    PROVE  ServerInv' /\ UNCHANGED <<fcache, file>>
<1>0. wst \in [Writes -> {"new", "sent", "written", "done", "failed"}]
    BY DEF SobType, ServerType
<1>1. /\ wst[w] = "sent" /\ wst' = [wst EXCEPT ![w] = "failed"]
      /\ UNCHANGED <<file, nver, wkey, wver, fcache, body, length>>
    BY DEF WriteFails, logVars
<1>2. Made' = Made
  <2>1. wst'[w] # "written"
    BY <1>0, <1>1
  <2> QED BY <2>1, ServerKeepsWrites
<1>3. \A u \in Writes : wst'[u] = "done" => wst[u] = "done"
    BY <1>0, <1>1
<1> QED BY <1>1, <1>2, <1>3 DEF ServerInv

LEMMA BodyType ==
    ASSUME SobType
    PROVE  \A m \in 1..length : body[m].key \in Keys /\ body[m].ver \in Versions
<1>1. \A m \in 1..length : body[m] \in Flushed
    BY ElementOfSeq DEF SobType, ServerType
<1> QED BY <1>1 DEF Flushed

\* The log grows by the flush of the request.
LEMMA FlushGrowsBody ==
    ASSUME SobType, NEW w \in Writes, NfsFlush(w)
    PROVE  /\ length \in Nat /\ length' = length + 1
           /\ body'[length + 1].key = wkey[w] /\ body'[length + 1].ver = wver[w]
           /\ \A m \in 1..length : body'[m] = body[m]
<1>0. ServerType /\ length \in Nat
    BY Numbers DEF SobType, ConnType
<1>1. PICK e : e = [key |-> wkey[w], ver |-> wver[w]]
    OBVIOUS
<1>2. body' = Append(body, e) /\ length' = length + 1
    BY <1>1 DEF NfsFlush, Publish
<1>3. e \in Flushed /\ e.key = wkey[w] /\ e.ver = wver[w]
    BY <1>0, <1>1 DEF ServerType, Flushed
<1>4. body'[Len(body) + 1] = e /\ \A m \in 1..Len(body) : body'[m] = body[m]
    BY <1>0, <1>2, <1>3, AppendProperties DEF ServerType
<1> QED BY <1>0, <1>2, <1>3, <1>4 DEF ServerType

LEMMA NfsFlushKeepsServer ==
    ASSUME SobType, WriteInv, ServerInv, NEW w \in Writes, NfsFlush(w)
    PROVE  /\ ServerInv' /\ UNCHANGED file
           /\ \A k \in Keys : fcache'[k] # None => fcache'[k] = fcache[k]
<1>0. /\ ServerType /\ wkey[w] \in Keys /\ wst[w] = "written" /\ w \in Made
    BY DEF SobType, ServerType, NfsFlush, Made
<1>1. /\ wst' = [wst EXCEPT ![w] = "done"] /\ fcache' = [fcache EXCEPT ![wkey[w]] = None]
      /\ UNCHANGED <<file, nver, wkey, wver>>
    BY DEF NfsFlush
<1>2. Made' = Made
  <2>1. wst'[w] # "written"
    BY <1>0, <1>1 DEF ServerType
  <2> QED BY <2>1, ServerKeepsWrites
<1>3. /\ fcache'[wkey[w]] = None
      /\ \A k \in Keys : fcache'[k] # None => fcache'[k] = fcache[k]
    BY <1>0, <1>1 DEF ServerType
<1>4. \A k \in Keys : /\ file[k] <= nver
                      /\ fcache'[k] # None => fcache'[k] <= file[k]
                      /\ file[k] = 0 \/ \E u \in Made : wkey[u] = k /\ wver[u] = file[k]
    BY <1>3 DEF ServerInv
<1>5. \A u \in Made : wver[u] <= file[wkey[u]]
    BY DEF ServerInv
<1>6. ASSUME NEW u \in Writes, wst'[u] = "done"
      PROVE  /\ fcache'[wkey[u]] # None => wver[u] <= fcache'[wkey[u]]
             /\ \E m \in 1..length' : body'[m].key = wkey[u] /\ body'[m].ver = wver[u]
  <2>0. wkey[u] \in Keys
    BY <1>0 DEF ServerType
  <2>1. CASE u = w
    <3>1. length + 1 \in 1..length'
      BY FlushGrowsBody
    <3> QED BY <1>3, <2>1, <3>1, FlushGrowsBody
  <2>2. CASE u # w
    <3>1. wst[u] = "done"
      BY <1>0, <1>1, <1>6, <2>2 DEF ServerType
    <3>2. PICK m \in 1..length : body[m].key = wkey[u] /\ body[m].ver = wver[u]
      BY <3>1 DEF ServerInv
    <3>3. m \in 1..length' /\ body'[m] = body[m]
      BY <3>2, FlushGrowsBody
    <3>4. fcache[wkey[u]] # None => wver[u] <= fcache[wkey[u]]
      BY <3>1 DEF ServerInv
    <3> QED BY <1>3, <2>0, <3>2, <3>3, <3>4
  <2> QED BY <2>1, <2>2
<1>7. ASSUME NEW m \in 1..length'
      PROVE  /\ body'[m].ver <= file[body'[m].key]
             /\ fcache'[body'[m].key] # None => body'[m].ver <= fcache'[body'[m].key]
  <2>1. CASE m = length + 1
    BY <1>0, <1>3, <1>5, <2>1, FlushGrowsBody
  <2>2. CASE m # length + 1
    <3>1. m \in 1..length /\ body'[m] = body[m]
      BY <2>2, FlushGrowsBody
    <3>2. body[m].key \in Keys
      BY <3>1, BodyType
    <3>3. /\ body[m].ver <= file[body[m].key]
          /\ fcache[body[m].key] # None => body[m].ver <= fcache[body[m].key]
      BY <3>1 DEF ServerInv
    <3> QED BY <1>3, <3>1, <3>2, <3>3
  <2> QED BY <2>1, <2>2
<1>8. ServerInv'
    BY <1>1, <1>2, <1>4, <1>5, <1>6, <1>7 DEF ServerInv
<1> QED BY <1>1, <1>3, <1>8

\* The file that is read is the last one or the one that is cached.
LEMMA ReadKeepsServer ==
    ASSUME SobType, ServerInv, NEW t \in Threads, NfsReadFile(t)
    PROVE  /\ ServerInv' /\ UNCHANGED <<file, wst, wkey>>
           /\ \A k \in Keys : fcache'[k] # None =>
                 fcache'[k] = file[k] \/ (fcache[k] # None /\ fcache'[k] = fcache[k])
           /\ fcache'[key[t]] # None
<1>0. ServerType /\ key[t] \in Keys
    BY DEF SobType, ThreadType
<1>1. /\ UNCHANGED <<file, nver, wkey, wst, wver, body, length>>
      /\ \/ fcache' = [fcache EXCEPT ![key[t]] = file[key[t]]]
         \/ fcache[key[t]] # None /\ fcache' = fcache
    BY DEF NfsReadFile, logVars
<1>2. \A k \in Keys : /\ file[k] \in Nat /\ file[k] # None
                      /\ fcache[k] \in Versions \cup {None}
    BY <1>0, Numbers DEF ServerType
<1>3. /\ \A k \in Keys : fcache'[k] # None =>
            fcache'[k] = file[k] \/ (fcache[k] # None /\ fcache'[k] = fcache[k])
      /\ fcache'[key[t]] # None
    BY <1>0, <1>1, <1>2 DEF ServerType
<1>4. Made' = Made
    BY <1>1 DEF Made
<1>5. \A k \in Keys : fcache'[k] # None => fcache'[k] <= file[k]
    BY <1>2, <1>3 DEF ServerInv
<1>6. \A w \in Writes : wst[w] = "done" =>
          /\ fcache'[wkey[w]] # None => wver[w] <= fcache'[wkey[w]]
          /\ \E m \in 1..length : body[m].key = wkey[w] /\ body[m].ver = wver[w]
  <2>1. \A w \in Writes : wkey[w] \in Keys /\ (wst[w] = "done" => w \in Made)
    BY <1>0 DEF ServerType, Made
  <2>2. \A w \in Writes : wst[w] = "done" =>
          /\ fcache[wkey[w]] # None => wver[w] <= fcache[wkey[w]]
          /\ \E m \in 1..length : body[m].key = wkey[w] /\ body[m].ver = wver[w]
          /\ wver[w] <= file[wkey[w]]
    BY <2>1 DEF ServerInv
  <2> QED BY <1>3, <2>1, <2>2
<1>7. \A m \in 1..length :
          /\ body[m].ver <= file[body[m].key]
          /\ fcache'[body[m].key] # None => body[m].ver <= fcache'[body[m].key]
  <2>1. \A m \in 1..length : body[m].key \in Keys
    BY BodyType
  <2>2. \A m \in 1..length :
          /\ body[m].ver <= file[body[m].key]
          /\ fcache[body[m].key] # None => body[m].ver <= fcache[body[m].key]
    BY DEF ServerInv
  <2> QED BY <1>3, <2>1, <2>2
<1>8. /\ \A k \in Keys : /\ file[k] <= nver
                         /\ file[k] = 0 \/ \E w \in Made : wkey[w] = k /\ wver[w] = file[k]
      /\ \A w \in Made : wver[w] <= file[wkey[w]]
    BY DEF ServerInv
<1>9. ServerInv'
    BY <1>1, <1>4, <1>5, <1>6, <1>7, <1>8 DEF ServerInv
<1> QED BY <1>1, <1>3, <1>9

-----------------------------------------------------------------------------
(* What a process has flushed its cache for.                               *)

\* A flush only moves it forwards, to versions the server has.
LEMMA FlushGrows ==
    ASSUME SobType, FlushInv, NEW p \in Clients, NEW K, NEW v, FlushStep(p, K, v),
           UNCHANGED serverVars
    PROVE  /\ \A q \in Clients, k \in Keys :
                 /\ flushed[q][k] \in Nat /\ flushed'[q][k] \in Nat
                 /\ flushed[q][k] <= flushed'[q][k]
                 /\ flushed'[q][k] <= file'[k]
                 /\ fcache'[k] # None => flushed'[q][k] <= fcache'[k]
           /\ \A k \in K : v[k] <= flushed'[p][k]
<1>0. CacheType /\ K \in SUBSET Keys /\ v \in [Keys -> Versions] /\ Note(p, K, v)
    BY DEF SobType, FlushStep
<1>1. /\ flushed' \in [Clients -> [Keys -> Versions]]
      /\ \A q \in Clients : q # p => flushed'[q] = flushed[q]
      /\ \A k \in Keys : flushed'[p][k] =
            IF k \in K /\ v[k] > flushed[p][k] THEN v[k] ELSE flushed[p][k]
    BY <1>0, NoteFacts
<1>2. \A q \in Clients, k \in Keys : flushed[q][k] \in Nat /\ flushed'[q][k] \in Nat
  <2>1. \A q \in Clients, k \in Keys : flushed[q][k] \in Versions /\ flushed'[q][k] \in Versions
    BY <1>0, <1>1 DEF CacheType
  <2> QED BY <2>1, Numbers
<1>3. \A k \in Keys : v[k] \in Nat
    BY <1>0, Numbers
<1>4. \A k \in Keys : /\ flushed[p][k] <= flushed'[p][k]
                      /\ k \in K => v[k] <= flushed'[p][k]
                      /\ \/ flushed'[p][k] = flushed[p][k]
                         \/ k \in K /\ flushed'[p][k] = v[k]
    BY <1>1, <1>2, <1>3
<1>5. \A q \in Clients, k \in Keys :
         /\ flushed[q][k] <= flushed'[q][k]
         /\ \/ flushed'[q][k] = flushed[q][k]
            \/ k \in K /\ q = p /\ flushed'[q][k] = v[k]
    BY <1>1, <1>2, <1>4
<1>6. /\ \A q \in Clients, k \in Keys :
            /\ flushed[q][k] <= file[k]
            /\ fcache[k] # None => flushed[q][k] <= fcache[k]
      /\ \A k \in K : v[k] <= file[k] /\ (fcache[k] # None => v[k] <= fcache[k])
    BY DEF FlushInv, FlushStep
<1>7. file' = file /\ fcache' = fcache
    BY DEF serverVars
<1>8. \A q \in Clients, k \in Keys :
         /\ flushed'[q][k] <= file[k]
         /\ fcache[k] # None => flushed'[q][k] <= fcache[k]
    BY <1>5, <1>6, Zenon
<1> QED BY <1>0, <1>2, <1>4, <1>5, <1>7, <1>8

\* The return of a write.
LEMMA ReturnKeepsFlush ==
    ASSUME SobType, FlushInv, NEW p \in Clients, NEW K, NEW v, FlushStep(p, K, v),
           UNCHANGED <<serverVars, connVars, logVars>>
    PROVE  FlushInv'
<1>1. \A q \in Clients, k \in Keys :
         /\ flushed[q][k] \in Nat /\ flushed'[q][k] \in Nat
         /\ flushed[q][k] <= flushed'[q][k]
         /\ flushed'[q][k] <= file'[k]
         /\ fcache'[k] # None => flushed'[q][k] <= fcache'[k]
    BY FlushGrows
<1>2. UNCHANGED <<body, length, given, snap, conn>>
    BY DEF serverVars, connVars, logVars
<1>3. ASSUME NEW q \in Clients, conn'[q] >= 1, given'[<<q, conn'[q]>>] # <<>>,
             NEW m \in 1..length', Got(<<q, conn[q]>>, m)'
      PROVE  body'[m].ver <= flushed'[q][body'[m].key]
  <2>1. Got(<<q, conn[q]>>, m)
    BY <1>2, <1>3 DEF Got, LastGiven
  <2>2. body[m].ver <= flushed[q][body[m].key]
    BY <1>2, <1>3, <2>1 DEF FlushInv
  <2>3. body[m].key \in Keys /\ body[m].ver \in Nat
    BY <1>2, <1>3, BodyType, Numbers
  <2> QED BY <1>1, <1>2, <2>2, <2>3
<1> QED BY <1>1, <1>3 DEF FlushInv

\* A message is delivered, and its flush done.
LEMMA DeliverKeepsFlush ==
    ASSUME SobType, SobInv, NEW p \in Clients, NEW K, NEW v, FlushStep(p, K, v), ~lost[p],
           UNCHANGED <<serverVars, connVars>>,
           NEW m \in Msgs \cup {InitMsg}, Deliver(<<p, conn[p]>>, m),
           m \in Msgs => body[m].key \in K /\ v[body[m].key] = body[m].ver,
           m = InitMsg =>
              \A i \in 1..length : i <= snap[<<p, conn[p]>>] =>
                  body[i].key \in K /\ body[i].ver <= v[body[i].key]
    PROVE  FlushInv' /\ GivenInv'
<1>0. ServerType /\ ConnType /\ FlushInv /\ GivenInv
    BY DEF SobType, SobInv
<1>1. PICK c \in Conns : c = <<p, conn[p]>> /\ conn[p] >= 1
    BY Connected
<1>2. /\ UNCHANGED <<length, snap>> /\ given'[c] = Append(given[c], m)
      /\ \A d \in Conns : d # c => given'[d] = given[d]
    BY <1>1, DeliverType
<1>3. UNCHANGED <<body, conn, lost>>
    BY DEF serverVars, connVars
<1>4. given[c] \in Seq(Msgs \cup {InitMsg})
    BY <1>0 DEF ConnType
<1>5. given'[c] # <<>> /\ LastGiven(c)' = m
    BY <1>2, <1>4 DEF LastGiven
<1>6. m \in Msgs => m <= length
    BY DEF Deliver
<1>7. m \in Successors(given[c], snap[c]) /\ (m = InitMsg => snap[c] # NoSnap)
    BY <1>1, Numbers DEF Deliver
<1>8. /\ length \in Nat /\ snap[c] \in Nat /\ snap[c] <= length
  <2>1. snap[c] \in 0..NoSnap /\ length \in Nat
    BY <1>0, Numbers DEF ConnType
  <2>2. snap[c] # NoSnap \/ given[c] # <<>>
    BY <1>7, Numbers DEF Successors
  <2> QED BY <1>0, <2>1, <2>2 DEF GivenInv
<1>9. \A q \in Clients, k \in Keys :
         /\ flushed[q][k] \in Nat /\ flushed'[q][k] \in Nat
         /\ flushed[q][k] <= flushed'[q][k]
         /\ flushed'[q][k] <= file'[k]
         /\ fcache'[k] # None => flushed'[q][k] <= fcache'[k]
    BY <1>0, FlushGrows
<1>10. \A k \in K : v[k] <= flushed'[p][k] /\ k \in Keys /\ v[k] \in Nat
  <2>1. K \in SUBSET Keys /\ v \in [Keys -> Versions]
    BY DEF FlushStep
  <2> QED BY <1>0, <2>1, FlushGrows, Numbers
<1>11. \A i \in 1..length : body[i].key \in Keys /\ body[i].ver \in Nat
    BY BodyType, Numbers
<1>12. ASSUME NEW i \in 1..length, i <= snap[c] \/ (m \in Msgs /\ i <= m)
       PROVE  body[i].ver <= flushed'[p][body[i].key]
  <2>1. CASE m = InitMsg
    <3>1. i <= snap[c]
      BY <1>12, <2>1, Numbers
    <3>2. body[i].key \in K /\ body[i].ver <= v[body[i].key]
      BY <1>1, <2>1, <3>1
    <3>3. v[body[i].key] <= flushed'[p][body[i].key] /\ v[body[i].key] \in Nat
      BY <1>10, <3>2
    <3> QED BY <1>9, <1>11, <3>2, <3>3
  <2>2. CASE m \in Msgs /\ i = m
    BY <1>10, <2>2
  <2>3. CASE m \in Msgs /\ i # m
    <3>1. given[c] # <<>>
      BY <1>7, <2>3, Numbers DEF Successors
    <3>2. LastGiven(c) \in Msgs \cup {InitMsg}
      <4>1. Len(given[c]) \in 1..Len(given[c])
        BY <1>4, <3>1
      <4> QED BY <1>4, <4>1, ElementOfSeq DEF LastGiven
    <3>3. i <= snap[c] \/ (LastGiven(c) \in Msgs /\ i <= LastGiven(c))
      <4>1. i \in Nat /\ m \in Nat /\ (i <= snap[c] \/ i < m)
        BY <1>12, <2>3, <1>8, Numbers
      <4>2. CASE LastGiven(c) = InitMsg
        <5>1. m \in 1..snap[c]+1
          BY <1>7, <3>1, <4>2 DEF Successors, LastGiven
        <5> QED BY <1>8, <4>1, <5>1
      <4>3. CASE LastGiven(c) \in Msgs
        <5>1. m = LastGiven(c) + 1
          <6>1. LastGiven(c) # InitMsg
            BY <4>3, Numbers
          <6> QED BY <1>7, <3>1, <6>1 DEF Successors, LastGiven
        <5>2. LastGiven(c) \in Nat
          BY <4>3, Numbers
        <5> QED BY <4>1, <4>3, <5>1, <5>2
      <4> QED BY <3>2, <4>2, <4>3
    <3>4. Got(c, i)
      BY <3>3 DEF Got
    <3>5. body[i].ver <= flushed[p][body[i].key]
      BY <1>0, <1>1, <3>1, <3>4 DEF FlushInv
    <3> QED BY <1>9, <1>11, <3>5
  <2> QED BY <2>1, <2>2, <2>3
<1>13. ASSUME NEW q \in Clients, conn'[q] >= 1, given'[<<q, conn'[q]>>] # <<>>,
              NEW i \in 1..length', Got(<<q, conn[q]>>, i)'
       PROVE  body'[i].ver <= flushed'[q][body'[i].key]
  <2>1. CASE q = p
    <3>1. Got(c, i)'
      BY <1>1, <1>3, <1>13, <2>1
    <3>2. i <= snap[c] \/ (m \in Msgs /\ i <= m)
      BY <1>2, <1>5, <3>1 DEF Got
    <3> QED BY <1>2, <1>3, <1>12, <1>13, <2>1, <3>2
  <2>2. CASE q # p
    <3>1. PICK d : d = <<q, conn[q]>>
      OBVIOUS
    <3>2. d \in Conns /\ d # c /\ conn[q] >= 1
      <4>1. conn[q] \in 0..MaxConns /\ conn[q] >= 1
        BY <1>0, <1>3, <1>13 DEF ConnType
      <4> QED BY <1>1, <2>2, <3>1, <4>1, Numbers DEF Conns
    <3>3. given'[d] = given[d] /\ snap' = snap
      BY <1>2, <3>2
    <3>4. Got(d, i) /\ given[d] # <<>>
      BY <1>3, <1>13, <3>1, <3>3 DEF Got, LastGiven
    <3>5. body[i].ver <= flushed[q][body[i].key]
      BY <1>0, <1>2, <1>13, <3>1, <3>2, <3>4 DEF FlushInv
    <3> QED BY <1>2, <1>3, <1>9, <1>11, <1>13, <3>5
  <2> QED BY <2>1, <2>2
<1>14. FlushInv'
    BY <1>9, <1>13 DEF FlushInv
<1>15. ASSUME NEW d \in Conns
       PROVE  /\ (given'[d] = <<>> /\ snap'[d] = NoSnap) \/ snap'[d] <= length'
              /\ given'[d] # <<>> /\ LastGiven(d)' \in Msgs => LastGiven(d)' <= length'
  <2>1. CASE d = c
    BY <1>2, <1>5, <1>6, <1>8, <2>1
  <2>2. CASE d # c
    BY <1>0, <1>2, <2>2 DEF GivenInv, LastGiven
  <2> QED BY <2>1, <2>2
<1>16. GivenInv'
    BY <1>0, <1>3, <1>15 DEF GivenInv
<1> QED BY <1>14, <1>16

LEMMA RecvKeepsFlush ==
    ASSUME SobType, SobInv, NEW p \in Clients, Recv(p)
    PROVE  FlushInv' /\ GivenInv'
<1>0. ~lost[p]
    BY DEF Recv
<1>1. CASE NcfRecvInit(p)
  <2>1. PICK c \in Conns : c = <<p, conn[p]>>
    BY <1>0, Connected
  <2>2. snap[c] # NoSnap /\ FlushStep(p, Keys, Latest(c))
    BY <1>0, <1>1, <2>1, RecvInitFlushes
  <2>3. PICK v : v = Latest(c)
    OBVIOUS
  <2>4. \A i \in 1..length : i <= snap[c] =>
            body[i].key \in Keys /\ body[i].ver <= v[body[i].key]
    BY <2>2, <2>3, LatestFacts, BodyType
  <2>5. UNCHANGED <<serverVars, connVars>> /\ Deliver(<<p, conn[p]>>, InitMsg)
    BY <1>1 DEF NcfRecvInit
  <2>6. InitMsg \notin Msgs
    BY Numbers
  <2> QED BY <1>0, <2>1, <2>2, <2>3, <2>4, <2>5, <2>6, DeliverKeepsFlush
<1>2. ASSUME NEW m \in Msgs, NcfRecvKey(p, m)
      PROVE  FlushInv' /\ GivenInv'
  <2>1. /\ m \in 1..length /\ body[m] \in Flushed
        /\ FlushStep(p, {body[m].key}, [j \in Keys |-> body[m].ver])
    BY <1>2, RecvKeyFlushes
  <2>2. PICK K, v : K = {body[m].key} /\ v = [j \in Keys |-> body[m].ver]
    OBVIOUS
  <2>3. /\ FlushStep(p, K, v)
        /\ body[m].key \in K /\ v[body[m].key] = body[m].ver
    BY <2>1, <2>2, BodyType
  <2>4. UNCHANGED <<serverVars, connVars>> /\ Deliver(<<p, conn[p]>>, m)
    BY <1>2 DEF NcfRecvKey
  <2>5. m # InitMsg
    BY Numbers
  <2> QED BY <1>0, <2>3, <2>4, <2>5, DeliverKeepsFlush
<1> QED BY <1>1, <1>2 DEF Recv

\* A write, or a read of the server.  A flush that was only now sent has not
\* come to anybody.
LEMMA ServerKeepsFlush ==
    ASSUME SobType, SobInv, SobType',
           UNCHANGED <<flushed, connVars, given, snap>>,
           \A k \in Keys : file[k] <= file'[k],
           \A k \in Keys : fcache'[k] # None =>
              fcache'[k] = file[k] \/ (fcache[k] # None /\ fcache'[k] = fcache[k]),
           length' = length \/ length' = length + 1,
           \A m \in 1..length : body'[m] = body[m]
    PROVE  FlushInv' /\ GivenInv'
<1>0. /\ ConnType /\ FlushInv /\ GivenInv /\ length \in Nat
      /\ UNCHANGED <<conn, lost>>
    BY Numbers DEF SobType, SobInv, ConnType, connVars
<1>1. ASSUME NEW p \in Clients, NEW k \in Keys
      PROVE  /\ flushed'[p][k] <= file'[k]
             /\ fcache'[k] # None => flushed'[p][k] <= fcache'[k]
  <2>1. flushed[p][k] \in Nat /\ file[k] \in Nat /\ file'[k] \in Nat
    <3>1. flushed[p][k] \in Versions /\ file[k] \in Versions /\ file'[k] \in Versions
      BY DEF SobType, ServerType, CacheType
    <3> QED BY <3>1, Numbers
  <2>2. flushed[p][k] <= file[k] /\ (fcache[k] # None => flushed[p][k] <= fcache[k])
    BY <1>0 DEF FlushInv
  <2> QED BY <2>1, <2>2
<1>2. ASSUME NEW p \in Clients, conn'[p] >= 1, given'[<<p, conn'[p]>>] # <<>>,
             NEW m \in 1..length', Got(<<p, conn[p]>>, m)'
      PROVE  body'[m].ver <= flushed'[p][body'[m].key]
  <2>1. PICK c : c = <<p, conn[p]>>
    OBVIOUS
  <2>2. c \in Conns /\ given[c] # <<>> /\ conn[p] >= 1
    <3>1. conn[p] \in 0..MaxConns /\ conn[p] >= 1
      BY <1>0, <1>2 DEF ConnType
    <3> QED BY <1>0, <1>2, <2>1, <3>1, Numbers DEF Conns
  <2>3. Got(c, m)
    BY <1>0, <1>2, <2>1 DEF Got, LastGiven
  <2>4. m <= length
    <3>1. snap[c] <= length /\ snap[c] \in Nat
      <4>1. snap[c] \in 0..NoSnap
        BY <1>0, <2>2 DEF ConnType
      <4> QED BY <1>0, <2>2, <4>1, Numbers DEF GivenInv, NoSnap
    <3>2. LastGiven(c) \in Msgs => LastGiven(c) <= length /\ LastGiven(c) \in Nat
      BY <1>0, <2>2, Numbers DEF GivenInv
    <3>3. m \in Nat
      BY <1>0
    <3> QED BY <1>0, <2>3, <3>1, <3>2, <3>3 DEF Got
  <2>5. m \in 1..length
    BY <1>0, <2>4
  <2>6. body[m].ver <= flushed[p][body[m].key]
    BY <1>0, <2>1, <2>2, <2>3, <2>5 DEF FlushInv
  <2> QED BY <2>5, <2>6
<1>3. FlushInv'
    BY <1>1, <1>2 DEF FlushInv
<1>4. ASSUME NEW d \in Conns
      PROVE  /\ (given'[d] = <<>> /\ snap'[d] = NoSnap) \/ snap'[d] <= length'
             /\ given'[d] # <<>> /\ LastGiven(d)' \in Msgs => LastGiven(d)' <= length'
  <2>1. LastGiven(d)' = LastGiven(d)
    BY DEF LastGiven
  <2>2. snap[d] \in Nat /\ (LastGiven(d) \in Msgs => LastGiven(d) \in Nat)
    <3>1. snap[d] \in 0..NoSnap
      BY <1>0 DEF ConnType
    <3>2. LastGiven(d) \in Msgs => LastGiven(d) \in Nat
      BY Numbers, Zenon
    <3> QED BY <3>1, <3>2
  <2>3. /\ (given[d] = <<>> /\ snap[d] = NoSnap) \/ snap[d] <= length
        /\ given[d] # <<>> /\ LastGiven(d) \in Msgs => LastGiven(d) <= length
    BY <1>0 DEF GivenInv
  <2> QED BY <1>0, <2>1, <2>2, <2>3
<1>5. GivenInv'
    BY <1>0, <1>4 DEF GivenInv
<1> QED BY <1>3, <1>5

\* A new connection has got no message.
LEMMA ConnectKeepsFlush ==
    ASSUME SobType, SobInv, NEW p \in Clients, Connect(p) \/ Lose(p)
    PROVE  FlushInv' /\ GivenInv'
<1>0. ConnType /\ FlushInv /\ GivenInv /\ length \in Nat
    BY Numbers DEF SobType, SobInv, ConnType
<1>1. UNCHANGED <<file, fcache, flushed, body, length, given>>
    BY DEF Connect, Lose, Snapshot, serverVars, cacheVars, logVars
<1>2. CASE Lose(p)
  <2>1. /\ UNCHANGED <<conn, snap>> /\ lost' = [lost EXCEPT ![p] = TRUE]
    BY <1>2 DEF Lose, logVars
  <2>2. \A q \in Clients : ~lost'[q] => ~lost[q]
    BY <1>0, <2>1, Zenon DEF ConnType
  <2>3. GivenInv'
    BY <1>0, <1>1, <2>1, <2>2 DEF GivenInv, LastGiven
  <2>4. FlushInv'
    BY <1>0, <1>1, <2>1 DEF FlushInv, Got, LastGiven
  <2> QED BY <2>3, <2>4
<1>3. CASE Connect(p)
  <2>1. PICK n, c : n = conn[p] + 1 /\ c = <<p, n>>
    OBVIOUS
  <2>2. /\ conn[p] < MaxConns /\ conn' = [conn EXCEPT ![p] = n]
        /\ given[c] = <<>> /\ snap' = [snap EXCEPT ![c] = length]
        /\ lost' = [lost EXCEPT ![p] = FALSE]
    BY <1>0, <1>3, <2>1 DEF Connect, Snapshot, ConnType
  <2>3. conn[p] \in 0..MaxConns /\ n \in 1..MaxConns
    BY <1>0, <2>1, <2>2, Numbers DEF ConnType
  <2>4. c \in Conns
    BY <2>1, <2>3 DEF Conns
  <2>5. snap'[c] = length /\ \A d \in Conns : d # c => snap'[d] = snap[d]
    BY <1>0, <2>2, <2>4 DEF ConnType
  <2>6. conn'[p] = n /\ \A q \in Clients : q # p => conn'[q] = conn[q]
    BY <1>0, <2>2 DEF ConnType
  <2>7. ASSUME NEW q \in Clients, conn'[q] >= 1, given'[<<q, conn'[q]>>] # <<>>,
               NEW m \in 1..length', Got(<<q, conn[q]>>, m)'
        PROVE  body'[m].ver <= flushed'[q][body'[m].key]
    <3>1. q # p
      BY <1>1, <2>1, <2>2, <2>6, <2>7
    <3>2. PICK d : d = <<q, conn[q]>>
      OBVIOUS
    <3>3. d \in Conns /\ d # c /\ conn[q] >= 1 /\ conn'[q] = conn[q]
      <4>1. conn[q] \in 0..MaxConns /\ conn[q] >= 1 /\ conn'[q] = conn[q]
        BY <1>0, <2>6, <2>7, <3>1 DEF ConnType
      <4> QED BY <2>1, <3>1, <3>2, <4>1, Numbers DEF Conns
    <3>4. given'[d] = given[d] /\ snap'[d] = snap[d]
      BY <1>1, <2>5, <3>3
    <3>5. Got(d, m) /\ given[d] # <<>>
      BY <2>7, <3>2, <3>3, <3>4 DEF Got, LastGiven
    <3> QED BY <1>0, <1>1, <2>7, <3>2, <3>3, <3>5 DEF FlushInv
  <2>8. FlushInv'
    BY <1>0, <1>1, <2>7 DEF FlushInv
  <2>9. ASSUME NEW d \in Conns
        PROVE  /\ (given'[d] = <<>> /\ snap'[d] = NoSnap) \/ snap'[d] <= length'
               /\ given'[d] # <<>> /\ LastGiven(d)' \in Msgs => LastGiven(d)' <= length'
    BY <1>0, <1>1, <2>5 DEF GivenInv, LastGiven
  <2>10. \A q \in Clients : ~lost'[q] => conn'[q] >= 1
    <3>1. n >= 1
      BY <2>3
    <3>2. \A q \in Clients : q # p => (~lost'[q] => ~lost[q])
      BY <1>0, <2>2, Zenon DEF ConnType
    <3> QED BY <1>0, <2>6, <3>1, <3>2 DEF GivenInv
  <2>11. GivenInv'
    BY <2>9, <2>10 DEF GivenInv
  <2> QED BY <2>8, <2>11
<1> QED BY <1>2, <1>3

-----------------------------------------------------------------------------
(* The threads.                                                            *)

\* A thread whose call goes on as it was.
Same(u) == /\ pc'[u] = pc[u] /\ key'[u] = key[u] /\ val'[u] = val[u]
           /\ job'[u] = job[u] /\ floor'[u] = floor[u]

\* Its write, when requests only make progress.
LEMMA SameWriter ==
    ASSUME NEW u \in Threads, WriterInv(u), Same(u),
           \A w \in Writes : wst[w] # "new" => wst'[w] # "new" /\ wkey'[w] = wkey[w]
    PROVE  WriterInv(u)'
BY DEF WriterInv, Same

\* Its fetch, when the file only gets newer.
LEMMA SameFetch ==
    ASSUME SobType, SobType', NEW u \in Threads, FetchInv(u), Same(u),
           UNCHANGED <<flushed, raced>>, \A k \in Keys : file[k] <= file'[k]
    PROVE  FetchInv(u)'
<1> SUFFICES ASSUME pc[u] = "fetch"
             PROVE  /\ floor[u] <= flushed[Home[u]][key[u]]
                    /\ ~raced[Home[u]][key[u]] => floor[u] = flushed[Home[u]][key[u]]
                    /\ val[u] # None => floor[u] <= val[u] /\ val[u] <= file'[key[u]]
    BY DEF FetchInv, Same
<1>1. /\ floor[u] <= flushed[Home[u]][key[u]]
      /\ ~raced[Home[u]][key[u]] => floor[u] = flushed[Home[u]][key[u]]
      /\ val[u] # None => floor[u] <= val[u] /\ val[u] <= file[key[u]]
    BY DEF FetchInv
<1>2. /\ key[u] \in Keys /\ val[u] \in Versions \cup {None}
      /\ file[key[u]] \in Versions /\ file'[key[u]] \in Versions
    BY DEF SobType, ThreadType, ServerType
<1>3. val[u] # None => val[u] <= file'[key[u]]
  <2>1. file[key[u]] <= file'[key[u]]
    BY <1>2
  <2>2. /\ file[key[u]] \in Nat /\ file'[key[u]] \in Nat
        /\ val[u] # None => val[u] \in Nat
    BY <1>2, Numbers
  <2> QED BY <1>1, <2>1, <2>2
<1> QED BY <1>1, <1>3

\* Its fetch, when a cache is flushed: of this key, and the fetch is raced; or
\* not.
LEMMA FlushedFetch ==
    ASSUME SobType, FlushInv, NEW p \in Clients, NEW K, NEW v, FlushStep(p, K, v),
           UNCHANGED serverVars, NEW u \in Threads, FetchInv(u), Same(u)
    PROVE  FetchInv(u)'
<1> SUFFICES ASSUME pc[u] = "fetch"
             PROVE  /\ floor[u] <= flushed'[Home[u]][key[u]]
                    /\ ~raced'[Home[u]][key[u]] => floor[u] = flushed'[Home[u]][key[u]]
                    /\ val[u] # None => floor[u] <= val[u] /\ val[u] <= file'[key[u]]
    BY DEF FetchInv, Same
<1>1. /\ floor[u] <= flushed[Home[u]][key[u]]
      /\ ~raced[Home[u]][key[u]] => floor[u] = flushed[Home[u]][key[u]]
      /\ val[u] # None => floor[u] <= val[u] /\ val[u] <= file[key[u]]
    BY DEF FetchInv
<1>2. PICK q \in Clients, k \in Keys : q = Home[u] /\ k = key[u]
    BY SobAssumption DEF SobType, ThreadType
<1>3. floor[u] \in Nat
    BY Numbers DEF SobType, ThreadType
<1>4. /\ flushed[q][k] \in Nat /\ flushed'[q][k] \in Nat
      /\ flushed[q][k] <= flushed'[q][k]
    BY FlushGrows
<1>5. CacheType /\ K \in SUBSET Keys /\ v \in [Keys -> Versions] /\ Note(p, K, v)
    BY DEF SobType, FlushStep
<1>6. CASE q = p /\ k \in K
  <2>1. Fetching(p, k)
    BY <1>2, <1>6 DEF Fetching
  <2>2. raced'[p][k] = Fetching(p, k)
    BY <1>5, <1>6, NoteFacts
  <2>3. raced'[q][k]
    BY <1>6, <2>1, <2>2
  <2> QED BY <1>1, <1>2, <1>3, <1>4, <2>3 DEF serverVars
<1>7. CASE ~(q = p /\ k \in K)
  <2>1. flushed'[q][k] = flushed[q][k]
    <3>1. q # p => flushed'[q] = flushed[q]
      BY <1>5, NoteFacts
    <3>2. flushed'[p][k] = IF k \in K /\ v[k] > flushed[p][k] THEN v[k] ELSE flushed[p][k]
      BY <1>5, NoteFacts
    <3> QED BY <1>7, <3>1, <3>2
  <2>2. raced'[q][k] = raced[q][k]
    <3>1. q # p => raced'[q] = raced[q]
      BY <1>5, NoteFacts
    <3>2. k \notin K => raced'[p][k] = raced[p][k]
      BY <1>5, NoteFacts
    <3> QED BY <1>7, <3>1, <3>2
  <2> QED BY <1>1, <1>2, <2>1, <2>2 DEF serverVars
<1> QED BY <1>6, <1>7

\* A call that is not a fetch, and one that is not a write.
LEMMA NoFetch == ASSUME NEW u, pc'[u] # "fetch", val'[u] = None PROVE FetchInv(u)'
BY DEF FetchInv

LEMMA NoWriter == ASSUME NEW u, pc'[u] # "write" PROVE WriterInv(u)'
BY DEF WriterInv

LEMMA SameThreads ==
    ASSUME UNCHANGED <<pc, key, val, job, floor>>, NEW u PROVE Same(u)
BY DEF Same

LEMMA GetKeepsThreads ==
    ASSUME SobType, SobInv, SobType', NEW t \in Threads, NEW k \in Keys,
           SobGetFile(t, k)
    PROVE  ThreadInv'
<1>0. ThreadType /\ CacheType /\ ThreadInv
    BY DEF SobType, SobInv
<1>1. /\ UNCHANGED <<val, job, file, wst, wkey, flushed, raced>>
      /\ pc[t] = "idle"
    BY DEF SobGetFile, serverVars
<1>2. ASSUME NEW u \in Threads, u # t \/ UNCHANGED <<pc, key, floor>>
      PROVE  Same(u)
    BY <1>0, <1>1, <1>2 DEF SobGetFile, ThreadType, Same
<1>3. ASSUME NEW u \in Threads, Same(u) PROVE FetchInv(u)' /\ WriterInv(u)'
  <2>1. \A j \in Keys : file[j] \in Nat /\ file'[j] = file[j]
    BY <1>1, Numbers DEF SobType, ServerType
  <2>2. \A j \in Keys : file[j] <= file'[j]
    BY <2>1
  <2> QED BY <1>0, <1>1, <1>3, <2>2, SameFetch, SameWriter DEF ThreadInv
<1>4. val[t] = None /\ val'[t] = None
    BY <1>0, <1>1 DEF ThreadInv, FetchInv
<1>5. CASE pc' = [pc EXCEPT ![t] = "wait"]
  <2>1. pc'[t] = "wait" /\ val'[t] = None
    BY <1>0, <1>5, <1>4 DEF ThreadType
  <2>2. FetchInv(t)' /\ WriterInv(t)'
    BY <2>1, NoFetch, NoWriter
  <2> QED BY <1>2, <1>3, <2>2 DEF ThreadInv
<1>6. CASE UNCHANGED <<pc, key, floor>>
    BY <1>2, <1>3, <1>6 DEF ThreadInv
<1>7. CASE /\ pc' = [pc EXCEPT ![t] = "fetch"] /\ key' = [key EXCEPT ![t] = k]
           /\ floor' = [floor EXCEPT ![t] = flushed[Home[t]][k]]
  <2>1. /\ pc'[t] = "fetch" /\ key'[t] = k /\ floor'[t] = flushed[Home[t]][k]
        /\ val'[t] = val[t]
    BY <1>0, <1>1, <1>7 DEF ThreadType
  <2>2. flushed[Home[t]][k] \in Nat
    <3>1. flushed[Home[t]][k] \in Versions
      BY <1>0, SobAssumption DEF CacheType
    <3> QED BY <3>1, Numbers
  <2>3. val[t] # None => flushed[Home[t]][k] <= val[t] /\ val[t] <= file[k]
    BY <1>4
  <2>4. FetchInv(t)'
    BY <1>1, <2>1, <2>2, <2>3 DEF FetchInv
  <2>5. WriterInv(t)'
    BY <2>1, NoWriter
  <2> QED BY <1>2, <1>3, <2>4, <2>5 DEF ThreadInv
<1> QED BY <1>5, <1>6, <1>7 DEF SobGetFile

\* A fetch or a wait ends.
LEMMA ReturnKeepsThreads ==
    ASSUME SobType, SobInv, SobType', NEW t \in Threads, Return(t),
           UNCHANGED <<file, wst, wkey, flushed, raced>>
    PROVE  ThreadInv'
<1>0. ThreadType /\ ThreadInv
    BY DEF SobType, SobInv
<1>1. pc'[t] = "idle" /\ val'[t] = None
    BY <1>0 DEF Return, ThreadType
<1>2. FetchInv(t)' /\ WriterInv(t)'
    BY <1>1, NoFetch, NoWriter
<1>3. ASSUME NEW u \in Threads, u # t PROVE FetchInv(u)' /\ WriterInv(u)'
  <2>1. Same(u)
    BY <1>0, <1>3, ReturnType DEF Same
  <2>2. \A j \in Keys : file[j] \in Nat /\ file'[j] = file[j]
    BY Numbers DEF SobType, ServerType
  <2>3. \A j \in Keys : file[j] <= file'[j]
    BY <2>2
  <2> QED BY <1>0, <2>1, <2>3, SameFetch, SameWriter DEF ThreadInv
<1> QED BY <1>2, <1>3 DEF ThreadInv

\* The threads go on while the server works.
LEMMA ServerKeepsThreads ==
    ASSUME SobType, SobInv, SobType', UNCHANGED <<pc, key, val, job, floor, flushed, raced>>,
           \A k \in Keys : file[k] <= file'[k],
           \A w \in Writes : wst[w] # "new" => wst'[w] # "new" /\ wkey'[w] = wkey[w]
    PROVE  ThreadInv'
<1>1. \A u \in Threads : Same(u) /\ FetchInv(u) /\ WriterInv(u)
    BY DEF Same, SobInv, ThreadInv
<1>2. \A u \in Threads : FetchInv(u)'
    BY <1>1, SameFetch
<1>3. \A u \in Threads : WriterInv(u)'
    BY <1>1, SameWriter
<1> QED BY <1>2, <1>3 DEF ThreadInv

\* The return of a write, and a message.
LEMMA FlushKeepsThreads ==
    ASSUME SobType, SobInv, NEW p \in Clients, NEW K, NEW v, FlushStep(p, K, v),
           UNCHANGED serverVars,
           \A u \in Threads : \/ Same(u)
                              \/ pc'[u] = "idle" /\ val'[u] = None
    PROVE  ThreadInv'
<1>0. FlushInv /\ ThreadInv /\ UNCHANGED <<wst, wkey>>
    BY DEF SobInv, serverVars
<1>1. ASSUME NEW u \in Threads PROVE FetchInv(u)' /\ WriterInv(u)'
  <2>1. CASE Same(u)
    BY <1>0, <2>1, FlushedFetch, SameWriter DEF ThreadInv
  <2>2. CASE pc'[u] = "idle" /\ val'[u] = None
    BY <2>2, NoFetch, NoWriter
  <2> QED BY <2>1, <2>2
<1> QED BY <1>1 DEF ThreadInv

\* A new request.
LEMMA NewWriteKeepsRequests ==
    ASSUME SobType, WriteInv, NEW k \in Keys, NewWrite(k), nver' = nver
    PROVE  /\ \A w \in Writes : wst[w] # "new" => wst'[w] # "new" /\ wkey'[w] = wkey[w]
           /\ NextWrite \in Writes /\ wst'[NextWrite] # "new" /\ wkey'[NextWrite] = k
<1>0. /\ wst \in [Writes -> {"new", "sent", "written", "done", "failed"}]
      /\ wkey \in [Writes -> Keys]
    BY DEF SobType, ServerType
<1>1. PICK n \in Writes : n = NextWrite
    BY NewWriteType
<1>2. /\ wst' = [wst EXCEPT ![n] = "sent"] /\ wkey' = [wkey EXCEPT ![n] = k]
      /\ wst[n] = "new"
    BY <1>1, NewWriteType, NewWriteKeepsWrites
<1>3. wst'[n] = "sent" /\ wkey'[n] = k
    BY <1>0, <1>2
<1>4. \A w \in Writes : wst[w] # "new" => wst'[w] # "new" /\ wkey'[w] = wkey[w]
    BY <1>0, <1>2
<1> QED BY <1>1, <1>3, <1>4

LEMMA WriteKeepsThreads ==
    ASSUME SobType, SobInv, SobType', NEW t \in Threads, NEW k \in Keys, Write(t, k)
    PROVE  ThreadInv'
<1>0. ThreadType /\ ThreadInv /\ WriteInv
    BY DEF SobType, SobInv
<1>1. /\ NewWrite(k) /\ UNCHANGED <<file, nver, val, floor, flushed, raced>>
      /\ pc[t] = "idle"
      /\ pc' = [pc EXCEPT ![t] = "write"] /\ key' = [key EXCEPT ![t] = k]
    BY DEF Write, cacheVars
<1>2. PICK n \in Writes : n = NextWrite
    BY <1>1, NewWriteType
<1>3. job' = [job EXCEPT ![t] = n]
    BY <1>2 DEF Write
<1>4. /\ \A w \in Writes : wst[w] # "new" => wst'[w] # "new" /\ wkey'[w] = wkey[w]
      /\ wst'[n] # "new" /\ wkey'[n] = k
    BY <1>0, <1>1, <1>2, NewWriteKeepsRequests
<1>5. ASSUME NEW u \in Threads, u # t PROVE FetchInv(u)' /\ WriterInv(u)'
  <2>1. Same(u)
    BY <1>0, <1>1, <1>3, <1>5 DEF Same, ThreadType
  <2>2. \A j \in Keys : file[j] \in Nat /\ file'[j] = file[j]
    BY <1>1, Numbers DEF SobType, ServerType
  <2>3. \A j \in Keys : file[j] <= file'[j]
    BY <2>2
  <2> QED BY <1>0, <1>1, <1>4, <2>1, <2>3, SameFetch, SameWriter DEF ThreadInv
<1>6. pc'[t] = "write" /\ key'[t] = k /\ job'[t] = n
    BY <1>0, <1>1, <1>3 DEF ThreadType
<1>7. WriterInv(t)'
    BY <1>4, <1>6 DEF WriterInv
<1>8. FetchInv(t)'
  <2>1. val'[t] = None
    BY <1>0, <1>1 DEF ThreadInv, FetchInv
  <2> QED BY <1>6, <2>1, NoFetch
<1> QED BY <1>5, <1>7, <1>8 DEF ThreadInv

\* The server reads a version no older than the last flush of the process.
LEMMA ReadKeepsThreads ==
    ASSUME SobType, SobInv, SobType', NEW t \in Threads, NfsReadFile(t)
    PROVE  ThreadInv'
<1>0. ThreadType /\ ThreadInv /\ ServerInv /\ FlushInv
    BY DEF SobType, SobInv
<1>1. /\ UNCHANGED <<file, wst, wkey, pc, key, job, floor, flushed, raced>>
      /\ pc[t] = "fetch" /\ val' = [val EXCEPT ![t] = fcache'[key[t]]]
    BY DEF NfsReadFile, cacheVars
<1>2. ASSUME NEW u \in Threads, u # t PROVE FetchInv(u)'
  <2>1. Same(u)
    BY <1>0, <1>1, <1>2 DEF Same, ThreadType
  <2>2. \A j \in Keys : file[j] \in Nat /\ file'[j] = file[j]
    BY <1>1, Numbers DEF SobType, ServerType
  <2>3. \A j \in Keys : file[j] <= file'[j]
    BY <2>2
  <2> QED BY <1>0, <1>1, <2>1, <2>3, SameFetch DEF ThreadInv
<1>3. \A u \in Threads : WriterInv(u)'
    BY <1>0, <1>1 DEF ThreadInv, WriterInv
<1>4. FetchInv(t)'
  <2>1. PICK p \in Clients, k \in Keys : p = Home[t] /\ k = key[t]
    BY <1>0, SobAssumption DEF ThreadType
  <2>2. val'[t] = fcache'[k]
    BY <1>0, <1>1, <2>1 DEF ThreadType
  <2>3. /\ fcache'[k] # None
        /\ fcache'[k] = file[k] \/ (fcache[k] # None /\ fcache'[k] = fcache[k])
    BY <1>0, <2>1, ReadKeepsServer
  <2>4. flushed[p][k] <= fcache'[k] /\ fcache'[k] <= file[k]
    <3>1. /\ flushed[p][k] <= file[k]
          /\ fcache[k] # None => flushed[p][k] <= fcache[k] /\ fcache[k] <= file[k]
      BY <1>0 DEF FlushInv, ServerInv
    <3>2. file[k] \in Nat
      BY Numbers DEF SobType, ServerType
    <3> QED BY <2>3, <3>1, <3>2
  <2>5. floor[t] <= flushed[p][k] /\ (~raced[p][k] => floor[t] = flushed[p][k])
    BY <1>0, <1>1, <2>1 DEF ThreadInv, FetchInv
  <2>6. floor[t] \in Nat /\ flushed[p][k] \in Nat /\ fcache'[k] \in Nat
    <3>1. floor[t] \in Versions /\ flushed[p][k] \in Versions
      BY DEF SobType, ThreadType, CacheType
    <3>2. fcache'[k] \in Versions \cup {None}
      BY DEF SobType, ServerType
    <3> QED BY <2>3, <3>1, <3>2, Numbers
  <2>7. floor[t] <= val'[t] /\ val'[t] <= file[k]
    BY <2>2, <2>4, <2>5, <2>6
  <2> QED BY <1>1, <2>1, <2>5, <2>7 DEF FetchInv
<1> QED BY <1>2, <1>3, <1>4 DEF ThreadInv

-----------------------------------------------------------------------------
(* The caches.                                                             *)

\* What CacheInv says of one entry.
EntryInv(p, k) ==
    /\ cache[p][k] = Pending => Fetching(p, k)
    /\ cache[p][k] \in Versions =>
          /\ cache[p][k] <= file[k]
          /\ cache[p][k] >= IF raced[p][k] THEN base[p][k] ELSE flushed[p][k]

LEMMA Entries == CacheInv <=> \A p \in Clients, k \in Keys : EntryInv(p, k)
BY DEF CacheInv, NotOlder, EntryInv

\* The fetches of a key that go on.
Kept(p, k) == \A u \in Threads : Home[u] = p /\ pc[u] = "fetch" /\ key[u] = k =>
                                    pc'[u] = "fetch" /\ key'[u] = k

LEMMA SameEntry ==
    ASSUME SobType, SobType', NEW p \in Clients, NEW k \in Keys, EntryInv(p, k),
           Kept(p, k), cache'[p][k] = cache[p][k], raced'[p][k] = raced[p][k],
           base'[p][k] = base[p][k], flushed'[p][k] = flushed[p][k],
           file[k] <= file'[k]
    PROVE  EntryInv(p, k)'
<1>1. cache'[p][k] = Pending => Fetching(p, k)'
    BY DEF EntryInv, Kept, Fetching
<1>2. cache[p][k] \in Versions => cache[p][k] <= file'[k]
  <2>1. cache[p][k] \in Versions => cache[p][k] \in Nat
    BY Numbers
  <2>2. file[k] \in Versions /\ file'[k] \in Versions
    BY DEF SobType, ServerType
  <2>3. file[k] \in Nat /\ file'[k] \in Nat
    BY <2>2, Numbers
  <2> QED BY <2>1, <2>3 DEF EntryInv
<1> QED BY <1>1, <1>2 DEF EntryInv

LEMMA NoEntry == ASSUME NEW p, NEW k, cache'[p][k] = None PROVE EntryInv(p, k)'
BY Numbers DEF EntryInv

\* The steps that leave the caches alone and end no fetch.
LEMMA OthersKeepCache ==
    ASSUME SobType, SobInv, SobType', UNCHANGED <<cache, flushed, base, raced>>,
           \A k \in Keys : file[k] <= file'[k],
           \A u \in Threads : pc[u] = "fetch" => pc'[u] = "fetch" /\ key'[u] = key[u]
    PROVE  CacheInv'
<1>1. \A p \in Clients, k \in Keys : EntryInv(p, k) /\ Kept(p, k)
    BY Entries DEF SobInv, Kept
<1>2. \A p \in Clients, k \in Keys : EntryInv(p, k)'
    BY <1>1, SameEntry
<1>3. CacheInv' <=> \A p \in Clients, k \in Keys : EntryInv(p, k)'
    BY DEF CacheInv, NotOlder, EntryInv
<1> QED BY <1>2, <1>3

LEMMA FlushKeepsCache ==
    ASSUME SobType, SobInv, SobType', NEW p \in Clients, NEW K, NEW v, FlushStep(p, K, v),
           UNCHANGED serverVars,
           \A u \in Threads : pc[u] = "fetch" => pc'[u] = "fetch" /\ key'[u] = key[u]
    PROVE  CacheInv'
<1>0. /\ CacheType /\ K \in SUBSET Keys /\ v \in [Keys -> Versions] /\ Note(p, K, v)
      /\ \A q \in Clients, k \in Keys :
            cache'[q][k] = IF q = p /\ k \in K THEN None ELSE cache[q][k]
    BY DEF SobType, FlushStep
<1>1. /\ \A q \in Clients : q # p =>
            /\ flushed'[q] = flushed[q] /\ base'[q] = base[q] /\ raced'[q] = raced[q]
      /\ \A k \in Keys : k \notin K =>
            /\ flushed'[p][k] = flushed[p][k]
            /\ raced'[p][k] = raced[p][k] /\ base'[p][k] = base[p][k]
  <2>1. \A q \in Clients : q # p =>
            /\ flushed'[q] = flushed[q] /\ base'[q] = base[q] /\ raced'[q] = raced[q]
    BY <1>0, NoteFacts
  <2>2. /\ \A k \in Keys : flushed'[p][k] =
              IF k \in K /\ v[k] > flushed[p][k] THEN v[k] ELSE flushed[p][k]
        /\ \A k \in Keys : k \notin K =>
              raced'[p][k] = raced[p][k] /\ base'[p][k] = base[p][k]
    BY <1>0, NoteFacts
  <2> QED BY <2>1, <2>2
<1>2. \A k \in Keys : file[k] <= file'[k]
  <2>1. \A k \in Keys : file[k] \in Nat /\ file'[k] = file[k]
    BY Numbers DEF serverVars, SobType, ServerType
  <2> QED BY <2>1
<1>3. ASSUME NEW q \in Clients, NEW k \in Keys PROVE EntryInv(q, k)'
  <2>1. CASE q = p /\ k \in K
    BY <1>0, <2>1, NoEntry
  <2>2. CASE ~(q = p /\ k \in K)
    <3>1. /\ cache'[q][k] = cache[q][k] /\ raced'[q][k] = raced[q][k]
          /\ base'[q][k] = base[q][k] /\ flushed'[q][k] = flushed[q][k]
      BY <1>0, <1>1, <2>2
    <3>2. EntryInv(q, k) /\ Kept(q, k)
      BY Entries DEF SobInv, Kept
    <3> QED BY <1>2, <3>1, <3>2, SameEntry
  <2> QED BY <2>1, <2>2
<1>4. CacheInv' <=> \A q \in Clients, k \in Keys : EntryInv(q, k)'
    BY DEF CacheInv, NotOlder, EntryInv
<1> QED BY <1>3, <1>4

\* SobGetFile makes an entry, and its thread fetches it.
LEMMA GetKeepsCache ==
    ASSUME SobType, SobInv, SobType', NEW t \in Threads, NEW k \in Keys,
           SobGetFile(t, k)
    PROVE  CacheInv'
<1>0. ThreadType /\ CacheType
    BY DEF SobType
<1>1. PICK p \in Clients : p = Home[t]
    BY SobAssumption
<1>2. pc[t] = "idle" /\ UNCHANGED <<file, flushed, base, raced>>
    BY DEF SobGetFile, serverVars
<1>3. \A u \in Threads : pc[u] = "fetch" => pc'[u] = "fetch" /\ key'[u] = key[u]
    BY <1>0, <1>2 DEF SobGetFile, ThreadType
<1>4. \A j \in Keys : file[j] <= file'[j]
  <2>1. \A j \in Keys : file[j] \in Nat /\ file'[j] = file[j]
    BY <1>2, Numbers DEF SobType, ServerType
  <2> QED BY <2>1
<1>5. CASE UNCHANGED cache
    BY <1>2, <1>3, <1>4, <1>5, OthersKeepCache
<1>6. CASE /\ cache' = [cache EXCEPT ![p][k] = Pending]
           /\ pc' = [pc EXCEPT ![t] = "fetch"] /\ key' = [key EXCEPT ![t] = k]
  <2>1. Pending \in Versions \cup {None, Pending} /\ SetsEntry(p, k, Pending)
    BY <1>6 DEF SetsEntry
  <2>2. /\ cache'[p][k] = Pending
        /\ \A q \in Clients, j \in Keys : q # p \/ j # k => cache'[q][j] = cache[q][j]
    BY <1>0, <2>1, SetEntry, Zenon
  <2>3. EntryInv(p, k)'
    <3>1. Fetching(p, k)'
      BY <1>0, <1>1, <1>6 DEF Fetching, ThreadType
    <3> QED BY <2>2, <3>1, Numbers DEF EntryInv
  <2>4. ASSUME NEW q \in Clients, NEW j \in Keys, q # p \/ j # k PROVE EntryInv(q, j)'
    <3>1. EntryInv(q, j) /\ Kept(q, j)
      BY <1>3, Entries DEF SobInv, Kept
    <3> QED BY <1>2, <1>4, <2>2, <2>4, <3>1, SameEntry
  <2>5. CacheInv' <=> \A q \in Clients, j \in Keys : EntryInv(q, j)'
    BY DEF CacheInv, NotOlder, EntryInv
  <2> QED BY <2>3, <2>4, <2>5
<1> QED BY <1>1, <1>5, <1>6 DEF SobGetFile

\* The fetch ends: its entry has the value that was read, or is gone.
LEMMA FetchKeepsCache ==
    ASSUME SobType, SobInv, SobType', NEW t \in Threads, FetchOk(t) \/ FetchFail(t)
    PROVE  CacheInv'
<1>0. ThreadType /\ CacheType /\ ThreadInv
    BY DEF SobType, SobInv
<1>1. PICK p \in Clients, k \in Keys : p = Home[t] /\ k = key[t]
    BY <1>0, SobAssumption DEF ThreadType
<1>2. pc[t] = "fetch" /\ UNCHANGED <<file, flushed, raced>> /\ Return(t)
    BY DEF FetchOk, FetchFail, serverVars
<1>3. \A j \in Keys : file[j] <= file'[j]
  <2>1. \A j \in Keys : file[j] \in Nat /\ file'[j] = file[j]
    BY <1>2, Numbers DEF SobType, ServerType
  <2> QED BY <2>1
<1>4. PICK e : /\ e = None \/ (e = val[t] /\ val[t] # None)
               /\ SetsEntry(p, k, e)
               /\ e # None => base' = [base EXCEPT ![p][k] = floor[t]]
               /\ e = None => base' = base
    BY <1>1 DEF FetchOk, FetchFail, AfterFail, SetsEntry
<1>5. e \in Versions \cup {None, Pending}
    BY <1>0, <1>4 DEF ThreadType
<1>6. /\ cache'[p][k] = e
      /\ \A q \in Clients, j \in Keys : q # p \/ j # k => cache'[q][j] = cache[q][j]
    BY <1>0, <1>4, <1>5, SetEntry, Zenon
<1>7. /\ \A q \in Clients, j \in Keys : q # p \/ j # k => base'[q][j] = base[q][j]
      /\ e # None => base'[p][k] = floor[t]
    BY <1>0, <1>4 DEF CacheType
<1>8. ASSUME NEW q \in Clients, NEW j \in Keys, q # p \/ j # k PROVE EntryInv(q, j)'
  <2>1. Kept(q, j)
    <3>1. ASSUME NEW u \in Threads, Home[u] = q, pc[u] = "fetch", key[u] = j
          PROVE  pc'[u] = "fetch" /\ key'[u] = j
      <4>1. u # t
        BY <1>1, <1>8, <3>1
      <4> QED BY <1>0, <1>2, <3>1, <4>1, ReturnType
    <3> QED BY <3>1 DEF Kept
  <2>2. EntryInv(q, j)
    BY Entries DEF SobInv
  <2>3. /\ cache'[q][j] = cache[q][j] /\ base'[q][j] = base[q][j]
        /\ raced'[q][j] = raced[q][j] /\ flushed'[q][j] = flushed[q][j]
    BY <1>2, <1>6, <1>7, <1>8
  <2> QED BY <1>3, <2>1, <2>2, <2>3, SameEntry
<1>9. EntryInv(p, k)'
  <2>1. CASE e = None
    BY <1>6, <2>1, NoEntry
  <2>2. CASE e # None
    <3>1. /\ cache'[p][k] = val[t] /\ val[t] # None /\ base'[p][k] = floor[t]
      BY <1>4, <1>6, <1>7, <2>2
    <3>2. val[t] \in Versions /\ val[t] \in Nat /\ val[t] # Pending
      <4>1. val[t] \in Versions
        BY <1>0, <3>1 DEF ThreadType
      <4> QED BY <4>1, Numbers
    <3>3. /\ floor[t] <= val[t] /\ val[t] <= file[k]
          /\ ~raced[p][k] => floor[t] = flushed[p][k]
      BY <1>0, <1>1, <1>2, <3>1 DEF ThreadInv, FetchInv
    <3>4. floor[t] \in Nat
      BY <1>0, Numbers DEF ThreadType
    <3>5. val[t] >= floor[t] /\ (~raced[p][k] => val[t] >= flushed[p][k])
      BY <3>2, <3>3, <3>4
    <3> QED BY <1>2, <3>1, <3>2, <3>3, <3>5 DEF EntryInv
  <2> QED BY <2>1, <2>2
<1>10. CacheInv' <=> \A q \in Clients, j \in Keys : EntryInv(q, j)'
    BY DEF CacheInv, NotOlder, EntryInv
<1> QED BY <1>8, <1>9, <1>10

-----------------------------------------------------------------------------
(* The invariant.                                                          *)

LEMMA InitInv == Init => SobInv
<1> SUFFICES ASSUME Init PROVE SobInv
    OBVIOUS
<1>1. \A w \in Writes : wst[w] = "new"
    BY DEF Init
<1>2. Asked = {} /\ Made = {}
    BY <1>1 DEF Asked, Made
<1>3. WriteInv
  <2>1. NextWrite = 1 /\ nver = Cardinality(Made)
    <3>1. Cardinality(Asked) = 0 /\ Cardinality(Made) = 0
      BY <1>2, FS_EmptySet
    <3>2. NextWrite = Cardinality(Asked) + 1 /\ nver = 0
      BY AskedFacts DEF Init
    <3> QED BY <3>1, <3>2
  <2>2. \A w \in Writes : ~(w < 1)
    BY Numbers DEF Writes
  <2> QED BY <1>1, <2>1, <2>2 DEF WriteInv
<1>4. ServerInv
    BY <1>1, <1>2 DEF ServerInv, Init, LogInit
<1>5. FlushInv
    BY DEF FlushInv, Init, LogInit
<1>6. GivenInv
    BY DEF GivenInv, Init, LogInit
<1>7. ThreadInv
    BY DEF ThreadInv, FetchInv, WriterInv, Init
<1>8. CacheInv
    BY Numbers DEF CacheInv, NotOlder, Init
<1> QED BY <1>3, <1>4, <1>5, <1>6, <1>7, <1>8 DEF SobInv

\* The steps that leave the server alone.
LEMMA SameServer ==
    ASSUME SobInv, UNCHANGED <<serverVars, length>>
    PROVE  WriteInv' /\ ServerInv'
<1>1. UNCHANGED <<file, nver, wkey, wst, wver, fcache, body>>
    BY DEF serverVars
<1>2. Made' = Made /\ NextWrite' = NextWrite
    BY <1>1 DEF Made, NextWrite
<1> QED BY <1>1, <1>2 DEF SobInv, WriteInv, ServerInv

\* The steps that leave the flushes alone.
LEMMA SameFlushes ==
    ASSUME SobInv, UNCHANGED <<serverVars, connVars, logVars, flushed>>
    PROVE  FlushInv' /\ GivenInv'
<1>1. UNCHANGED <<file, fcache, body, conn, lost, length, given, snap, flushed>>
    BY DEF serverVars, connVars, logVars
<1> QED BY <1>1 DEF SobInv, FlushInv, GivenInv, Got, LastGiven

LEMMA FileKept ==
    ASSUME SobType, UNCHANGED file PROVE \A k \in Keys : file[k] <= file'[k]
<1>1. \A k \in Keys : file[k] \in Nat /\ file'[k] = file[k]
    BY Numbers DEF SobType, ServerType
<1> QED BY <1>1

LEMMA GetInv ==
    ASSUME SobType, SobInv, SobType', NEW t \in Threads, NEW k \in Keys,
           SobGetFile(t, k) \/ FetchOk(t) \/ FetchFail(t) \/ WaitAgain(t)
              \/ WaitTimeout(t)
    PROVE  SobInv'
<1>1. UNCHANGED <<serverVars, connVars, logVars, flushed, raced, length>>
    BY DEF SobGetFile, FetchOk, FetchFail, WaitAgain, WaitTimeout, cacheVars, logVars
<1>2. WriteInv' /\ ServerInv' /\ FlushInv' /\ GivenInv'
    BY <1>1, SameServer, SameFlushes
<1>3. UNCHANGED <<file, wst, wkey>>
    BY <1>1 DEF serverVars
<1>4. CASE SobGetFile(t, k)
    BY <1>2, <1>4, GetKeepsThreads, GetKeepsCache DEF SobInv
<1>5. CASE FetchOk(t) \/ FetchFail(t)
  <2>1. Return(t)
    BY <1>5 DEF FetchOk, FetchFail
  <2> QED BY <1>1, <1>2, <1>3, <1>5, <2>1, ReturnKeepsThreads, FetchKeepsCache DEF SobInv
<1>6. CASE WaitAgain(t) \/ WaitTimeout(t)
  <2>1. /\ pc[t] = "wait" /\ UNCHANGED <<cache, flushed, base, raced>>
        /\ Return(t) \/ UNCHANGED <<pc, key, val, job, floor>>
    BY <1>6 DEF WaitAgain, WaitTimeout, cacheVars
  <2>2. \A u \in Threads : pc[u] = "fetch" => pc'[u] = "fetch" /\ key'[u] = key[u]
    BY <2>1, ReturnType DEF SobType
  <2>3. CacheInv'
    BY <1>3, <2>1, <2>2, FileKept, OthersKeepCache
  <2>4. ThreadInv'
    BY <1>1, <1>3, <2>1, FileKept, ReturnKeepsThreads, ServerKeepsThreads
  <2> QED BY <1>2, <2>3, <2>4 DEF SobInv
<1> QED BY <1>4, <1>5, <1>6

LEMMA NewWriteInv ==
    ASSUME SobType, SobInv, SobType', NEW k \in Keys,
           OtherWrite(k) \/ \E t \in Threads : Write(t, k)
    PROVE  SobInv'
<1>1. /\ NewWrite(k) /\ UNCHANGED <<file, nver, wver, fcache, body, length, given, snap>>
      /\ UNCHANGED <<cache, flushed, base, raced, connVars>>
    BY DEF OtherWrite, Write, cacheVars, logVars
<1>2. WriteInv' /\ ServerInv'
    BY <1>1, NewWriteKeepsWrites, NewWriteKeepsServer DEF SobInv
<1>3. FlushInv' /\ GivenInv'
    BY <1>1, FileKept, ServerKeepsFlush
<1>4. CASE OtherWrite(k)
  <2>1. UNCHANGED <<pc, key, val, job, floor>>
    BY <1>4 DEF OtherWrite, threadVars
  <2>2. \A w \in Writes : wst[w] # "new" => wst'[w] # "new" /\ wkey'[w] = wkey[w]
    BY <1>1, NewWriteKeepsRequests DEF SobInv
  <2>3. ThreadInv'
    BY <1>1, <2>1, <2>2, FileKept, ServerKeepsThreads
  <2>4. CacheInv'
    BY <1>1, <2>1, FileKept, OthersKeepCache
  <2> QED BY <1>2, <1>3, <2>3, <2>4 DEF SobInv
<1>5. ASSUME NEW t \in Threads, Write(t, k) PROVE SobInv'
  <2>1. ThreadInv'
    BY <1>5, WriteKeepsThreads
  <2>2. pc[t] = "idle" /\ pc' = [pc EXCEPT ![t] = "write"] /\ key' = [key EXCEPT ![t] = k]
    BY <1>5 DEF Write
  <2>3. \A u \in Threads : pc[u] = "fetch" => pc'[u] = "fetch" /\ key'[u] = key[u]
    BY <2>2 DEF SobType, ThreadType
  <2>4. CacheInv'
    BY <1>1, <2>3, FileKept, OthersKeepCache
  <2> QED BY <1>2, <1>3, <2>1, <2>4 DEF SobInv
<1> QED BY <1>4, <1>5

LEMMA ServerStepInv ==
    ASSUME SobType, SobInv, SobType', NEW w \in Writes,
           WriteFile(w) \/ WriteFails(w) \/ NfsFlush(w)
    PROVE  SobInv'
<1>0. WriteInv /\ ServerInv
    BY DEF SobInv
<1>1. /\ UNCHANGED <<pc, key, val, job, floor, cache, flushed, base, raced>>
      /\ UNCHANGED <<connVars, given, snap, wkey>>
    BY DEF WriteFile, WriteFails, NfsFlush, Publish, threadVars, cacheVars, logVars
<1>2. WriteInv'
    BY <1>0, ServerKeepsWrites
<1>3. \A u \in Writes : wst[u] # "new" => wst'[u] # "new" /\ wkey'[u] = wkey[u]
  <2>1. PICK s \in {"written", "done", "failed"} : wst' = [wst EXCEPT ![w] = s]
    BY DEF WriteFile, WriteFails, NfsFlush
  <2> QED BY <1>1, <2>1 DEF SobType, ServerType
<1>4. ASSUME ServerInv', \A k \in Keys : file[k] <= file'[k],
             \A k \in Keys : fcache'[k] # None =>
                fcache'[k] = file[k] \/ (fcache[k] # None /\ fcache'[k] = fcache[k]),
             length' = length \/ length' = length + 1,
             \A m \in 1..length : body'[m] = body[m]
      PROVE  SobInv'
  <2>1. FlushInv' /\ GivenInv'
    BY <1>1, <1>4, ServerKeepsFlush
  <2>2. ThreadInv'
    BY <1>1, <1>3, <1>4, ServerKeepsThreads
  <2>3. CacheInv'
    BY <1>1, <1>4, OthersKeepCache
  <2> QED BY <1>2, <1>4, <2>1, <2>2, <2>3 DEF SobInv
<1>5. CASE WriteFile(w)
  <2>1. UNCHANGED <<fcache, body, length>>
    BY <1>5 DEF WriteFile, logVars
  <2> QED BY <1>0, <1>4, <1>5, <2>1, WriteFileKeepsServer
<1>6. CASE WriteFails(w)
  <2>1. UNCHANGED <<fcache, file, body, length>>
    BY <1>6 DEF WriteFails, logVars
  <2> QED BY <1>0, <1>4, <1>6, <2>1, WriteFailsKeepsServer, FileKept
<1>7. CASE NfsFlush(w)
  <2>1. UNCHANGED file
    BY <1>7 DEF NfsFlush
  <2>2. ServerInv' /\ \A k \in Keys : fcache'[k] # None => fcache'[k] = fcache[k]
    BY <1>0, <1>7, NfsFlushKeepsServer
  <2>3. \A k \in Keys : fcache'[k] # None =>
                fcache'[k] = file[k] \/ (fcache[k] # None /\ fcache'[k] = fcache[k])
    BY <2>2
  <2>4. \A k \in Keys : file[k] <= file'[k]
    BY <2>1, FileKept
  <2>5. /\ length' = length \/ length' = length + 1
        /\ \A m \in 1..length : body'[m] = body[m]
    BY <1>7, FlushGrowsBody
  <2> QED BY <1>4, <2>2, <2>3, <2>4, <2>5
<1> QED BY <1>5, <1>6, <1>7

LEMMA ReadInv ==
    ASSUME SobType, SobInv, SobType', NEW t \in Threads, NfsReadFile(t)
    PROVE  SobInv'
<1>1. /\ UNCHANGED <<file, nver, wst, wkey, body, pc, key>>
      /\ UNCHANGED <<cache, flushed, base, raced, connVars, given, snap, length>>
    BY DEF NfsReadFile, cacheVars, logVars
<1>2. WriteInv'
  <2>1. Made' = Made /\ NextWrite' = NextWrite
    BY <1>1 DEF Made, NextWrite
  <2> QED BY <1>1, <2>1 DEF SobInv, WriteInv
<1>3. /\ ServerInv'
      /\ \A k \in Keys : fcache'[k] # None =>
            fcache'[k] = file[k] \/ (fcache[k] # None /\ fcache'[k] = fcache[k])
    BY ReadKeepsServer DEF SobInv
<1>4. FlushInv' /\ GivenInv'
    BY <1>1, <1>3, FileKept, ServerKeepsFlush
<1>5. ThreadInv'
    BY ReadKeepsThreads
<1>6. CacheInv'
    BY <1>1, FileKept, OthersKeepCache
<1> QED BY <1>2, <1>3, <1>4, <1>5, <1>6 DEF SobInv

LEMMA WriteReturnsInv ==
    ASSUME SobType, SobInv, SobType', NEW t \in Threads, NEW kind \in Kinds, NEW ok \in BOOLEAN,
           WriteReturns(t, kind, ok)
    PROVE  SobInv'
<1>0. ThreadType /\ ThreadInv /\ Home[t] \in Clients
    BY SobAssumption DEF SobType, SobInv
<1>1. /\ UNCHANGED <<serverVars, connVars, logVars, file, wst, wkey, length>>
      /\ pc[t] = "write" /\ Return(t)
    BY DEF WriteReturns, serverVars, logVars
<1>2. WriteInv' /\ ServerInv'
    BY <1>1, SameServer
<1>3. /\ \A u \in Threads : u # t => Same(u)
      /\ pc'[t] = "idle" /\ val'[t] = None
    BY <1>0, <1>1, ReturnType DEF Same, Return, ThreadType
<1>4. \A u \in Threads : pc[u] = "fetch" => pc'[u] = "fetch" /\ key'[u] = key[u]
    BY <1>1, <1>3 DEF Same
<1>5. CASE UNCHANGED cacheVars
  <2>1. UNCHANGED <<cache, flushed, base, raced>>
    BY <1>5 DEF cacheVars
  <2>2. FlushInv' /\ GivenInv'
    BY <1>1, <2>1, SameFlushes
  <2>3. ThreadInv'
    BY <1>1, <2>1, ReturnKeepsThreads
  <2>4. CacheInv'
    BY <1>1, <1>4, <2>1, FileKept, OthersKeepCache
  <2> QED BY <1>2, <2>2, <2>3, <2>4 DEF SobInv
<1>6. ASSUME NEW K, NEW v, FlushStep(Home[t], K, v) PROVE SobInv'
  <2>1. FlushInv'
    BY <1>0, <1>1, <1>6, ReturnKeepsFlush DEF SobInv
  <2>2. GivenInv'
    BY <1>1 DEF SobInv, GivenInv, LastGiven, connVars, logVars
  <2>3. ThreadInv'
    BY <1>0, <1>1, <1>3, <1>6, FlushKeepsThreads
  <2>4. CacheInv'
    BY <1>0, <1>1, <1>4, <1>6, FlushKeepsCache
  <2> QED BY <1>2, <2>1, <2>2, <2>3, <2>4 DEF SobInv
<1> QED BY <1>5, <1>6, ReturnFlushes

LEMMA RecvInv ==
    ASSUME SobType, SobInv, SobType', NEW p \in Clients, Recv(p)
    PROVE  SobInv'
<1>0. ~lost[p]
    BY DEF Recv
<1>1. UNCHANGED <<serverVars, pc, key, val, job, floor, length>>
    BY DEF Recv, NcfRecvInit, NcfRecvKey, Deliver
<1>2. WriteInv' /\ ServerInv'
    BY <1>1, SameServer
<1>3. FlushInv' /\ GivenInv'
    BY RecvKeepsFlush
<1>4. PICK K, v : FlushStep(p, K, v)
  <2>1. CASE NcfRecvInit(p)
    BY <1>0, <2>1, RecvInitFlushes
  <2>2. CASE \E m \in Msgs : NcfRecvKey(p, m)
    BY <2>2, RecvKeyFlushes
  <2> QED BY <2>1, <2>2 DEF Recv
<1>5. ThreadInv'
  <2>1. \A u \in Threads : Same(u)
    BY <1>1 DEF Same
  <2> QED BY <1>1, <1>4, <2>1, FlushKeepsThreads
<1>6. CacheInv'
    BY <1>1, <1>4, FlushKeepsCache
<1> QED BY <1>2, <1>3, <1>5, <1>6 DEF SobInv

LEMMA ConnectInv ==
    ASSUME SobType, SobInv, SobType', NEW p \in Clients, Connect(p) \/ Lose(p)
    PROVE  SobInv'
<1>1. /\ UNCHANGED <<serverVars, length, file, wst, wkey>>
      /\ UNCHANGED <<pc, key, val, job, floor, cache, flushed, base, raced>>
    BY DEF Connect, Lose, Snapshot, serverVars, threadVars, cacheVars, logVars
<1>2. WriteInv' /\ ServerInv' /\ FlushInv' /\ GivenInv'
    BY <1>1, SameServer, ConnectKeepsFlush
<1>3. ThreadInv'
    BY <1>1, FileKept, ServerKeepsThreads
<1>4. CacheInv'
    BY <1>1, FileKept, OthersKeepCache
<1> QED BY <1>2, <1>3, <1>4 DEF SobInv

LEMMA StepInv == SobType /\ SobInv /\ SobType' /\ [Next]_vars => SobInv'
<1> SUFFICES ASSUME SobType, SobInv, SobType', [Next]_vars PROVE SobInv'
    OBVIOUS
<1>1. ASSUME NEW t \in Threads, NEW k \in Keys, SobGetFile(t, k)
      PROVE  SobInv'
    BY <1>1, GetInv
<1>2. ASSUME NEW t \in Threads,
             FetchOk(t) \/ FetchFail(t) \/ WaitAgain(t) \/ WaitTimeout(t)
      PROVE  SobInv'
    BY <1>2, GetInv, Numbers
<1>3. ASSUME NEW t \in Threads, NfsReadFile(t)
      PROVE  SobInv'
    BY <1>3, ReadInv
<1>4. ASSUME NEW k \in Keys, OtherWrite(k) \/ \E t \in Threads : Write(t, k)
      PROVE  SobInv'
    BY <1>4, NewWriteInv
<1>5. ASSUME NEW t \in Threads, NEW kind \in Kinds, NEW ok \in BOOLEAN,
             WriteReturns(t, kind, ok)
      PROVE  SobInv'
    BY <1>5, WriteReturnsInv
<1>6. ASSUME NEW w \in Writes, WriteFile(w) \/ WriteFails(w) \/ NfsFlush(w)
      PROVE  SobInv'
    BY <1>6, ServerStepInv
<1>7. ASSUME NEW p \in Clients, Connect(p) \/ Lose(p)
      PROVE  SobInv'
    BY <1>7, ConnectInv
<1>8. ASSUME NEW p \in Clients, Recv(p)
      PROVE  SobInv'
    BY <1>8, RecvInv
<1>9. CASE UNCHANGED vars
  <2>1. /\ UNCHANGED <<serverVars, connVars, logVars, length, file, wst, wkey>>
        /\ UNCHANGED <<pc, key, val, job, floor, cache, flushed, base, raced>>
    BY <1>9 DEF vars, serverVars, threadVars, cacheVars, logVars
  <2>2. WriteInv' /\ ServerInv' /\ FlushInv' /\ GivenInv'
    BY <2>1, SameServer, SameFlushes
  <2>3. ThreadInv' /\ CacheInv'
    BY <2>1, FileKept, ServerKeepsThreads, OthersKeepCache
  <2> QED BY <2>2, <2>3 DEF SobInv
<1>10. Writers \subseteq Threads
    BY SobAssumption
<1> QED BY <1>1, <1>2, <1>3, <1>4, <1>5, <1>6, <1>7, <1>8, <1>9, <1>10
       DEF Next, Server

\* The types and the invariant hold in every state.
LEMMA SobInvariant == Spec => [](SobType /\ SobInv)
<1>1. Init => SobType /\ SobInv
    BY InitType, InitInv
<1>2. SobType /\ SobInv /\ [Next]_vars => (SobType /\ SobInv)'
    BY StepType, StepInv
<1> QED BY <1>1, <1>2, PTL DEF Spec

-----------------------------------------------------------------------------
(* The theorems.                                                           *)

\* The types, and that an entry without a value has a thread that will fill or
\* flush it.
THEOREM SobTypeCorrect == Spec => []TypeOK
<1>1. SobType /\ SobInv => TypeOK
  <2> SUFFICES ASSUME SobType, SobInv PROVE TypeOK
    OBVIOUS
  <2>1. \A p \in Clients, k \in Keys : cache[p][k] = Pending =>
           \E t \in Threads : Home[t] = p /\ pc[t] = "fetch" /\ key[t] = k
    BY DEF SobInv, CacheInv, Fetching
  <2> QED BY <2>1 DEF SobType, ServerType, ThreadType, CacheType, ConnType, TypeOK
<1> QED BY <1>1, SobInvariant, PTL

\* A cached value is never older than the last write its process has flushed
\* the cache for; if that flush overtook a fetch, than the flush before the
\* fetch.
THEOREM NeverOlder == Spec => []NotOlder
<1>1. SobInv => NotOlder
    BY DEF SobInv, CacheInv
<1> QED BY <1>1, SobInvariant, PTL

\* The flush of the last write of a file has come with the others, so that a
\* value no flush has raced with is the file.
LEMMA DeliveredFresh ==
    ASSUME SobType, SobInv, NEW p \in Clients, NEW k \in Keys, Delivered(p),
           cache[p][k] \in Versions, ~raced[p][k],
           \A w \in Writes : wkey[w] = k => wst[w] # "written"
    PROVE  cache[p][k] = file[k]
<1>1. /\ cache[p][k] \in Nat /\ file[k] \in Nat /\ flushed[p][k] \in Nat
      /\ cache[p][k] <= file[k] /\ cache[p][k] >= flushed[p][k]
  <2>1. file[k] \in Versions /\ flushed[p][k] \in Versions
    BY DEF SobType, ServerType, CacheType
  <2>2. cache[p][k] <= file[k] /\ cache[p][k] >= flushed[p][k]
    BY DEF SobInv, CacheInv, NotOlder
  <2> QED BY <2>1, <2>2, Numbers
<1>2. CASE file[k] = 0
    BY <1>1, <1>2
<1>3. CASE file[k] # 0
  <2>1. PICK w \in Made : wkey[w] = k /\ wver[w] = file[k]
    BY <1>3 DEF SobInv, ServerInv
  <2>2. w \in Writes /\ wst[w] = "done"
    BY <2>1 DEF Made
  <2>3. PICK m \in 1..length : body[m].key = k /\ body[m].ver = file[k]
    BY <2>1, <2>2 DEF SobInv, ServerInv
  <2>4. PICK c \in Conns : c = <<p, conn[p]>> /\ conn[p] >= 1
    BY Connected DEF Delivered
  <2>5. given[c] # <<>> /\ (IF LastGiven(c) = InitMsg THEN snap[c] ELSE LastGiven(c)) = length
    BY <2>4 DEF Delivered, LastGiven
  <2>6. LastGiven(c) \in Msgs \cup {InitMsg}
    <3>1. given[c] \in Seq(Msgs \cup {InitMsg})
      BY DEF SobType, ConnType
    <3>2. Len(given[c]) \in 1..Len(given[c])
      BY <2>5, <3>1
    <3> QED BY <3>1, <3>2, ElementOfSeq DEF LastGiven
  <2>7. m <= length
    OBVIOUS
  <2>8. Got(c, m)
    BY <2>5, <2>6, <2>7 DEF Got
  <2>9. body[m].ver <= flushed[p][body[m].key]
    BY <2>3, <2>4, <2>5, <2>8 DEF SobInv, FlushInv
  <2> QED BY <1>1, <2>3, <2>9
<1> QED BY <1>2, <1>3

\* When the writes of a file are done and every flush has come, a process has
\* cached the file, unless a fetch was under way when a flush came.
THEOREM StaleOnlyByRaceAlways == Spec => []StaleOnlyByRace
<1>1. SobType /\ SobInv => StaleOnlyByRace
    BY DeliveredFresh DEF StaleOnlyByRace
<1> QED BY <1>1, SobInvariant, PTL
=============================================================================
