--------------------------- MODULE RpcPool_proofs ---------------------------
(***************************************************************************)
(* Proofs about RpcPool, for every number of threads, end points,          *)
(* connections and jobs: its types, the ownership of connections and, on   *)
(* top of it, the counters (nsocks is exact, the HTTP places are never     *)
(* given back twice, the poll array of RpcAccept is large enough), the     *)
(* absence of lost wakeups, and what becomes of requests and responses.    *)
(***************************************************************************)
EXTENDS RpcPool, ListLemmas

Acquiring == {"get", "check", "dropped", "connect"}

\* Where a call of Dci_RpcRun is, and which slots of conns[] may be filled.
ThreadOK(t) ==
    /\ pc[t] = "idle" => jobs[t] = <<>> /\ i[t] = 1
    /\ pc[t] # "idle" => jobs[t] \in JobLists
    /\ pc[t] \in Acquiring =>
          /\ i[t] \in 1..Njob(t)
          /\ \A j \in Slots : j > i[t] => held[t][j] = NoConn
    /\ pc[t] \in {"get", "connect"} => held[t][i[t]] = NoConn
    /\ pc[t] = "run" => i[t] = 1
    /\ pc[t] \in {"finish", "close"} =>
          /\ i[t] \in 1..(Njob(t) + 1)
          /\ \A j \in Slots : j < i[t] => held[t][j] = NoConn
    /\ pc[t] = "close" => i[t] <= Njob(t)
    /\ \A j \in Slots : j > Njob(t) => held[t][j] = NoConn
    /\ pc[t] \in {"check", "dropped", "close"} => held[t][i[t]] \in Conns

ThreadInv == \A t \in Threads : ThreadOK(t)

\* The errors of a call: those of the jobs to come are not set, and a job in
\* progress has its connection.
ErrOK(t) ==
    /\ pc[t] # "idle" => nrun[t] >= 1
    /\ pc[t] \in Acquiring \cup {"idle"} =>
          \A j \in Slots : j >= i[t] => err[t][j] = "NONE"
    /\ pc[t] \in Acquiring \cup {"run"} =>
          \A j \in Slots : err[t][j] \in Busy => held[t][j] \in Conns

ErrInv == \A t \in Threads : ErrOK(t)

\* The state of the connection in slot j of thread t.
SlotState(t, j) ==
    IF j = i[t] /\ pc[t] = "dropped" THEN "closed"
    ELSE IF j = i[t] /\ pc[t] = "close" THEN "retired" ELSE "busy"

\* A filled slot holds a connection of the job's end point that no other slot
\* holds.
HeldInv ==
    \A t \in Threads, j \in Slots : held[t][j] # NoConn =>
        /\ st[held[t][j]] = SlotState(t, j)
        /\ rpc[held[t][j]] = jobs[t][j]
        /\ \A u \in Threads, k \in Slots :
              held[u][k] = held[t][j] => u = t /\ k = j

\* The idle lists.
IdleInv ==
    \A r \in Rpcs :
        /\ IsInjective(idle[r])
        /\ \A c \in Range(idle[r]) : st[c] = "idle" /\ rpc[c] = r

\* The lists of RpcAccept: a connection its poll found readable is still to be
\* swept or closed, and in no slot of a thread.
ListenInv ==
    /\ lpc \notin {"poll", "sweep"} => scan = <<>> /\ keep = <<>>
    /\ lpc = "poll" => keep = <<>>
    /\ lpc # "sweep" => drop = {}
    /\ IsInjective(scan) /\ IsInjective(keep)
    /\ Range(scan) \cap Range(keep) = {}
    /\ \A c \in Range(scan) \cup Range(keep) : st[c] = "scan" /\ rpc[c] = lrpc
    /\ drop \cap Range(keep) = {}
    /\ \A c \in drop : /\ c \in Range(scan) \/ st[c] = "closed"
                       /\ rpc[c] = lrpc
                       /\ \A t \in Threads, j \in Slots : held[t][j] # c

OwnInv == TypeOK /\ ThreadInv /\ ErrInv /\ HeldInv /\ IdleInv /\ ListenInv

LEMMA JobListType ==
    ASSUME NEW js \in JobLists
    PROVE  /\ js \in Seq(Rpcs) /\ Len(js) \in Nat /\ Len(js) \in Slots
           /\ \A k \in 1..Len(js) : js[k] \in Rpcs
BY PoolAssumption DEF Slots

LEMMA InitOwn == Init => OwnInv
<1> SUFFICES ASSUME Init PROVE OwnInv
    OBVIOUS
<1> USE PoolAssumption DEF Init
<1>0. (CHOOSE r \in Rpcs : TRUE) \in Rpcs
    OBVIOUS
<1>1. TypeOK
  <2>1. RpcType
    BY DEF RpcType
  <2>2. ConnType
    BY <1>0 DEF ConnType, ConnStates
  <2>3. SockType
    BY DEF SockType
  <2>4. RunType
    <3>1. i \in [Threads -> 1..(MaxJobs + 1)] /\ nrun \in [Threads -> 0..MaxRuns]
      OBVIOUS
    <3>2. /\ err \in [Threads -> [Slots -> Errors]]
          /\ reply \in [Threads -> [Slots -> Requests \cup {NoReply}]]
          /\ held \in [Threads -> [Slots -> Conns \cup {NoConn}]]
      BY DEF Errors
    <3>3. /\ jobs \in [Threads -> JobLists \cup {<<>>}]
          /\ timedout \in [Threads -> BOOLEAN]
          /\ pc \in [Threads -> {"idle", "get", "check", "dropped", "connect",
                                 "run", "finish", "close"}]
      OBVIOUS
    <3> QED BY <3>1, <3>2, <3>3 DEF RunType
  <2>5. ListenType
    <3>1. trigger \in BOOLEAN /\ seen \in BOOLEAN
      BY Zenon
    <3> QED BY <1>0, <3>1 DEF ListenType
  <2> QED BY <2>1, <2>2, <2>3, <2>4, <2>5 DEF TypeOK
<1>2. ThreadInv /\ HeldInv
    BY DEF ThreadInv, ThreadOK, HeldInv, Njob, Slots, Acquiring
<1>3. IdleInv
    BY EmptyList DEF IdleInv
<1>4. ListenInv
    BY EmptyList DEF ListenInv
<1>5. ErrInv
    BY DEF ErrInv, ErrOK, Busy, Acquiring
<1> QED BY <1>1, <1>2, <1>3, <1>4, <1>5 DEF OwnInv

-----------------------------------------------------------------------------
(* Steps that leave a group of variables alone.                            *)

LEMMA TypeFrame ==
    /\ RpcType /\ UNCHANGED rpcVars => RpcType'
    /\ ConnType /\ UNCHANGED connVars => ConnType'
    /\ SockType /\ UNCHANGED sockVars => SockType'
    /\ RunType /\ UNCHANGED runVars => RunType'
    /\ ListenType /\ UNCHANGED listenVars => ListenType'
<1>1. RpcType /\ UNCHANGED rpcVars => RpcType'
    BY DEF RpcType, rpcVars
<1>2. ConnType /\ UNCHANGED connVars => ConnType'
    BY DEF ConnType, connVars
<1>3. SockType /\ UNCHANGED sockVars => SockType'
    BY DEF SockType, sockVars
<1>4. RunType /\ UNCHANGED runVars => RunType'
    BY DEF RunType, runVars
<1>5. ListenType /\ UNCHANGED listenVars => ListenType'
    BY DEF ListenType, listenVars
<1> QED BY <1>1, <1>2, <1>3, <1>4, <1>5

\* The job an acquiring call is at.
LEMMA AcquiringFacts ==
    ASSUME OwnInv, NEW t \in Threads, pc[t] \in Acquiring
    PROVE  /\ jobs[t] \in JobLists /\ i[t] \in 1..Njob(t) /\ i[t] \in Slots
           /\ Njob(t) \in Slots /\ R(t) \in Rpcs
BY JobListType, PoolAssumption
   DEF OwnInv, ThreadInv, ThreadOK, Acquiring, R, Njob, Slots

\* Another thread's step does not move this one.
LEMMA OtherThread ==
    ASSUME ThreadInv, NEW t \in Threads, NEW u \in Threads \ {t},
           pc'[u] = pc[u], i'[u] = i[u], jobs'[u] = jobs[u], held'[u] = held[u]
    PROVE  ThreadOK(u)'
BY DEF ThreadInv, ThreadOK, Njob

LEMMA OtherErr ==
    ASSUME ErrInv, NEW t \in Threads, ErrOK(t)',
           \A u \in Threads \ {t} :
              /\ pc'[u] = pc[u] /\ i'[u] = i[u] /\ nrun'[u] = nrun[u]
              /\ err'[u] = err[u] /\ held'[u] = held[u]
    PROVE  ErrInv'
<1> SUFFICES ASSUME NEW u \in Threads \ {t} PROVE ErrOK(u)'
    BY DEF ErrInv
<1> QED BY DEF ErrInv, ErrOK

\* What the connections in the slots need: the five ways a step can change
\* the slots and the states of the connections in them.
LEMMA HeldFrame ==
    ASSUME OwnInv, NEW t \in Threads, held' = held, st' = st, rpc' = rpc,
           \A u \in Threads \ {t} : pc'[u] = pc[u] /\ i'[u] = i[u] /\ jobs'[u] = jobs[u],
           pc[t] \notin {"dropped", "close"}, pc'[t] \notin {"dropped", "close"},
           \A j \in Slots : held[t][j] # NoConn => jobs'[t][j] = jobs[t][j]
    PROVE  HeldInv'
<1> SUFFICES ASSUME NEW u \in Threads, NEW j \in Slots, held[u][j] # NoConn
             PROVE  /\ st[held[u][j]] = SlotState(u, j)'
                    /\ rpc[held[u][j]] = jobs'[u][j]
                    /\ \A v \in Threads, k \in Slots :
                          held[v][k] = held[u][j] => v = u /\ k = j
    BY DEF HeldInv
<1>1. SlotState(u, j)' = SlotState(u, j)
    BY DEF SlotState
<1>2. jobs'[u][j] = jobs[u][j]
    OBVIOUS
<1> QED BY <1>1, <1>2 DEF OwnInv, HeldInv

LEMMA HeldAcquire ==
    ASSUME OwnInv, NEW t \in Threads, NEW c \in Conns, i[t] \in Slots,
           held' = [held EXCEPT ![t][i[t]] = c],
           st[c] \in {"idle", "free"}, st' = [st EXCEPT ![c] = "busy"],
           rpc' = [rpc EXCEPT ![c] = R(t)], jobs' = jobs,
           \A u \in Threads \ {t} : pc'[u] = pc[u] /\ i'[u] = i[u],
           pc[t] \notin {"dropped", "close"}, pc'[t] \notin {"dropped", "close"}
    PROVE  HeldInv'
<1> USE PoolAssumption DEF OwnInv, TypeOK
<1> SUFFICES ASSUME NEW u \in Threads, NEW j \in Slots, held'[u][j] # NoConn
             PROVE  /\ st'[held'[u][j]] = SlotState(u, j)'
                    /\ rpc'[held'[u][j]] = jobs'[u][j]
                    /\ \A v \in Threads, k \in Slots :
                          held'[v][k] = held'[u][j] => v = u /\ k = j
    BY Zenon DEF HeldInv
<1>1. \A v \in Threads, k \in Slots : held[v][k] # c
    BY DEF HeldInv, SlotState
<1>2. CASE u = t /\ j = i[t]
    BY <1>1, <1>2 DEF SlotState, R, RunType, ConnType
<1>3. CASE ~(u = t /\ j = i[t])
  <2>1. held'[u][j] = held[u][j] /\ held[u][j] # c /\ held[u][j] \in Conns
    BY <1>1, <1>3 DEF RunType
  <2>2. SlotState(u, j)' = SlotState(u, j)
    BY <1>3 DEF SlotState, RunType
  <2> QED BY <2>1, <2>2, <1>1 DEF HeldInv, RunType, ConnType
<1> QED BY <1>2, <1>3

LEMMA HeldMark ==
    ASSUME OwnInv, NEW t \in Threads, i[t] \in Slots, Cur(t) \in Conns,
           held' = held, rpc' = rpc, jobs' = jobs, i' = i,
           NEW s, st' = [st EXCEPT ![Cur(t)] = s],
           NEW p, pc' = [pc EXCEPT ![t] = p],
           \/ p = "dropped" /\ s = "closed"
           \/ p = "close" /\ s = "retired",
           pc[t] \notin {"dropped", "close"}
    PROVE  HeldInv'
<1> USE PoolAssumption DEF OwnInv, TypeOK
<1> SUFFICES ASSUME NEW u \in Threads, NEW j \in Slots, held'[u][j] # NoConn
             PROVE  /\ st'[held'[u][j]] = SlotState(u, j)'
                    /\ rpc'[held'[u][j]] = jobs'[u][j]
                    /\ \A v \in Threads, k \in Slots :
                          held'[v][k] = held'[u][j] => v = u /\ k = j
    BY Zenon DEF HeldInv
<1>1. CASE u = t /\ j = i[t]
  <2>1. st'[held[u][j]] = s /\ pc'[t] = p
    BY <1>1 DEF Cur, RunType, ConnType
  <2>2. SlotState(u, j)' = s
    BY <2>1, <1>1 DEF SlotState
  <2> QED BY <2>1, <2>2 DEF HeldInv
<1>2. CASE ~(u = t /\ j = i[t])
  <2>1. held[u][j] # Cur(t) /\ held[u][j] \in Conns
    BY <1>2 DEF HeldInv, Cur, RunType
  <2>2. SlotState(u, j)' = SlotState(u, j)
    BY <1>2 DEF SlotState, RunType
  <2> QED BY <2>1, <2>2 DEF HeldInv, ConnType
<1> QED BY <1>1, <1>2

LEMMA HeldRelease ==
    ASSUME OwnInv, NEW t \in Threads, i[t] \in Slots, Cur(t) \in Conns,
           held' = [held EXCEPT ![t][i[t]] = NoConn], rpc' = rpc, jobs' = jobs,
           NEW s, st' = [st EXCEPT ![Cur(t)] = s],
           \A u \in Threads \ {t} : pc'[u] = pc[u] /\ i'[u] = i[u],
           pc'[t] \notin {"dropped", "close"}
    PROVE  HeldInv'
<1> USE PoolAssumption DEF OwnInv, TypeOK
<1> SUFFICES ASSUME NEW u \in Threads, NEW j \in Slots, held'[u][j] # NoConn
             PROVE  /\ st'[held'[u][j]] = SlotState(u, j)'
                    /\ rpc'[held'[u][j]] = jobs'[u][j]
                    /\ \A v \in Threads, k \in Slots :
                          held'[v][k] = held'[u][j] => v = u /\ k = j
    BY Zenon DEF HeldInv
<1>1. ~(u = t /\ j = i[t]) /\ held'[u][j] = held[u][j] /\ held[u][j] \in Conns
    BY DEF RunType
<1>2. held[u][j] # Cur(t)
    BY <1>1 DEF HeldInv, Cur
<1>3. SlotState(u, j)' = SlotState(u, j)
    BY <1>1 DEF SlotState, RunType
<1>4. \A v \in Threads, k \in Slots : held'[v][k] \in {held[v][k], NoConn}
    BY DEF RunType
<1> QED BY <1>1, <1>2, <1>3, <1>4 DEF HeldInv, ConnType

LEMMA HeldListen ==
    ASSUME OwnInv, UNCHANGED runVars,
           \A t \in Threads, j \in Slots : held[t][j] # NoConn =>
              st'[held[t][j]] = st[held[t][j]] /\ rpc'[held[t][j]] = rpc[held[t][j]]
    PROVE  HeldInv'
BY DEF OwnInv, HeldInv, SlotState, runVars

\* The idle lists and RpcAccept's lists, under a step of a thread that leaves
\* the lists alone and changes the state of its own connection only.
LEMMA IdleFrame ==
    ASSUME IdleInv, idle' = idle,
           \A c \in Conns : st[c] = "idle" => st'[c] = st[c] /\ rpc'[c] = rpc[c],
           RpcType
    PROVE  IdleInv'
<1> SUFFICES ASSUME NEW r \in Rpcs
             PROVE  /\ IsInjective(idle[r])
                    /\ \A c \in Range(idle[r]) : st'[c] = "idle" /\ rpc'[c] = r
    BY DEF IdleInv
<1>1. Range(idle[r]) \subseteq Conns
    BY RangeOfSeq DEF RpcType
<1> QED BY <1>1 DEF IdleInv

LEMMA ListenFrame ==
    ASSUME OwnInv, UNCHANGED listenVars,
           \A c \in Conns :
              st[c] = "scan" \/ c \in drop => st'[c] = st[c] /\ rpc'[c] = rpc[c],
           \A c \in drop, u \in Threads, k \in Slots : held'[u][k] # c
    PROVE  ListenInv'
<1>1. Range(scan) \subseteq Conns /\ Range(keep) \subseteq Conns /\ drop \subseteq Conns
    BY RangeOfSeq DEF OwnInv, TypeOK, ListenType
<1> QED BY <1>1 DEF OwnInv, ListenInv, listenVars

LEMMA HeldFacts ==
    ASSUME OwnInv, NEW t \in Threads, NEW j \in Slots, held[t][j] # NoConn
    PROVE  held[t][j] \in Conns /\ st[held[t][j]] \in {"busy", "closed", "retired"}
<1>1. held[t][j] \in Conns
    BY DEF OwnInv, TypeOK, RunType
<1>2. st[held[t][j]] = SlotState(t, j)
    BY DEF OwnInv, HeldInv
<1> QED BY <1>1, <1>2 DEF SlotState

\* Connections RpcAccept found readable are not a thread's.
LEMMA DropFacts ==
    ASSUME OwnInv, NEW c \in drop
    PROVE  st[c] \in {"scan", "closed"} /\ \A u \in Threads, k \in Slots : held[u][k] # c
BY DEF OwnInv, ListenInv

-----------------------------------------------------------------------------
(* The two ways the acquiring loop goes on.                                *)

LEMMA NextJobOwn ==
    ASSUME OwnInv, NEW t \in Threads, pc[t] \in Acquiring, NEW e \in Errors,
           NextJob(t, e), held' \in [Threads -> [Slots -> Conns \cup {NoConn}]],
           \A u \in Threads, j \in Slots :
              ~(u = t /\ j = i[t]) => held'[u][j] = held[u][j],
           e \in Busy => held'[t][i[t]] \in Conns
    PROVE  /\ RunType' /\ ThreadInv' /\ ErrInv' /\ jobs' = jobs
           /\ pc'[t] \in {"get", "run", "finish"}
           /\ \A u \in Threads \ {t} : pc'[u] = pc[u] /\ i'[u] = i[u]
<1> USE PoolAssumption DEF TypeOK
<1>1. /\ jobs[t] \in JobLists /\ i[t] \in 1..Njob(t) /\ i[t] \in Slots
      /\ Njob(t) \in Slots
    BY AcquiringFacts
<1>2. /\ jobs' = jobs /\ reply' = reply /\ nrun' = nrun
      /\ pc' \in [Threads -> {"idle", "get", "check", "dropped", "connect",
                              "run", "finish", "close"}]
      /\ timedout' \in [Threads -> BOOLEAN]
    BY DEF NextJob, OwnInv, RunType
<1>3. i' \in [Threads -> 1..(MaxJobs + 1)]
    BY <1>1 DEF NextJob, OwnInv, RunType, Slots
<1>4. err' \in [Threads -> [Slots -> Errors]]
  <2>1. "ENOCONN" \in Errors
    BY DEF Errors
  <2> QED BY <1>1, <2>1 DEF NextJob, OwnInv, RunType
<1>5. RunType'
    BY <1>2, <1>3, <1>4 DEF RunType, OwnInv
<1>6. \A u \in Threads \ {t} : pc'[u] = pc[u] /\ i'[u] = i[u] /\ held'[u] = held[u]
  <2>1. \A u \in Threads \ {t} : held'[u] = held[u]
    BY DEF OwnInv, RunType
  <2> QED BY <2>1 DEF NextJob, OwnInv, RunType
<1>7. ThreadOK(t)'
  <2>1. CASE i[t] = Njob(t)
    <3>1. i'[t] = 1 /\ pc'[t] \in {"run", "finish"}
      BY <2>1 DEF NextJob, OwnInv, RunType
    <3>2. \A j \in Slots : j > Njob(t) => held'[t][j] = NoConn
      BY <2>1, <1>1 DEF OwnInv, ThreadInv, ThreadOK, Acquiring, Slots
    <3>3. \A j \in Slots : ~(j < 1)
      BY DEF Slots
    <3> QED BY <3>1, <3>2, <3>3, <1>1, <1>2 DEF ThreadOK, Njob, Acquiring, Slots
  <2>2. CASE i[t] # Njob(t)
    <3>1. i'[t] = i[t] + 1 /\ pc'[t] = "get"
      BY <2>2 DEF NextJob, OwnInv, RunType
    <3>2. \A j \in Slots : j > i[t] => held'[t][j] = NoConn
      BY <1>1 DEF OwnInv, ThreadInv, ThreadOK, Acquiring, Slots
    <3>3. \A j \in Slots : j > Njob(t) => held'[t][j] = NoConn
      BY <3>2, <1>1 DEF Slots
    <3>4. i'[t] \in 1..Njob(t) /\ i'[t] \in Slots /\ i'[t] > i[t]
      BY <3>1, <2>2, <1>1 DEF Slots
    <3>5. \A j \in Slots : j > i'[t] => held'[t][j] = NoConn
      BY <3>2, <3>1, <1>1 DEF Slots
    <3> QED BY <3>1, <3>2, <3>3, <3>4, <3>5, <1>1, <1>2 DEF ThreadOK, Njob, Acquiring
  <2> QED BY <2>1, <2>2
<1>8. ThreadInv'
    BY <1>2, <1>6, <1>7, OtherThread DEF ThreadInv, OwnInv
<1>9. pc'[t] \in {"get", "run", "finish"}
    BY DEF NextJob, OwnInv, RunType
<1>10. ErrOK(t)'
  <2>1. nrun[t] >= 1
    BY DEF OwnInv, ErrInv, ErrOK, Acquiring
  <2>2. \A j \in Slots : j > i[t] => err[t][j] = "NONE"
    BY <1>1 DEF OwnInv, ErrInv, ErrOK, Acquiring, Slots
  <2>3. \A j \in Slots : j # i[t] /\ err[t][j] \in Busy => held'[t][j] \in Conns
    BY DEF OwnInv, ErrInv, ErrOK, Acquiring
  <2>4. err[t] \in [Slots -> Errors]
    BY DEF OwnInv, RunType
  <2>5. CASE pc'[t] = "finish"
    BY <2>5, <2>1, <1>2 DEF ErrOK, Acquiring
  <2>6. CASE pc'[t] \in {"get", "run"}
    <3>1. err'[t] = [err[t] EXCEPT ![i[t]] = e]
      BY <2>6 DEF NextJob, OwnInv, RunType
    <3>2. \A j \in Slots : err'[t][j] \in Busy => held'[t][j] \in Conns
      BY <3>1, <2>3, <2>4
    <3>3. pc'[t] = "get" => i'[t] = i[t] + 1
      BY DEF NextJob, OwnInv, RunType
    <3>4. \A j \in Slots : j > i[t] => err'[t][j] = "NONE"
      BY <3>1, <2>2, <2>4, <1>1 DEF Slots
    <3>5. pc'[t] = "get" => \A j \in Slots : j >= i'[t] => err'[t][j] = "NONE"
      BY <3>3, <3>4, <1>1 DEF Slots
    <3> QED BY <2>6, <3>2, <3>5, <2>1, <1>2 DEF ErrOK, Acquiring
  <2> QED BY <2>5, <2>6, <1>9
<1>11. \A u \in Threads \ {t} : err'[u] = err[u]
    BY DEF NextJob, OwnInv, RunType
<1>12. ErrInv'
    BY <1>2, <1>6, <1>10, <1>11, OtherErr DEF OwnInv
<1> QED BY <1>2, <1>5, <1>6, <1>8, <1>9, <1>12

LEMMA GiveUpOwn ==
    ASSUME OwnInv, NEW t \in Threads, pc[t] \in Acquiring, GiveUp(t),
           held' \in [Threads -> [Slots -> Conns \cup {NoConn}]],
           \A u \in Threads, j \in Slots :
              ~(u = t /\ j = i[t]) => held'[u][j] = held[u][j],
           held'[t][i[t]] = NoConn
    PROVE  /\ RunType' /\ ThreadInv' /\ ErrInv' /\ jobs' = jobs
           /\ pc'[t] \in {"get", "connect", "run", "finish"}
           /\ \A u \in Threads \ {t} : pc'[u] = pc[u] /\ i'[u] = i[u]
<1>1. CASE R(t) \notin HttpRpcs
  <2>1. "ENOCONN" \in Errors /\ "ENOCONN" \notin Busy
    BY DEF Errors, Busy
  <2> QED BY <1>1, <2>1, NextJobOwn DEF GiveUp
<1>2. CASE R(t) \in HttpRpcs
  <2> USE PoolAssumption DEF TypeOK
  <2>1. /\ pc' = [pc EXCEPT ![t] = "connect"]
        /\ UNCHANGED <<jobs, i, err, reply, timedout, nrun>>
    BY <1>2 DEF GiveUp
  <2>2. RunType'
    BY <2>1 DEF OwnInv, RunType
  <2>3. \A u \in Threads \ {t} : pc'[u] = pc[u] /\ held'[u] = held[u]
    BY <2>1 DEF OwnInv, RunType
  <2>4. ThreadOK(t)'
    <3>1. pc'[t] = "connect"
      BY <2>1 DEF OwnInv, RunType
    <3>2. \A j \in Slots : j > i[t] => held'[t][j] = NoConn
      BY DEF OwnInv, ThreadInv, ThreadOK, Acquiring
    <3>3. \A j \in Slots : j > Njob(t) => held'[t][j] = NoConn
      BY <3>2, AcquiringFacts DEF Slots
    <3> QED BY <3>1, <3>2, <3>3, <2>1, AcquiringFacts DEF ThreadOK, Acquiring, Njob
  <2>5. ThreadInv'
    BY <2>1, <2>3, <2>4, OtherThread DEF ThreadInv, OwnInv
  <2>6. ErrOK(t)'
    <3>1. \A j \in Slots : j >= i[t] => err[t][j] = "NONE"
      BY DEF OwnInv, ErrInv, ErrOK, Acquiring
    <3>2. "NONE" \notin Busy /\ i[t] \in Slots
      BY AcquiringFacts DEF Busy
    <3>3. \A j \in Slots : err[t][j] \in Busy => held'[t][j] \in Conns
      BY <3>1, <3>2 DEF OwnInv, ErrInv, ErrOK, Acquiring, Slots
    <3>4. nrun[t] >= 1
      BY DEF OwnInv, ErrInv, ErrOK, Acquiring
    <3> QED BY <3>1, <3>3, <3>4, <2>1 DEF ErrOK
  <2>7. ErrInv'
    BY <2>1, <2>3, <2>6, OtherErr DEF OwnInv
  <2> QED BY <2>1, <2>2, <2>3, <2>5, <2>7 DEF OwnInv, RunType
<1> QED BY <1>1, <1>2

-----------------------------------------------------------------------------
(* Steps of the threads.                                                   *)

LEMMA ThreadFrame ==
    ASSUME ThreadInv, NEW t \in Threads, ThreadOK(t)',
           \A u \in Threads \ {t} : /\ pc'[u] = pc[u] /\ i'[u] = i[u]
                                    /\ jobs'[u] = jobs[u] /\ held'[u] = held[u]
    PROVE  ThreadInv'
BY OtherThread DEF ThreadInv

\* A step that moves no connection.
LEMMA QuietStep ==
    ASSUME OwnInv, NEW t \in Threads, held' = held, idle' = idle,
           UNCHANGED <<st, rpc, listenVars>>,
           RpcType', ConnType', SockType', RunType', ThreadInv', ErrInv',
           \A u \in Threads \ {t} : pc'[u] = pc[u] /\ i'[u] = i[u] /\ jobs'[u] = jobs[u],
           pc[t] \notin {"dropped", "close"}, pc'[t] \notin {"dropped", "close"},
           \A j \in Slots : held[t][j] # NoConn => jobs'[t][j] = jobs[t][j]
    PROVE  OwnInv'
<1>1. HeldInv'
    BY HeldFrame
<1>2. IdleInv'
    BY IdleFrame DEF OwnInv, TypeOK
<1>3. ListenInv'
    BY ListenFrame, DropFacts
<1>4. ListenType'
    BY TypeFrame DEF OwnInv, TypeOK
<1> QED BY <1>1, <1>2, <1>3, <1>4 DEF OwnInv, TypeOK

LEMMA RunStartOwn ==
    ASSUME OwnInv, NEW t \in Threads, RunStart(t)
    PROVE  OwnInv'
<1>1. /\ pc[t] = "idle" /\ UNCHANGED <<i, held, err, reply, timedout>>
      /\ UNCHANGED <<rpcVars, connVars, sockVars, listenVars>>
      /\ nrun[t] < MaxRuns
      /\ nrun' = [nrun EXCEPT ![t] = nrun[t] + 1]
      /\ pc' = [pc EXCEPT ![t] = "get"]
    BY DEF RunStart
<1>2. PICK js \in JobLists : jobs' = [jobs EXCEPT ![t] = js]
    BY DEF RunStart
<1>3. RunType /\ ThreadInv /\ ThreadOK(t)
    BY DEF OwnInv, TypeOK, ThreadInv
<1>4. jobs[t] = <<>> /\ i[t] = 1 /\ \A j \in Slots : held[t][j] = NoConn
    BY <1>1, <1>3 DEF ThreadOK, Njob, Slots
<1>5. RunType'
  <2>1. nrun' \in [Threads -> 0..MaxRuns]
    BY <1>1, <1>3, PoolAssumption DEF RunType
  <2> QED BY <1>1, <1>2, <1>3, <2>1 DEF RunType
<1>6. /\ pc'[t] = "get" /\ jobs'[t] = js
      /\ \A u \in Threads \ {t} : pc'[u] = pc[u] /\ jobs'[u] = jobs[u]
    BY <1>1, <1>2, <1>3 DEF RunType
<1>7. ThreadOK(t)'
  <2>1. 1 \in 1..Len(js) /\ 1 \in Slots
    BY JobListType, PoolAssumption DEF Slots
  <2>2. i'[t] = 1 /\ held'[t] = held[t]
    BY <1>1, <1>4
  <2> QED BY <1>4, <1>6, <2>1, <2>2 DEF ThreadOK, Njob, Acquiring
<1>8. ThreadInv'
    BY <1>1, <1>3, <1>6, <1>7, ThreadFrame
<1>9. RpcType' /\ ConnType' /\ SockType'
    BY <1>1, TypeFrame DEF OwnInv, TypeOK
<1>10. ErrInv'
  <2>1. \A j \in Slots : err[t][j] = "NONE"
    BY <1>1, <1>4 DEF OwnInv, ErrInv, ErrOK, Slots
  <2>2. nrun'[t] >= 1 /\ \A u \in Threads \ {t} : nrun'[u] = nrun[u]
    BY <1>1, <1>3 DEF RunType
  <2>3. ErrOK(t)'
    BY <1>1, <2>1, <2>2 DEF ErrOK, Busy
  <2> QED BY <1>1, <1>6, <2>2, <2>3, OtherErr DEF OwnInv
<1> QED BY <1>1, <1>4, <1>5, <1>6, <1>8, <1>9, <1>10, QuietStep DEF rpcVars, connVars

LEMMA WaitOwn ==
    ASSUME OwnInv, NEW t \in Threads, GetWait(t) \/ GetTimeout(t)
    PROVE  OwnInv'
<1>1. /\ pc[t] = "get" /\ UNCHANGED <<pc, jobs, i, held, err, reply, nrun>>
      /\ UNCHANGED <<idle, nsocks, httpAvail, connVars, sockVars, listenVars>>
      /\ timedout' \in {timedout, [timedout EXCEPT ![t] = TRUE]}
      /\ waiters' \in {[waiters EXCEPT ![R(t)] = @ \cup {t}],
                       [waiters EXCEPT ![R(t)] = @ \ {t}]}
    BY DEF GetWait, GetTimeout, InGet, runVars
<1>2. R(t) \in Rpcs
    BY <1>1, AcquiringFacts DEF Acquiring
<1>3. RpcType'
  <2>1. waiters \in [Rpcs -> SUBSET (Threads \cup {Listener})]
    BY DEF OwnInv, TypeOK, RpcType
  <2>2. waiters' \in [Rpcs -> SUBSET (Threads \cup {Listener})]
    BY <1>1, <1>2, <2>1
  <2> QED BY <1>1, <2>2 DEF OwnInv, TypeOK, RpcType
<1>4. RunType'
    BY <1>1 DEF OwnInv, TypeOK, RunType
<1>5. ThreadInv'
    BY <1>1 DEF OwnInv, ThreadInv, ThreadOK, Njob
<1>6. ConnType' /\ SockType'
    BY <1>1, TypeFrame DEF OwnInv, TypeOK
<1>7. ErrInv'
    BY <1>1 DEF OwnInv, ErrInv, ErrOK
<1> QED BY <1>1, <1>3, <1>4, <1>5, <1>6, <1>7, QuietStep DEF connVars

LEMMA NoMoveOwn ==
    ASSUME OwnInv, NEW t \in Threads,
           GetNone(t) \/ CheckOk(t) \/ ConnectFail(t)
    PROVE  OwnInv'
<1>1. /\ pc[t] \in {"get", "check", "connect"} /\ held' = held
      /\ UNCHANGED <<rpcVars, connVars, sockVars, listenVars>>
    BY DEF GetNone, CheckOk, ConnectFail, InGet
<1>2. \/ pc[t] = "get" /\ GiveUp(t)
      \/ pc[t] = "check" /\ NextJob(t, "ESENDWAIT")
      \/ NextJob(t, "ENOCONN")
    BY DEF GetNone, CheckOk, ConnectFail, InGet
<1>3. /\ "ESENDWAIT" \in Errors /\ "ENOCONN" \in Errors /\ "ENOCONN" \notin Busy
      /\ pc[t] \in Acquiring
    BY <1>1 DEF Errors, Busy, Acquiring
<1>4. /\ held' \in [Threads -> [Slots -> Conns \cup {NoConn}]]
      /\ pc[t] = "get" => held'[t][i[t]] = NoConn
      /\ pc[t] = "check" => held'[t][i[t]] \in Conns
    BY <1>1 DEF OwnInv, ThreadInv, ThreadOK, TypeOK, RunType
<1>5. /\ RunType' /\ ThreadInv' /\ ErrInv' /\ jobs' = jobs
      /\ pc'[t] \in {"get", "connect", "run", "finish"}
      /\ \A u \in Threads \ {t} : pc'[u] = pc[u] /\ i'[u] = i[u]
  <2>1. CASE pc[t] = "get" /\ GiveUp(t)
    BY <2>1, <1>1, <1>3, <1>4, GiveUpOwn
  <2>2. CASE pc[t] = "check" /\ NextJob(t, "ESENDWAIT")
    BY <2>2, <1>1, <1>3, <1>4, NextJobOwn
  <2>3. CASE NextJob(t, "ENOCONN")
    BY <2>3, <1>1, <1>3, <1>4, NextJobOwn
  <2> QED BY <2>1, <2>2, <2>3, <1>2
<1>6. RpcType' /\ ConnType' /\ SockType'
    BY <1>1, TypeFrame DEF OwnInv, TypeOK
<1> QED BY <1>1, <1>5, <1>6, QuietStep DEF connVars, rpcVars

LEMMA SlotUpdate ==
    ASSUME NEW S, NEW f \in [Threads -> [Slots -> S]], NEW t \in Threads,
           NEW j \in Slots, NEW x \in S
    PROVE  [f EXCEPT ![t][j] = x] \in [Threads -> [Slots -> S]]
OBVIOUS

LEMMA JobStepOwn ==
    ASSUME OwnInv, NEW t \in Threads, NEW j \in Slots, JobStep(t, j)
    PROVE  OwnInv'
<1>1. /\ pc[t] = "run" /\ UNCHANGED <<pc, jobs, i, held, timedout, nrun>>
      /\ UNCHANGED <<rpcVars, st, rpc, listenVars>>
    BY DEF JobStep, Send, SendFail, RecvPart, RecvDone, RecvBad, RecvFail,
           JobDone, connVars
<1>2. PICK e \in Errors : err' = [err EXCEPT ![t][j] = e]
    BY DEF JobStep, Send, SendFail, RecvPart, RecvDone, RecvBad, RecvFail,
           JobDone, Errors, Busy, Failed
<1>3. err[t][j] \in Busy
    BY DEF JobStep, Send, SendFail, RecvPart, RecvDone, RecvBad, RecvFail, Busy
<1>4. held[t][j] \in Conns /\ nrun[t] >= 1
    BY <1>1, <1>3 DEF OwnInv, ErrInv, ErrOK
<1>5. ThreadInv' /\ RpcType'
  <2>1. ThreadInv'
    BY <1>1 DEF OwnInv, ThreadInv, ThreadOK, Njob
  <2> QED BY <1>1, <2>1, TypeFrame DEF OwnInv, TypeOK
<1>6. ErrInv'
  <2>1. err[t] \in [Slots -> Errors] /\ err \in [Threads -> [Slots -> Errors]]
    BY DEF OwnInv, TypeOK, RunType
  <2>2. \A k \in Slots : k # j => err'[t][k] = err[t][k]
    BY <1>2, <2>1
  <2>3. \A k \in Slots : err'[t][k] \in Busy => held[t][k] \in Conns
    BY <2>2, <1>1, <1>4 DEF OwnInv, ErrInv, ErrOK
  <2>4. ErrOK(t)'
    BY <1>1, <1>4, <2>3 DEF ErrOK, Acquiring
  <2>5. \A u \in Threads \ {t} : err'[u] = err[u]
    BY <1>2, <2>1
  <2> QED BY <1>1, <2>4, <2>5, OtherErr DEF OwnInv
<1>7. Token(t, j) \in Requests
  <2>1. nrun[t] \in 1..MaxRuns
    BY <1>4, PoolAssumption DEF OwnInv, TypeOK, RunType
  <2> QED BY <2>1 DEF Token, Requests
<1>8. /\ http' \in [Conns -> {"no", "close", "keep"}]
      /\ req' \in [Conns -> Seq(Requests)] /\ resp' \in [Conns -> Seq(Requests)]
      /\ reply' \in [Threads -> [Slots -> Requests \cup {NoReply}]]
      /\ UNCHANGED <<up, executed, ndrops>>
  <2>1. /\ http \in [Conns -> {"no", "close", "keep"}]
        /\ req \in [Conns -> Seq(Requests)] /\ resp \in [Conns -> Seq(Requests)]
        /\ reply \in [Threads -> [Slots -> Requests \cup {NoReply}]]
    BY DEF OwnInv, TypeOK, ConnType, SockType, RunType
  <2>2. CASE Send(t, j)
    BY <2>1, <2>2, <1>4, <1>7 DEF Send, connVars
  <2>3. CASE SendFail(t, j) \/ RecvPart(t, j) \/ RecvFail(t, j)
    BY <2>1, <2>3 DEF SendFail, RecvPart, RecvFail, connVars, sockVars
  <2>4. CASE RecvDone(t, j) \/ RecvBad(t, j)
    <3>1. resp[held[t][j]] \in Seq(Requests) /\ resp[held[t][j]] # <<>>
      BY <2>1, <2>4, <1>4 DEF RecvDone, RecvBad
    <3>2. Head(resp[held[t][j]]) \in Requests /\ Tail(resp[held[t][j]]) \in Seq(Requests)
      BY <3>1, HeadTailProperties
    <3>3. resp' = [resp EXCEPT ![held[t][j]] = Tail(resp[held[t][j]])]
      BY <2>4 DEF RecvDone, RecvBad
    <3>4. reply' \in {reply, [reply EXCEPT ![t][j] = Head(resp[held[t][j]])]}
      BY <2>4 DEF RecvDone, RecvBad
    <3>5. http' \in [Conns -> {"no", "close", "keep"}]
      BY <2>1, <2>4, <1>4 DEF RecvDone, RecvBad, connVars
    <3>6. resp' \in [Conns -> Seq(Requests)]
      BY <2>1, <3>2, <3>3, <1>4
    <3>7. reply' \in [Threads -> [Slots -> Requests \cup {NoReply}]]
      <4>1. CASE reply' = reply
        BY <2>1, <4>1
      <4>2. CASE reply' = [reply EXCEPT ![t][j] = Head(resp[held[t][j]])]
        <5> HIDE DEF NoReply
        <5>1. Head(resp[held[t][j]]) \in Requests \cup {NoReply}
          BY <3>2
        <5> QED BY <2>1, <4>2, <5>1, SlotUpdate, Zenon
      <4> QED BY <3>4, <4>1, <4>2
    <3>8. req' = req /\ UNCHANGED <<up, executed, ndrops>>
      BY <2>4 DEF RecvDone, RecvBad
    <3> QED BY <2>1, <3>5, <3>6, <3>7, <3>8
  <2> QED BY <2>2, <2>3, <2>4 DEF JobStep
<1>9. ConnType' /\ SockType' /\ RunType'
    BY <1>1, <1>2, <1>8 DEF OwnInv, TypeOK, ConnType, SockType, RunType
<1> QED BY <1>1, <1>5, <1>6, <1>9, QuietStep DEF rpcVars

\* The job a finishing call is at.
LEMMA FinishFacts ==
    ASSUME OwnInv, NEW t \in Threads, pc[t] \in {"finish", "close"}, i[t] <= Njob(t)
    PROVE  /\ i[t] \in Slots /\ i[t] \in 1..Njob(t) /\ Njob(t) \in Slots
           /\ Cur(t) # NoConn => Cur(t) \in Conns
           /\ \A j \in Slots : j < i[t] => held[t][j] = NoConn
           /\ \A j \in Slots : j > Njob(t) => held[t][j] = NoConn
           /\ jobs[t] \in JobLists /\ nrun[t] >= 1
<1>1. jobs[t] \in JobLists /\ i[t] \in 1..(Njob(t) + 1)
    BY DEF OwnInv, ThreadInv, ThreadOK
<1>2. Njob(t) \in Slots /\ Njob(t) \in Nat
    BY <1>1, JobListType DEF Njob
<1>3. i[t] \in Slots /\ i[t] \in 1..Njob(t)
    BY <1>1, <1>2, PoolAssumption DEF Slots
<1>4. Cur(t) # NoConn => Cur(t) \in Conns
    BY <1>3 DEF Cur, OwnInv, TypeOK, RunType
<1>5. nrun[t] >= 1
    BY DEF OwnInv, ErrInv, ErrOK
<1>6. /\ \A j \in Slots : j < i[t] => held[t][j] = NoConn
      /\ \A j \in Slots : j > Njob(t) => held[t][j] = NoConn
    BY DEF OwnInv, ThreadInv, ThreadOK
<1> QED BY <1>1, <1>2, <1>3, <1>4, <1>5, <1>6

LEMMA StopRunOwn ==
    ASSUME OwnInv, NEW t \in Threads, RunEnd(t) \/ RunTimeout(t)
    PROVE  OwnInv'
<1>1. /\ pc[t] = "run" /\ pc' = [pc EXCEPT ![t] = "finish"]
      /\ UNCHANGED <<jobs, i, held, err, reply, timedout, nrun>>
      /\ UNCHANGED <<rpcVars, connVars, sockVars, listenVars>>
    BY DEF RunEnd, RunTimeout, StopRun
<1>2. pc'[t] = "finish" /\ \A u \in Threads \ {t} : pc'[u] = pc[u]
    BY <1>1 DEF OwnInv, TypeOK, RunType
<1>3. RunType'
    BY <1>1 DEF OwnInv, TypeOK, RunType
<1>4. ThreadOK(t)'
  <2>1. /\ i[t] = 1 /\ jobs[t] \in JobLists
        /\ \A j \in Slots : j > Njob(t) => held[t][j] = NoConn
    BY <1>1 DEF OwnInv, ThreadInv, ThreadOK
  <2>2. 1 \in 1..(Njob(t) + 1) /\ \A j \in Slots : ~(j < 1)
    BY <2>1, JobListType DEF Slots, Njob
  <2> QED BY <1>1, <1>2, <2>1, <2>2 DEF ThreadOK, Acquiring, Njob
<1>5. ThreadInv'
    BY <1>1, <1>2, <1>4, ThreadFrame DEF OwnInv
<1>6. ErrInv'
  <2>1. ErrOK(t)'
    BY <1>1, <1>2 DEF OwnInv, ErrInv, ErrOK, Acquiring
  <2> QED BY <1>1, <1>2, <2>1, OtherErr DEF OwnInv
<1>7. RpcType' /\ ConnType' /\ SockType'
    BY <1>1, TypeFrame DEF OwnInv, TypeOK
<1> QED BY <1>1, <1>2, <1>3, <1>5, <1>6, <1>7, QuietStep DEF rpcVars, connVars

\* What the finishing loop needs when it goes on to the next slot.
LEMMA FinishNext ==
    ASSUME OwnInv, NEW t \in Threads, pc[t] \in {"finish", "close"}, i[t] <= Njob(t),
           pc' = [pc EXCEPT ![t] = "finish"], i' = [i EXCEPT ![t] = @ + 1],
           UNCHANGED <<jobs, err, reply, timedout, nrun>>,
           held' \in {held, [held EXCEPT ![t][i[t]] = NoConn]},
           held'[t][i[t]] = NoConn
    PROVE  RunType' /\ ThreadInv' /\ ErrInv'
<1>0. RunType
    BY DEF OwnInv, TypeOK
<1>1. /\ i[t] \in Slots /\ i[t] \in 1..Njob(t) /\ Njob(t) \in Slots
      /\ \A j \in Slots : j < i[t] => held[t][j] = NoConn
      /\ \A j \in Slots : j > Njob(t) => held[t][j] = NoConn
      /\ jobs[t] \in JobLists /\ nrun[t] >= 1
    BY FinishFacts
<1>2. /\ pc'[t] = "finish" /\ i'[t] = i[t] + 1 /\ i'[t] \in 1..(Njob(t) + 1)
      /\ i'[t] \in 1..(MaxJobs + 1)
      /\ \A u \in Threads \ {t} : pc'[u] = pc[u] /\ i'[u] = i[u] /\ held'[u] = held[u]
  <2>1. pc'[t] = "finish" /\ i'[t] = i[t] + 1
    BY <1>0 DEF RunType
  <2>2. i[t] + 1 \in 1..(Njob(t) + 1) /\ i[t] + 1 \in 1..(MaxJobs + 1)
    BY <1>1, PoolAssumption DEF Slots
  <2>3. \A u \in Threads \ {t} : pc'[u] = pc[u] /\ i'[u] = i[u] /\ held'[u] = held[u]
    BY <1>0 DEF RunType
  <2> QED BY <2>1, <2>2, <2>3
<1>3. \A j \in Slots : j # i[t] => held'[t][j] = held[t][j]
    BY <1>0, <1>1 DEF RunType
<1>4. RunType'
  <2>1. i' \in [Threads -> 1..(MaxJobs + 1)]
    BY <1>0, <1>2 DEF RunType
  <2>2. held' \in [Threads -> [Slots -> Conns \cup {NoConn}]]
    <3>1. NoConn \in Conns \cup {NoConn}
      OBVIOUS
    <3>2. held \in [Threads -> [Slots -> Conns \cup {NoConn}]]
      BY <1>0 DEF RunType
    <3>3. [held EXCEPT ![t][i[t]] = NoConn] \in [Threads -> [Slots -> Conns \cup {NoConn}]]
      BY <1>1, <3>1, <3>2, SlotUpdate
    <3> QED BY <3>2, <3>3, Zenon
  <2>3. pc' \in [Threads -> {"idle", "get", "check", "dropped", "connect",
                             "run", "finish", "close"}]
    BY <1>0 DEF RunType
  <2> QED BY <1>0, <2>1, <2>2, <2>3 DEF RunType
<1>5. ThreadOK(t)'
  <2>1. \A j \in Slots : j < i'[t] => held'[t][j] = NoConn
    BY <1>1, <1>2, <1>3 DEF Slots
  <2>2. \A j \in Slots : j > Njob(t) => held'[t][j] = NoConn
    BY <1>1, <1>3
  <2> QED BY <1>1, <1>2, <2>1, <2>2 DEF ThreadOK, Njob, Acquiring
<1>6. ThreadInv'
    BY <1>2, <1>5, ThreadFrame DEF OwnInv
<1>7. ErrOK(t)'
    BY <1>1, <1>2 DEF ErrOK, Acquiring
<1>8. ErrInv'
    BY <1>2, <1>7, OtherErr DEF OwnInv
<1> QED BY <1>4, <1>6, <1>8

LEMMA FinishSkipOwn ==
    ASSUME OwnInv, NEW t \in Threads, FinishSkip(t)
    PROVE  OwnInv'
<1>1. /\ pc[t] = "finish" /\ i[t] <= Njob(t) /\ held[t][i[t]] = NoConn
      /\ i' = [i EXCEPT ![t] = @ + 1]
      /\ UNCHANGED <<pc, jobs, held, err, reply, timedout, nrun>>
      /\ UNCHANGED <<rpcVars, connVars, sockVars, listenVars>>
    BY DEF FinishSkip, Finishing, Cur
<1>2. pc' = [pc EXCEPT ![t] = "finish"] /\ \A u \in Threads \ {t} : i'[u] = i[u]
    BY <1>1 DEF OwnInv, TypeOK, RunType
<1>3. RunType' /\ ThreadInv' /\ ErrInv'
    BY <1>1, <1>2, FinishNext
<1>4. RpcType' /\ ConnType' /\ SockType'
    BY <1>1, TypeFrame DEF OwnInv, TypeOK
<1> QED BY <1>1, <1>2, <1>3, <1>4, QuietStep DEF rpcVars, connVars

LEMMA ReturnOwn ==
    ASSUME OwnInv, NEW t \in Threads, Return(t)
    PROVE  OwnInv'
<1>0. RunType
    BY DEF OwnInv, TypeOK
<1>1. /\ pc[t] = "finish" /\ i[t] > Njob(t) /\ UNCHANGED <<held, timedout, nrun>>
      /\ pc' = [pc EXCEPT ![t] = "idle"] /\ jobs' = [jobs EXCEPT ![t] = <<>>]
      /\ i' = [i EXCEPT ![t] = 1]
      /\ err' = [err EXCEPT ![t] = [j \in Slots |-> "NONE"]]
      /\ reply' = [reply EXCEPT ![t] = [j \in Slots |-> NoReply]]
      /\ UNCHANGED <<rpcVars, connVars, sockVars, listenVars>>
    BY DEF Return, Results
<1>2. /\ pc'[t] = "idle" /\ i'[t] = 1 /\ jobs'[t] = <<>>
      /\ \A j \in Slots : err'[t][j] = "NONE"
      /\ \A u \in Threads \ {t} : pc'[u] = pc[u] /\ i'[u] = i[u] /\ jobs'[u] = jobs[u]
                                  /\ err'[u] = err[u]
    BY <1>0, <1>1 DEF RunType
<1>3. \A j \in Slots : held[t][j] = NoConn
  <2>1. /\ jobs[t] \in JobLists /\ i[t] \in 1..(Njob(t) + 1)
        /\ \A j \in Slots : j < i[t] => held[t][j] = NoConn
        /\ \A j \in Slots : j > Njob(t) => held[t][j] = NoConn
    BY <1>1 DEF OwnInv, ThreadInv, ThreadOK
  <2>2. Njob(t) \in Nat
    BY <2>1, JobListType DEF Njob
  <2> QED BY <2>1, <2>2, <1>1 DEF Slots
<1>4. RunType'
  <2>1. /\ err' \in [Threads -> [Slots -> Errors]]
        /\ i' \in [Threads -> 1..(MaxJobs + 1)]
    BY <1>0, <1>1, PoolAssumption DEF RunType, Errors
  <2>2. reply' \in [Threads -> [Slots -> Requests \cup {NoReply}]]
    BY <1>0, <1>1 DEF RunType
  <2> QED BY <1>0, <1>1, <2>1, <2>2 DEF RunType
<1>5. ThreadOK(t)' /\ ErrOK(t)'
    BY <1>1, <1>2, <1>3 DEF ThreadOK, ErrOK, Acquiring, Njob
<1>6. ThreadInv' /\ ErrInv'
    BY <1>1, <1>2, <1>5, ThreadFrame, OtherErr DEF OwnInv
<1>7. RpcType' /\ ConnType' /\ SockType'
    BY <1>1, TypeFrame DEF OwnInv, TypeOK
<1> QED BY <1>1, <1>2, <1>3, <1>4, <1>6, <1>7, QuietStep DEF rpcVars, connVars

LEMMA PopOwn ==
    ASSUME OwnInv, NEW t \in Threads, GetPop(t)
    PROVE  OwnInv'
<1> DEFINE c == Head(idle[R(t)])
<1>0. RpcType /\ ConnType /\ RunType /\ ThreadInv /\ IdleInv
    BY DEF OwnInv, TypeOK
<1>1. /\ pc[t] = "get" /\ idle[R(t)] # <<>>
      /\ held' = [held EXCEPT ![t][i[t]] = c]
      /\ st' = [st EXCEPT ![c] = "busy"]
      /\ idle' = [idle EXCEPT ![R(t)] = Tail(idle[R(t)])]
      /\ pc' = [pc EXCEPT ![t] = "check"]
      /\ UNCHANGED <<nsocks, httpAvail, waiters, rpc, http, sockVars>>
      /\ UNCHANGED <<jobs, i, err, reply, timedout, nrun, listenVars>>
    BY DEF GetPop, InGet
<1>2. /\ R(t) \in Rpcs /\ i[t] \in Slots /\ i[t] \in 1..Njob(t) /\ jobs[t] \in JobLists
      /\ Njob(t) \in Slots
    BY <1>1, AcquiringFacts DEF Acquiring
<1>3. /\ c \in Conns /\ c \in Range(idle[R(t)]) /\ Tail(idle[R(t)]) \in Seq(Conns)
      /\ IsInjective(Tail(idle[R(t)]))
      /\ Range(Tail(idle[R(t)])) = Range(idle[R(t)]) \ {c}
    BY <1>0, <1>1, <1>2, TailList DEF RpcType, IdleInv
<1>4. st[c] = "idle" /\ rpc[c] = R(t)
    BY <1>0, <1>2, <1>3 DEF IdleInv
<1> HIDE DEF c
<1>5. /\ pc'[t] = "check" /\ held'[t][i[t]] = c
      /\ \A j \in Slots : j # i[t] => held'[t][j] = held[t][j]
      /\ \A u \in Threads \ {t} : pc'[u] = pc[u] /\ held'[u] = held[u]
    BY <1>0, <1>1, <1>2 DEF RunType
<1>6. TypeOK'
  <2>1. RpcType'
    BY <1>0, <1>1, <1>3 DEF RpcType
  <2>2. ConnType'
    BY <1>0, <1>1 DEF ConnType, ConnStates
  <2>3. RunType'
    <3>1. held' \in [Threads -> [Slots -> Conns \cup {NoConn}]]
      BY <1>0, <1>1, <1>2, <1>3, SlotUpdate DEF RunType
    <3> QED BY <1>0, <1>1, <3>1 DEF RunType
  <2> QED BY <1>1, <2>1, <2>2, <2>3, TypeFrame DEF OwnInv, TypeOK
<1>7. ThreadInv'
  <2>1. /\ \A j \in Slots : j > i[t] => held'[t][j] = NoConn
        /\ \A j \in Slots : j > Njob(t) => held'[t][j] = NoConn
    BY <1>0, <1>1, <1>2, <1>5 DEF ThreadInv, ThreadOK, Acquiring, Slots
  <2>2. ThreadOK(t)'
    BY <1>1, <1>2, <1>3, <1>5, <2>1 DEF ThreadOK, Acquiring, Njob
  <2> QED BY <1>0, <1>1, <1>5, <2>2, ThreadFrame
<1>8. ErrInv'
  <2>1. \A j \in Slots : err[t][j] \in Busy => held'[t][j] \in Conns
    BY <1>1, <1>3, <1>5 DEF OwnInv, ErrInv, ErrOK, Acquiring
  <2>2. ErrOK(t)'
    BY <1>1, <1>5, <2>1 DEF OwnInv, ErrInv, ErrOK, Acquiring
  <2> QED BY <1>1, <1>5, <2>2, OtherErr DEF OwnInv
<1>9. HeldInv'
  <2>1. rpc' = [rpc EXCEPT ![c] = R(t)]
    BY <1>0, <1>1, <1>4 DEF ConnType
  <2> QED BY <1>1, <1>2, <1>3, <1>4, <1>5, <2>1, HeldAcquire
<1>10. IdleInv'
  <2> SUFFICES ASSUME NEW r \in Rpcs
               PROVE  /\ IsInjective(idle'[r])
                      /\ \A d \in Range(idle'[r]) : st'[d] = "idle" /\ rpc'[d] = r
    BY DEF IdleInv
  <2>1. CASE r = R(t)
    <3>1. idle'[r] = Tail(idle[R(t)])
      BY <1>0, <1>1, <2>1 DEF RpcType
    <3>2. \A d \in Range(idle'[r]) : d \in Range(idle[r]) /\ d # c /\ d \in Conns
      BY <3>1, <1>0, <1>3, <2>1, RangeOfSeq DEF RpcType
    <3> QED BY <1>0, <1>1, <1>3, <3>1, <3>2 DEF IdleInv, ConnType
  <2>2. CASE r # R(t)
    <3>1. idle'[r] = idle[r]
      BY <1>0, <1>1, <2>2 DEF RpcType
    <3>2. \A d \in Range(idle[r]) : d # c
      BY <1>0, <1>4, <2>2 DEF IdleInv
    <3>3. Range(idle[r]) \subseteq Conns
      BY <1>0, RangeOfSeq DEF RpcType
    <3> QED BY <1>0, <1>1, <3>1, <3>2, <3>3 DEF IdleInv, ConnType
  <2> QED BY <2>1, <2>2
<1>11. ListenInv'
  <2>1. \A d \in Conns : st[d] = "scan" \/ d \in drop =>
            d # c /\ st'[d] = st[d] /\ rpc'[d] = rpc[d]
    BY <1>0, <1>1, <1>4, DropFacts DEF ConnType
  <2>2. \A d \in drop, u \in Threads, k \in Slots : held'[u][k] # d
    <3>1. \A d \in drop : d # c
      BY <1>4, DropFacts
    <3> QED BY <1>5, <3>1, DropFacts
  <2> QED BY <1>1, <2>1, <2>2, ListenFrame
<1> QED BY <1>6, <1>7, <1>8, <1>9, <1>10, <1>11 DEF OwnInv

LEMMA ConnectOwn ==
    ASSUME OwnInv, NEW t \in Threads, ConnectOk(t)
    PROVE  OwnInv'
<1>0. RpcType /\ ConnType /\ SockType /\ RunType /\ ThreadInv /\ IdleInv
    BY DEF OwnInv, TypeOK
<1>1. /\ pc[t] = "connect" /\ NextJob(t, "ESENDWAIT")
      /\ nsocks' = [nsocks EXCEPT ![R(t)] = nsocks[R(t)] + 1]
      /\ httpAvail' = [httpAvail EXCEPT ![R(t)] = httpAvail[R(t)] - 1]
      /\ UNCHANGED <<idle, waiters, listenVars>>
    BY DEF ConnectOk
<1>2. PICK c \in Conns : /\ NewConn(c, R(t), "busy", "close")
                         /\ held' = [held EXCEPT ![t][i[t]] = c]
    BY DEF ConnectOk
<1>3. /\ R(t) \in Rpcs /\ i[t] \in Slots /\ pc[t] \in Acquiring
      /\ "ESENDWAIT" \in Errors
    BY <1>1, AcquiringFacts DEF Acquiring, Errors, Busy
<1>4. /\ st[c] = "free" /\ st' = [st EXCEPT ![c] = "busy"]
      /\ rpc' = [rpc EXCEPT ![c] = R(t)] /\ http' = [http EXCEPT ![c] = "close"]
      /\ up' = [up EXCEPT ![c] = TRUE] /\ req' = [req EXCEPT ![c] = <<>>]
      /\ resp' = [resp EXCEPT ![c] = <<>>] /\ UNCHANGED <<executed, ndrops>>
    BY <1>2 DEF NewConn
<1>5. /\ held' \in [Threads -> [Slots -> Conns \cup {NoConn}]]
      /\ held'[t][i[t]] = c
      /\ \A u \in Threads, j \in Slots :
            ~(u = t /\ j = i[t]) => held'[u][j] = held[u][j]
    BY <1>0, <1>2, <1>3 DEF RunType
<1>6. /\ RunType' /\ ThreadInv' /\ ErrInv' /\ jobs' = jobs
      /\ pc'[t] \in {"get", "run", "finish"}
      /\ \A u \in Threads \ {t} : pc'[u] = pc[u] /\ i'[u] = i[u]
    BY <1>1, <1>3, <1>5, NextJobOwn
<1>7. TypeOK'
  <2>1. RpcType'
    BY <1>0, <1>1, <1>3 DEF RpcType
  <2>2. ConnType'
    BY <1>0, <1>3, <1>4 DEF ConnType, ConnStates
  <2>3. SockType'
    BY <1>0, <1>4 DEF SockType
  <2> QED BY <1>1, <1>6, <2>1, <2>2, <2>3, TypeFrame DEF OwnInv, TypeOK
<1>8. HeldInv'
    BY <1>1, <1>2, <1>3, <1>4, <1>6, HeldAcquire
<1>9. IdleInv'
  <2>1. \A d \in Conns : st[d] = "idle" => st'[d] = st[d] /\ rpc'[d] = rpc[d]
    BY <1>0, <1>4 DEF ConnType
  <2> QED BY <1>0, <1>1, <2>1, IdleFrame
<1>10. ListenInv'
  <2>1. \A d \in drop : d # c
    BY <1>4, DropFacts
  <2>2. \A d \in Conns : st[d] = "scan" \/ d \in drop =>
            st'[d] = st[d] /\ rpc'[d] = rpc[d]
    BY <1>0, <1>4, <2>1 DEF ConnType
  <2>3. \A d \in drop, u \in Threads, k \in Slots : held'[u][k] # d
    BY <1>5, <2>1, DropFacts
  <2> QED BY <1>1, <2>2, <2>3, ListenFrame
<1> QED BY <1>6, <1>7, <1>8, <1>9, <1>10 DEF OwnInv

\* The connection in the current slot is closed or retired in place.
LEMMA MarkOwn ==
    ASSUME OwnInv, NEW t \in Threads, i[t] \in Slots, Cur(t) \in Conns,
           NEW s \in ConnStates, st' = [st EXCEPT ![Cur(t)] = s],
           NEW p, pc' = [pc EXCEPT ![t] = p],
           \/ p = "dropped" /\ s = "closed"
           \/ p = "close" /\ s = "retired",
           pc[t] \notin {"dropped", "close"},
           RpcType', SockType', idle' = idle, ThreadOK(t)', ErrOK(t)',
           UNCHANGED <<rpc, http, jobs, i, held, err, reply, timedout, nrun>>,
           UNCHANGED listenVars
    PROVE  OwnInv'
<1>0. RunType /\ ConnType
    BY DEF OwnInv, TypeOK
<1>1. \A u \in Threads \ {t} : pc'[u] = pc[u]
    BY <1>0 DEF RunType
<1>2. ThreadInv' /\ ErrInv'
    BY <1>1, ThreadFrame, OtherErr DEF OwnInv
<1>3. st[Cur(t)] = "busy" /\ Cur(t) # NoConn
    BY PoolAssumption DEF OwnInv, HeldInv, SlotState, Cur
<1>4. HeldInv'
    BY HeldMark
<1>5. TypeOK'
  <2>1. ConnType'
    BY <1>0 DEF ConnType
  <2>2. RunType'
    <3>1. pc' \in [Threads -> {"idle", "get", "check", "dropped", "connect",
                               "run", "finish", "close"}]
      BY <1>0 DEF RunType
    <3> QED BY <1>0, <3>1 DEF RunType
  <2> QED BY <2>1, <2>2, TypeFrame DEF OwnInv, TypeOK
<1>6. IdleInv'
  <2>1. \A c \in Conns : st[c] = "idle" => st'[c] = st[c] /\ rpc'[c] = rpc[c]
    BY <1>0, <1>3 DEF ConnType
  <2> QED BY <2>1, IdleFrame DEF OwnInv, TypeOK
<1>7. ListenInv'
  <2>1. \A c \in Conns : st[c] = "scan" \/ c \in drop =>
            st'[c] = st[c] /\ rpc'[c] = rpc[c]
    <3>1. Cur(t) \notin drop
      BY DropFacts DEF Cur
    <3> QED BY <1>0, <1>3, <3>1 DEF ConnType
  <2> QED BY <2>1, DropFacts, ListenFrame
<1> QED BY <1>2, <1>4, <1>5, <1>6, <1>7 DEF OwnInv

\* RpcClose.
LEMMA CloseType ==
    ASSUME SockType, NEW c \in Conns, resp' = [resp EXCEPT ![c] = <<>>],
           UNCHANGED <<up, req, executed, ndrops>>
    PROVE  SockType'
<1>1. resp' \in [Conns -> Seq(Requests)]
    BY DEF SockType
<1> QED BY <1>1 DEF SockType

LEMMA CheckDropOwn ==
    ASSUME OwnInv, NEW t \in Threads, CheckDrop(t)
    PROVE  OwnInv'
<1>0. RunType /\ SockType /\ ThreadOK(t) /\ ErrOK(t)
    BY DEF OwnInv, TypeOK, ThreadInv, ErrInv
<1>1. /\ pc[t] = "check" /\ st' = [st EXCEPT ![Cur(t)] = "closed"]
      /\ resp' = [resp EXCEPT ![Cur(t)] = <<>>]
      /\ pc' = [pc EXCEPT ![t] = "dropped"]
      /\ UNCHANGED <<rpcVars, rpc, http, up, req, executed, ndrops>>
      /\ UNCHANGED <<jobs, i, held, err, reply, timedout, nrun, listenVars>>
    BY DEF CheckDrop, CloseSock
<1>2. i[t] \in Slots
    BY <1>1, AcquiringFacts DEF Acquiring
<1>3. Cur(t) \in Conns
    BY <1>0, <1>1 DEF ThreadOK, Cur
<1>4. pc'[t] = "dropped"
    BY <1>0, <1>1 DEF RunType
<1>5. ThreadOK(t)' /\ ErrOK(t)'
    BY <1>0, <1>1, <1>4 DEF ThreadOK, ErrOK, Acquiring, Njob
<1>6. RpcType' /\ SockType'
  <2>1. SockType'
    BY <1>0, <1>1, <1>3, CloseType
  <2> QED BY <1>1, <2>1, TypeFrame DEF OwnInv, TypeOK
<1>7. "closed" \in ConnStates
    BY DEF ConnStates
<1> QED BY <1>1, <1>2, <1>3, <1>5, <1>6, <1>7, MarkOwn DEF rpcVars

\* Giving up a connection: --nsocks, ++httpAvail, broadcast.
LEMMA UncountType ==
    ASSUME RpcType, ConnType, NEW c \in Conns, Uncount(c), idle' = idle
    PROVE  RpcType'
<1>1. rpc[c] \in Rpcs /\ FreedHttp(c) \in Int
    BY DEF ConnType, FreedHttp
<1> QED BY <1>1 DEF RpcType, Uncount, Broadcast

LEMMA RetireOwn ==
    ASSUME OwnInv, NEW t \in Threads, PutClose(t) \/ JobFail(t)
    PROVE  OwnInv'
<1>0. RunType /\ RpcType /\ ConnType /\ ThreadOK(t) /\ ErrOK(t)
    BY DEF OwnInv, TypeOK, ThreadInv, ErrInv
<1>1. /\ pc[t] = "finish" /\ i[t] <= Njob(t) /\ Cur(t) # NoConn
      /\ Uncount(Cur(t)) /\ st' = [st EXCEPT ![Cur(t)] = "retired"]
      /\ pc' = [pc EXCEPT ![t] = "close"]
      /\ UNCHANGED <<idle, rpc, http, sockVars, listenVars>>
      /\ UNCHANGED <<jobs, i, held, err, reply, timedout, nrun>>
    BY DEF PutClose, JobFail, IsPut, Finishing, Retire
<1>2. i[t] \in Slots /\ Cur(t) \in Conns
    BY <1>1, FinishFacts
<1>3. pc'[t] = "close"
    BY <1>0, <1>1 DEF RunType
<1>4. ThreadOK(t)' /\ ErrOK(t)'
  <2>1. ThreadOK(t)'
    BY <1>0, <1>1, <1>2, <1>3 DEF ThreadOK, Acquiring, Njob, Cur
  <2>2. ErrOK(t)'
    BY <1>0, <1>1, <1>3 DEF ErrOK, Acquiring
  <2> QED BY <2>1, <2>2
<1>5. RpcType' /\ SockType' /\ "retired" \in ConnStates
    BY <1>0, <1>1, <1>2, UncountType, TypeFrame DEF OwnInv, TypeOK, ConnStates
<1> QED BY <1>1, <1>2, <1>4, <1>5, MarkOwn

\* The connection in the current slot is put on the idle list or freed.
LEMMA ReleaseOwn ==
    ASSUME OwnInv, NEW t \in Threads, i[t] \in Slots, Cur(t) \in Conns,
           held' = [held EXCEPT ![t][i[t]] = NoConn],
           NEW s \in {"idle", "free"}, st' = [st EXCEPT ![Cur(t)] = s],
           \A u \in Threads \ {t} : pc'[u] = pc[u] /\ i'[u] = i[u],
           pc'[t] \notin {"dropped", "close"},
           RpcType', SockType', RunType', ThreadInv', ErrInv',
           IF s = "idle" THEN idle' = [idle EXCEPT ![rpc[Cur(t)]] = Append(@, Cur(t))]
                         ELSE idle' = idle,
           UNCHANGED <<rpc, http, jobs, listenVars>>
    PROVE  OwnInv'
<1>0. RunType /\ ConnType /\ RpcType /\ IdleInv
    BY DEF OwnInv, TypeOK
<1>1. st[Cur(t)] \in {"busy", "closed", "retired"} /\ Cur(t) # NoConn
    BY PoolAssumption DEF OwnInv, HeldInv, SlotState, Cur
<1>2. HeldInv'
    BY HeldRelease
<1>3. TypeOK'
  <2>1. ConnType'
    BY <1>0 DEF ConnType, ConnStates
  <2> QED BY <2>1, TypeFrame DEF OwnInv, TypeOK
<1>4. \A c \in Conns : c # Cur(t) => st'[c] = st[c]
    BY <1>0 DEF ConnType
<1>5. st'[Cur(t)] = s /\ rpc[Cur(t)] \in Rpcs
    BY <1>0 DEF ConnType
<1>6. IdleInv'
  <2>1. CASE s = "free"
    BY <2>1, <1>0, <1>1, <1>4, IdleFrame
  <2>2. CASE s = "idle"
    <3> SUFFICES ASSUME NEW r \in Rpcs
                 PROVE  /\ IsInjective(idle'[r])
                        /\ \A d \in Range(idle'[r]) : st'[d] = "idle" /\ rpc'[d] = r
      BY DEF IdleInv
    <3>1. /\ idle[r] \in Seq(Conns) /\ IsInjective(idle[r])
          /\ Range(idle[r]) \subseteq Conns
          /\ \A d \in Range(idle[r]) : st[d] = "idle" /\ rpc[d] = r
      BY <1>0, RangeOfSeq DEF RpcType, IdleInv
    <3>2. Cur(t) \notin Range(idle[r])
      BY <3>1, <1>1
    <3>3. CASE r = rpc[Cur(t)]
      <4>1. idle'[r] = Append(idle[r], Cur(t))
        BY <2>2, <3>3, <1>0 DEF RpcType
      <4>2. IsInjective(idle'[r]) /\ Range(idle'[r]) = Range(idle[r]) \cup {Cur(t)}
        BY <4>1, <3>1, <3>2, AppendList
      <4> QED BY <4>2, <3>1, <3>2, <3>3, <1>4, <1>5, <2>2
    <3>4. CASE r # rpc[Cur(t)]
      <4>1. idle'[r] = idle[r]
        BY <2>2, <3>4, <1>0 DEF RpcType
      <4> QED BY <4>1, <3>1, <3>2, <1>4
    <3> QED BY <3>3, <3>4
  <2> QED BY <2>1, <2>2
<1>7. ListenInv'
  <2>1. Cur(t) \notin drop
    BY DropFacts DEF Cur
  <2>2. \A c \in Conns : st[c] = "scan" \/ c \in drop =>
            st'[c] = st[c] /\ rpc'[c] = rpc[c]
    BY <1>1, <1>4, <2>1
  <2>3. \A c \in drop, u \in Threads, k \in Slots : held'[u][k] # c
    <3>1. \A u \in Threads, k \in Slots : held'[u][k] \in {held[u][k], NoConn}
      BY <1>0 DEF RunType
    <3>2. NoConn \notin drop
      BY PoolAssumption DEF OwnInv, TypeOK, ListenType
    <3> QED BY <3>1, <3>2, DropFacts
  <2> QED BY <2>2, <2>3, ListenFrame
<1> QED BY <1>2, <1>3, <1>6, <1>7 DEF OwnInv

LEMMA DroppedOwn ==
    ASSUME OwnInv, NEW t \in Threads, Dropped(t)
    PROVE  OwnInv'
<1>0. RunType /\ RpcType /\ ConnType /\ ThreadOK(t) /\ ErrOK(t)
    BY DEF OwnInv, TypeOK, ThreadInv, ErrInv
<1>1. /\ pc[t] = "dropped" /\ Uncount(Cur(t))
      /\ st' = [st EXCEPT ![Cur(t)] = "free"]
      /\ held' = [held EXCEPT ![t][i[t]] = NoConn]
      /\ UNCHANGED <<idle, rpc, http, sockVars, listenVars>>
      /\ \/ /\ pc' = [pc EXCEPT ![t] = "get"]
            /\ UNCHANGED <<jobs, i, err, reply, timedout, nrun>>
         \/ GiveUp(t)
    BY DEF Dropped
<1>2. /\ i[t] \in Slots /\ i[t] \in 1..Njob(t) /\ Njob(t) \in Slots
      /\ jobs[t] \in JobLists /\ pc[t] \in Acquiring
    BY <1>1, AcquiringFacts DEF Acquiring
<1>3. Cur(t) \in Conns
    BY <1>0, <1>1 DEF ThreadOK, Cur
<1>4. /\ held' \in [Threads -> [Slots -> Conns \cup {NoConn}]]
      /\ held'[t][i[t]] = NoConn
      /\ \A u \in Threads, j \in Slots :
            ~(u = t /\ j = i[t]) => held'[u][j] = held[u][j]
    BY <1>0, <1>1, <1>2 DEF RunType
<1>5. /\ RunType' /\ ThreadInv' /\ ErrInv' /\ jobs' = jobs
      /\ pc'[t] \in {"get", "connect", "run", "finish"}
      /\ \A u \in Threads \ {t} : pc'[u] = pc[u] /\ i'[u] = i[u]
  <2>1. CASE GiveUp(t)
    BY <2>1, <1>2, <1>4, GiveUpOwn
  <2>2. CASE /\ pc' = [pc EXCEPT ![t] = "get"]
             /\ UNCHANGED <<jobs, i, err, reply, timedout, nrun>>
    <3>1. /\ pc'[t] = "get"
          /\ \A u \in Threads \ {t} : pc'[u] = pc[u] /\ held'[u] = held[u]
      BY <2>2, <1>0, <1>1 DEF RunType
    <3>2. RunType'
      <4>1. pc' \in [Threads -> {"idle", "get", "check", "dropped", "connect",
                                 "run", "finish", "close"}]
        BY <2>2, <1>0 DEF RunType
      <4> QED BY <2>2, <1>0, <1>4, <4>1 DEF RunType
    <3>3. ThreadOK(t)'
      <4>1. /\ \A j \in Slots : j > i[t] => held'[t][j] = NoConn
            /\ \A j \in Slots : j > Njob(t) => held'[t][j] = NoConn
        BY <1>0, <1>1, <1>2, <1>4 DEF ThreadOK, Acquiring, Slots
      <4> QED BY <2>2, <3>1, <1>2, <1>4, <4>1 DEF ThreadOK, Acquiring, Njob
    <3>4. ErrOK(t)'
      <4>1. \A j \in Slots : j >= i[t] => err[t][j] = "NONE"
        BY <1>0, <1>2 DEF ErrOK
      <4>2. \A j \in Slots : err[t][j] \in Busy => held'[t][j] \in Conns
        BY <1>0, <1>2, <1>4, <4>1 DEF ErrOK, Busy, Slots
      <4> QED BY <2>2, <3>1, <4>1, <4>2, <1>0, <1>1 DEF ErrOK
    <3>5. ThreadInv' /\ ErrInv'
      BY <2>2, <3>1, <3>3, <3>4, ThreadFrame, OtherErr DEF OwnInv
    <3> QED BY <2>2, <3>1, <3>2, <3>5
  <2> QED BY <1>1, <2>1, <2>2
<1>6. RpcType' /\ SockType'
    BY <1>0, <1>1, <1>3, UncountType, TypeFrame DEF OwnInv, TypeOK
<1> QED BY <1>1, <1>2, <1>3, <1>5, <1>6, ReleaseOwn

LEMMA PutIdleOwn ==
    ASSUME OwnInv, NEW t \in Threads, PutIdle(t)
    PROVE  OwnInv'
<1>0. RunType /\ RpcType /\ ConnType
    BY DEF OwnInv, TypeOK
<1>1. /\ pc[t] = "finish" /\ i[t] <= Njob(t) /\ Cur(t) # NoConn
      /\ idle' = [idle EXCEPT ![rpc[Cur(t)]] = Append(@, Cur(t))]
      /\ st' = [st EXCEPT ![Cur(t)] = "idle"]
      /\ waiters' = [waiters EXCEPT ![rpc[Cur(t)]] = {}]
      /\ held' = [held EXCEPT ![t][i[t]] = NoConn]
      /\ i' = [i EXCEPT ![t] = @ + 1]
      /\ UNCHANGED <<nsocks, httpAvail, rpc, http, sockVars, listenVars>>
      /\ UNCHANGED <<pc, jobs, err, reply, timedout, nrun>>
    BY DEF PutIdle, IsPut, Finishing, Broadcast
<1>2. i[t] \in Slots /\ Cur(t) \in Conns
    BY <1>1, FinishFacts
<1>3. held'[t][i[t]] = NoConn /\ pc' = [pc EXCEPT ![t] = "finish"]
    BY <1>0, <1>1, <1>2 DEF RunType
<1>4. RunType' /\ ThreadInv' /\ ErrInv'
    BY <1>1, <1>3, FinishNext
<1>5. RpcType'
  <2>1. rpc[Cur(t)] \in Rpcs
    BY <1>0, <1>2 DEF ConnType
  <2>2. Append(idle[rpc[Cur(t)]], Cur(t)) \in Seq(Conns)
    BY <1>0, <1>2, <2>1, AppendProperties DEF RpcType
  <2> QED BY <1>0, <1>1, <2>1, <2>2 DEF RpcType
<1>6. SockType' /\ \A u \in Threads \ {t} : i'[u] = i[u]
    BY <1>0, <1>1, TypeFrame DEF OwnInv, TypeOK, RunType
<1> QED BY <1>1, <1>2, <1>4, <1>5, <1>6, ReleaseOwn

LEMMA CloseConnOwn ==
    ASSUME OwnInv, NEW t \in Threads, CloseConn(t)
    PROVE  OwnInv'
<1>0. RunType /\ SockType /\ ThreadOK(t)
    BY DEF OwnInv, TypeOK, ThreadInv
<1>1. /\ pc[t] = "close" /\ st' = [st EXCEPT ![Cur(t)] = "free"]
      /\ resp' = [resp EXCEPT ![Cur(t)] = <<>>]
      /\ held' = [held EXCEPT ![t][i[t]] = NoConn]
      /\ i' = [i EXCEPT ![t] = @ + 1] /\ pc' = [pc EXCEPT ![t] = "finish"]
      /\ UNCHANGED <<rpcVars, rpc, http, up, req, executed, ndrops>>
      /\ UNCHANGED <<jobs, err, reply, timedout, nrun, listenVars>>
    BY DEF CloseConn, CloseSock, AfterClose
<1>2. i[t] <= Njob(t) /\ Cur(t) \in Conns
    BY <1>0, <1>1 DEF ThreadOK, Cur
<1>3. i[t] \in Slots
    BY <1>1, <1>2, FinishFacts
<1>4. /\ held'[t][i[t]] = NoConn /\ pc'[t] = "finish"
      /\ \A u \in Threads \ {t} : i'[u] = i[u] /\ pc'[u] = pc[u]
    BY <1>0, <1>1, <1>3 DEF RunType
<1>5. RunType' /\ ThreadInv' /\ ErrInv'
    BY <1>1, <1>2, <1>4, FinishNext
<1>6. RpcType' /\ SockType'
  <2>1. SockType'
    BY <1>0, <1>1, <1>2 DEF SockType
  <2> QED BY <1>1, <2>1, TypeFrame DEF OwnInv, TypeOK
<1> QED BY <1>1, <1>2, <1>3, <1>4, <1>5, <1>6, ReleaseOwn DEF rpcVars

-----------------------------------------------------------------------------
(* Steps of the listen thread and of the servers.                          *)

LEMMA ThreadsIdle ==
    ASSUME OwnInv, UNCHANGED runVars
    PROVE  RunType' /\ ThreadInv' /\ ErrInv'
<1>1. ThreadInv'
    BY DEF OwnInv, ThreadInv, ThreadOK, Njob, runVars
<1>2. ErrInv'
    BY DEF OwnInv, ErrInv, ErrOK, runVars
<1> QED BY <1>1, <1>2, TypeFrame DEF OwnInv, TypeOK

LEMMA AcceptOwn ==
    ASSUME OwnInv, NEW c \in Conns, NEW r \in Rpcs, Accept(c, r)
    PROVE  OwnInv'
<1>0. RpcType /\ ConnType /\ SockType /\ ListenType /\ IdleInv /\ ListenInv
    BY DEF OwnInv, TypeOK
<1>1. /\ lpc = "listen" /\ st[c] = "free"
      /\ st' = [d \in Conns |-> IF d = c \/ d \in Range(idle[r]) THEN "scan" ELSE st[d]]
      /\ rpc' = [rpc EXCEPT ![c] = r] /\ http' = [http EXCEPT ![c] = "no"]
      /\ up' = [up EXCEPT ![c] = TRUE] /\ req' = [req EXCEPT ![c] = <<>>]
      /\ resp' = [resp EXCEPT ![c] = <<>>]
      /\ nsocks' = [nsocks EXCEPT ![r] = nsocks[r] + 1]
      /\ scan' = Append(idle[r], c) /\ idle' = [idle EXCEPT ![r] = <<>>]
      /\ nfds' = nsocks'[r] /\ keep' = <<>> /\ lrpc' = r /\ seen' = trigger
      /\ lpc' = "poll" /\ UNCHANGED <<executed, ndrops>>
      /\ UNCHANGED <<httpAvail, waiters, runVars, trigger, drop, todo>>
    BY DEF Accept, Detach, PollSize
<1>2. /\ idle[r] \in Seq(Conns) /\ IsInjective(idle[r]) /\ Range(idle[r]) \subseteq Conns
      /\ \A d \in Range(idle[r]) : st[d] = "idle" /\ rpc[d] = r
      /\ c \notin Range(idle[r])
    BY <1>0, <1>1, RangeOfSeq DEF RpcType, IdleInv
<1>3. /\ scan' \in Seq(Conns) /\ IsInjective(scan')
      /\ Range(scan') = Range(idle[r]) \cup {c}
    BY <1>1, <1>2, AppendList
<1>4. TypeOK'
  <2>1. RpcType'
    BY <1>0, <1>1 DEF RpcType
  <2>2. ConnType'
    BY <1>0, <1>1 DEF ConnType, ConnStates
  <2>3. SockType'
    BY <1>0, <1>1 DEF SockType
  <2>4. ListenType'
    <3>1. nfds' \in Int
      BY <1>1, <2>1 DEF RpcType
    <3>2. trigger' \in BOOLEAN /\ seen' \in BOOLEAN
      BY <1>0, <1>1, Zenon DEF ListenType
    <3> QED BY <1>0, <1>1, <1>3, <3>1, <3>2 DEF ListenType
  <2> QED BY <1>1, <2>1, <2>2, <2>3, <2>4, ThreadsIdle DEF TypeOK
<1>5. HeldInv'
  <2>1. \A t \in Threads, j \in Slots : held[t][j] # NoConn =>
            /\ held[t][j] \in Conns /\ st[held[t][j]] \notin {"free", "idle"}
    BY HeldFacts
  <2>2. \A t \in Threads, j \in Slots : held[t][j] # NoConn =>
            held[t][j] # c /\ held[t][j] \notin Range(idle[r])
    BY <1>1, <1>2, <2>1
  <2> QED BY <1>0, <1>1, <2>1, <2>2, HeldListen DEF ConnType
<1>6. IdleInv'
  <2> SUFFICES ASSUME NEW q \in Rpcs
               PROVE  /\ IsInjective(idle'[q])
                      /\ \A d \in Range(idle'[q]) : st'[d] = "idle" /\ rpc'[d] = q
    BY DEF IdleInv
  <2>1. CASE q = r
    <3>1. idle'[q] = <<>>
      BY <2>1, <1>0, <1>1 DEF RpcType
    <3> QED BY <3>1, EmptyList
  <2>2. CASE q # r
    <3>1. idle'[q] = idle[q] /\ Range(idle[q]) \subseteq Conns
      BY <2>2, <1>0, <1>1, RangeOfSeq DEF RpcType
    <3>2. \A d \in Range(idle[q]) : d # c /\ d \notin Range(idle[r])
      BY <2>2, <1>0, <1>1, <1>2 DEF IdleInv
    <3> QED BY <3>1, <3>2, <1>0, <1>1 DEF IdleInv, ConnType
  <2> QED BY <2>1, <2>2
<1>7. ListenInv'
  <2>1. drop' = {} /\ Range(keep') = {} /\ IsInjective(keep')
    BY <1>0, <1>1, EmptyList DEF ListenInv
  <2>2. \A d \in Range(scan') : st'[d] = "scan" /\ rpc'[d] = r
    BY <1>0, <1>1, <1>2, <1>3 DEF ConnType
  <2> QED BY <1>1, <1>3, <2>1, <2>2 DEF ListenInv
<1> QED BY <1>1, <1>4, <1>5, <1>6, <1>7, ThreadsIdle DEF OwnInv

LEMMA ScanPollOwn ==
    ASSUME OwnInv, ScanPoll
    PROVE  OwnInv'
<1>0. ListenType /\ ListenInv
    BY DEF OwnInv, TypeOK
<1>1. /\ lpc = "poll" /\ drop' = {c \in Range(scan) : Readable(c)} /\ lpc' = "sweep"
      /\ UNCHANGED <<rpcVars, connVars, sockVars, runVars>>
      /\ UNCHANGED <<trigger, seen, lrpc, scan, keep, nfds, todo>>
    BY DEF ScanPoll
<1>2. drop' \subseteq Range(scan) /\ Range(scan) \subseteq Conns
    BY <1>0, <1>1, RangeOfSeq DEF ListenType
<1>3. TypeOK'
  <2>1. ListenType'
    BY <1>0, <1>1, <1>2 DEF ListenType
  <2> QED BY <1>1, <2>1, TypeFrame DEF OwnInv, TypeOK
<1>4. HeldInv' /\ IdleInv'
    BY <1>1, HeldListen DEF OwnInv, IdleInv, rpcVars, connVars
<1>5. ListenInv'
  <2>1. \A c \in Range(scan) : \A t \in Threads, j \in Slots : held[t][j] # c
    <3>1. NoConn \notin Range(scan)
      BY <1>2, PoolAssumption
    <3> QED BY <3>1, <1>0 DEF OwnInv, HeldInv, ListenInv, SlotState
  <2> QED BY <2>1, <1>0, <1>1, <1>2 DEF ListenInv, connVars, runVars
<1> QED BY <1>1, <1>3, <1>4, <1>5, ThreadsIdle DEF OwnInv

LEMMA ScanStepOwn ==
    ASSUME OwnInv, ScanClose \/ ScanKeep
    PROVE  OwnInv'
<1> DEFINE h == Head(scan)
<1>0. ListenType /\ ListenInv /\ ConnType /\ SockType /\ RpcType
    BY DEF OwnInv, TypeOK
<1>1. /\ lpc = "sweep" /\ scan # <<>> /\ scan' = Tail(scan)
      /\ UNCHANGED <<rpcVars, rpc, http, up, req, executed, ndrops, runVars>>
      /\ UNCHANGED <<lpc, trigger, seen, lrpc, drop, nfds, todo>>
    BY DEF ScanClose, ScanKeep, connVars, sockVars
<1>2. /\ h \in Conns /\ h \in Range(scan) /\ Tail(scan) \in Seq(Conns)
      /\ IsInjective(Tail(scan)) /\ Range(Tail(scan)) = Range(scan) \ {h}
      /\ st[h] = "scan" /\ rpc[h] = lrpc
    BY <1>0, <1>1, TailList DEF ListenType, ListenInv
<1>3. \/ /\ h \in drop /\ st' = [st EXCEPT ![h] = "closed"]
         /\ resp' = [resp EXCEPT ![h] = <<>>] /\ keep' = keep
      \/ /\ h \notin drop /\ keep' = <<h>> \o keep /\ UNCHANGED <<st, resp>>
    BY DEF ScanClose, ScanKeep, CloseSock, connVars, sockVars
<1> HIDE DEF h
<1>4. /\ keep' \in Seq(Conns) /\ IsInjective(keep')
      /\ \/ h \in drop /\ keep' = keep
         \/ h \notin drop /\ Range(keep') = {h} \cup Range(keep)
  <2>1. CASE keep' = <<h>> \o keep /\ h \notin drop
    <3> DEFINE a == <<h>>
    <3>1. a \in Seq(Conns) /\ IsInjective(a) /\ Range(a) = {h}
      BY <1>2 DEF IsInjective, Range
    <3>2. keep' = a \o keep
      BY <2>1
    <3> HIDE DEF a
    <3>3. /\ keep \in Seq(Conns) /\ IsInjective(keep) /\ h \notin Range(keep)
          /\ Range(a) \cap Range(keep) = {}
      BY <1>0, <1>2, <3>1 DEF ListenType, ListenInv
    <3>4. /\ a \o keep \in Seq(Conns) /\ IsInjective(a \o keep)
          /\ Range(a \o keep) = Range(a) \cup Range(keep)
      BY <3>1, <3>3, ConcatList
    <3> QED BY <2>1, <3>1, <3>2, <3>4
  <2>2. CASE keep' = keep /\ h \in drop
    BY <2>2, <1>0 DEF ListenType, ListenInv
  <2> QED BY <1>3, <2>1, <2>2
<1>5. TypeOK'
  <2>1. ConnType'
    BY <1>0, <1>1, <1>3 DEF ConnType, ConnStates
  <2>2. SockType'
    BY <1>0, <1>1, <1>2, <1>3, CloseType, TypeFrame DEF sockVars
  <2>3. ListenType'
    BY <1>0, <1>1, <1>2, <1>4 DEF ListenType
  <2> QED BY <1>1, <2>1, <2>2, <2>3, TypeFrame, ThreadsIdle DEF OwnInv, TypeOK
<1>6. \A d \in Conns : d # h => st'[d] = st[d]
    BY <1>0, <1>3 DEF ConnType
<1>7. HeldInv'
  <2>1. \A t \in Threads, j \in Slots : held[t][j] # NoConn =>
            held[t][j] \in Conns /\ held[t][j] # h
    BY <1>2, HeldFacts
  <2> QED BY <1>1, <1>6, <2>1, HeldListen
<1>8. IdleInv'
    BY <1>0, <1>1, <1>2, <1>6, IdleFrame DEF OwnInv, rpcVars
<1>9. ListenInv'
  <2>1. /\ Range(scan) \subseteq Conns /\ Range(keep) \subseteq Conns
        /\ h \notin Range(keep)
    BY <1>0, <1>2, RangeOfSeq DEF ListenType, ListenInv
  <2>2. /\ Range(scan') \cap Range(keep') = {} /\ drop' \cap Range(keep') = {}
        /\ IsInjective(scan')
    BY <1>0, <1>1, <1>2, <1>4, <2>1 DEF ListenInv
  <2>3. \A d \in Range(scan') \cup Range(keep') : st'[d] = "scan" /\ rpc'[d] = lrpc'
    BY <1>0, <1>1, <1>2, <1>3, <1>4, <1>6, <2>1 DEF ListenInv
  <2>4. \A d \in drop : d \in Range(scan') \/ st'[d] = "closed"
    <3>1. h \in drop => st'[h] = "closed"
      BY <1>0, <1>2, <1>3 DEF ConnType
    <3>2. drop \subseteq Conns
      BY <1>0 DEF ListenType
    <3> QED BY <1>0, <1>1, <1>2, <1>6, <3>1, <3>2 DEF ListenInv
  <2>5. \A d \in drop : rpc'[d] = lrpc' /\ \A t \in Threads, j \in Slots : held'[t][j] # d
    BY <1>0, <1>1 DEF ListenInv, runVars
  <2> QED BY <1>0, <1>1, <1>4, <2>2, <2>3, <2>4, <2>5 DEF ListenInv
<1> QED BY <1>1, <1>5, <1>7, <1>8, <1>9, ThreadsIdle DEF OwnInv

LEMMA DrainNextFacts ==
    ASSUME NEW S \in SUBSET Rpcs, DrainNext(S), ListenType
    PROVE  lpc' \in {"drain", "exit"} /\ lrpc' \in Rpcs /\ todo' \in SUBSET Rpcs
BY DEF DrainNext, ListenType

LEMMA RelistOwn ==
    ASSUME OwnInv, Relist
    PROVE  OwnInv'
<1>0. RpcType /\ ConnType /\ ListenType /\ IdleInv /\ ListenInv
    BY DEF OwnInv, TypeOK
<1>1. /\ lpc = "sweep" /\ scan = <<>>
      /\ nsocks' = [nsocks EXCEPT ![lrpc] = nsocks[lrpc] - Cardinality(drop)]
      /\ st' = [c \in Conns |-> IF c \in drop THEN "free"
                                ELSE IF c \in Range(keep) THEN "idle" ELSE st[c]]
      /\ idle' = [idle EXCEPT ![lrpc] = idle[lrpc] \o keep]
      /\ waiters' = [waiters EXCEPT ![lrpc] = {}]
      /\ drop' = {} /\ keep' = <<>> /\ nfds' = 0
      /\ UNCHANGED <<httpAvail, rpc, http, sockVars, runVars, trigger, seen, scan>>
    BY DEF Relist, Broadcast
<1>2. lpc' \in {"listen", "drain", "exit"} /\ lrpc' \in Rpcs /\ todo' \in SUBSET Rpcs
  <2>1. \/ DrainNext(Rpcs)
        \/ lpc' = "listen" /\ UNCHANGED <<lrpc, todo>>
    BY DEF Relist
  <2> QED BY <1>0, <2>1, DrainNextFacts DEF ListenType
<1>3. /\ lrpc \in Rpcs /\ idle[lrpc] \in Seq(Conns) /\ keep \in Seq(Conns)
      /\ IsInjective(idle[lrpc]) /\ IsInjective(keep)
      /\ Range(idle[lrpc]) \cap Range(keep) = {}
      /\ \A c \in Range(keep) : st[c] = "scan" /\ rpc[c] = lrpc
      /\ Range(keep) \subseteq Conns
  <2>1. lrpc \in Rpcs /\ idle[lrpc] \in Seq(Conns) /\ keep \in Seq(Conns)
    BY <1>0 DEF RpcType, ListenType
  <2>2. IsInjective(idle[lrpc]) /\ \A c \in Range(idle[lrpc]) : st[c] = "idle"
    BY <1>0, <2>1 DEF IdleInv
  <2>3. IsInjective(keep) /\ \A c \in Range(keep) : st[c] = "scan" /\ rpc[c] = lrpc
    BY <1>0 DEF ListenInv
  <2>4. Range(idle[lrpc]) \cap Range(keep) = {}
    BY <2>2, <2>3
  <2>5. Range(keep) \subseteq Conns
    BY <2>1, RangeOfSeq
  <2> QED BY <2>1, <2>2, <2>3, <2>4, <2>5
<1>4. /\ idle[lrpc] \o keep \in Seq(Conns) /\ IsInjective(idle[lrpc] \o keep)
      /\ Range(idle[lrpc] \o keep) = Range(idle[lrpc]) \cup Range(keep)
  <2> DEFINE a == idle[lrpc]
  <2>1. /\ a \in Seq(Conns) /\ IsInjective(a)
        /\ keep \in Seq(Conns) /\ IsInjective(keep) /\ Range(a) \cap Range(keep) = {}
    BY <1>3
  <2> HIDE DEF a
  <2>2. /\ a \o keep \in Seq(Conns) /\ IsInjective(a \o keep)
        /\ Range(a \o keep) = Range(a) \cup Range(keep)
    BY <2>1, ConcatList
  <2> QED BY <2>2 DEF a
<1>5. \A c \in drop : c \in Conns /\ st[c] = "closed" /\ c \notin Range(keep)
    BY <1>0, <1>1, EmptyList DEF ListenType, ListenInv
<1>6. TypeOK'
  <2>1. RpcType'
    <3>1. Cardinality(drop) \in Int
      BY <1>0, PoolAssumption, FS_Subset, FS_CardinalityType DEF ListenType
    <3> QED BY <1>0, <1>1, <1>3, <1>4, <3>1 DEF RpcType
  <2>2. ConnType'
    BY <1>0, <1>1 DEF ConnType, ConnStates
  <2>3. ListenType'
    BY <1>0, <1>1, <1>2 DEF ListenType
  <2> QED BY <1>1, <2>1, <2>2, <2>3, TypeFrame, ThreadsIdle DEF OwnInv, TypeOK
<1>7. HeldInv'
  <2>1. \A t \in Threads, j \in Slots : held[t][j] # NoConn =>
            /\ held[t][j] \in Conns /\ held[t][j] \notin drop
            /\ held[t][j] \notin Range(keep)
    BY <1>3, HeldFacts, DropFacts
  <2> QED BY <1>1, <2>1, HeldListen
<1>8. IdleInv'
  <2> SUFFICES ASSUME NEW r \in Rpcs
               PROVE  /\ IsInjective(idle'[r])
                      /\ \A d \in Range(idle'[r]) : st'[d] = "idle" /\ rpc'[d] = r
    BY DEF IdleInv
  <2>1. /\ Range(idle[r]) \subseteq Conns /\ IsInjective(idle[r])
        /\ \A d \in Range(idle[r]) : st[d] = "idle" /\ rpc[d] = r
    BY <1>0, RangeOfSeq DEF RpcType, IdleInv
  <2>2. \A d \in Range(idle[r]) : d \notin drop /\ st'[d] = "idle"
    BY <1>1, <1>5, <2>1
  <2>3. CASE r = lrpc
    <3>1. idle'[r] = idle[lrpc] \o keep
      BY <2>3, <1>0, <1>1 DEF RpcType
    <3>2. \A d \in Range(keep) : st'[d] = "idle"
      BY <1>1, <1>3, <1>5
    <3> QED BY <2>1, <2>2, <2>3, <3>1, <3>2, <1>1, <1>3, <1>4
  <2>4. CASE r # lrpc
    <3>1. idle'[r] = idle[r]
      BY <2>4, <1>0, <1>1 DEF RpcType
    <3> QED BY <2>1, <2>2, <3>1, <1>1
  <2> QED BY <2>3, <2>4
<1>9. ListenInv'
    BY <1>1, <1>2, EmptyList DEF ListenInv
<1> QED BY <1>1, <1>6, <1>7, <1>8, <1>9, ThreadsIdle DEF OwnInv

LEMMA StopOwn ==
    ASSUME OwnInv, StopListener \/ ListenExit
    PROVE  OwnInv'
<1>0. ListenType /\ ListenInv
    BY DEF OwnInv, TypeOK
<1>1. /\ UNCHANGED <<rpcVars, connVars, sockVars, runVars>>
      /\ UNCHANGED <<seen, scan, keep, drop, nfds>>
      /\ \/ trigger' = TRUE /\ UNCHANGED <<lpc, lrpc, todo>>
         \/ trigger' = trigger /\ lpc = "listen" /\ DrainNext(Rpcs)
    BY DEF StopListener, ListenExit
<1>2. TypeOK'
  <2>1. ListenType'
    <3>1. CASE trigger' = TRUE /\ UNCHANGED <<lpc, lrpc, todo>>
      BY <1>0, <1>1, <3>1 DEF ListenType
    <3>2. CASE trigger' = trigger /\ DrainNext(Rpcs)
      BY <1>0, <1>1, <3>2, DrainNextFacts DEF ListenType
    <3> QED BY <1>1, <3>1, <3>2
  <2> QED BY <1>1, <2>1, TypeFrame DEF OwnInv, TypeOK
<1>3. HeldInv' /\ IdleInv'
    BY <1>1, HeldListen DEF OwnInv, IdleInv, rpcVars, connVars
<1>4. ListenInv'
  <2>1. CASE UNCHANGED <<lpc, lrpc, todo>>
    BY <1>0, <1>1, <2>1 DEF ListenInv, connVars, runVars
  <2>2. CASE lpc = "listen" /\ DrainNext(Rpcs)
    <3>1. lpc' \in {"drain", "exit"} /\ scan = <<>> /\ keep = <<>> /\ drop = {}
      BY <2>2, <1>0, DrainNextFacts DEF ListenInv
    <3> QED BY <3>1, <1>1, EmptyList DEF ListenInv
  <2> QED BY <1>1, <2>1, <2>2
<1> QED BY <1>1, <1>2, <1>3, <1>4, ThreadsIdle DEF OwnInv

LEMMA DrainOwn ==
    ASSUME OwnInv, Drain
    PROVE  OwnInv'
<1>0. RpcType /\ ConnType /\ SockType /\ ListenType /\ IdleInv /\ ListenInv
    BY DEF OwnInv, TypeOK
<1>1. /\ lpc = "drain"
      /\ idle' = [idle EXCEPT ![lrpc] = <<>>]
      /\ nsocks' = [nsocks EXCEPT ![lrpc] = nsocks[lrpc] - Len(idle[lrpc])]
      /\ st' = [c \in Conns |-> IF c \in Range(idle[lrpc]) THEN "free" ELSE st[c]]
      /\ resp' = [c \in Conns |-> IF c \in Range(idle[lrpc]) THEN <<>> ELSE resp[c]]
      /\ UNCHANGED <<httpAvail, rpc, http, up, req, executed, ndrops, runVars>>
      /\ UNCHANGED <<trigger, seen, scan, keep, drop, nfds>>
      /\ \/ /\ waiters' = [waiters EXCEPT ![lrpc] = waiters[lrpc] \cup {Listener}]
            /\ UNCHANGED <<lpc, lrpc, todo>>
         \/ DrainNext(todo) /\ UNCHANGED waiters
    BY DEF Drain
<1>2. lpc' \in {"drain", "exit"} /\ lrpc' \in Rpcs /\ todo' \in SUBSET Rpcs
    BY <1>0, <1>1, DrainNextFacts DEF ListenType
<1>3. lrpc \in Rpcs /\ scan = <<>> /\ keep = <<>> /\ drop = {}
    BY <1>0, <1>1 DEF ListenInv, ListenType
<1>4. TypeOK'
  <2>1. RpcType'
    <3>1. Len(idle[lrpc]) \in Nat
      BY <1>0, <1>3, LenProperties DEF RpcType
    <3>2. waiters' \in [Rpcs -> SUBSET (Threads \cup {Listener})]
      BY <1>0, <1>1, <1>3 DEF RpcType
    <3>3. idle' \in [Rpcs -> Seq(Conns)]
      <4>1. idle \in [Rpcs -> Seq(Conns)] /\ <<>> \in Seq(Conns)
        BY <1>0 DEF RpcType
      <4> QED BY <1>1, <1>3, <4>1
    <3>4. nsocks' \in [Rpcs -> Int] /\ httpAvail' \in [Rpcs -> Int]
      BY <1>0, <1>1, <1>3, <3>1 DEF RpcType
    <3> QED BY <3>2, <3>3, <3>4 DEF RpcType
  <2>2. ConnType'
    BY <1>0, <1>1 DEF ConnType, ConnStates
  <2>3. SockType'
    BY <1>0, <1>1 DEF SockType
  <2>4. ListenType'
    BY <1>0, <1>1, <1>2 DEF ListenType
  <2> QED BY <1>1, <2>1, <2>2, <2>3, <2>4, ThreadsIdle DEF TypeOK
<1>5. HeldInv'
  <2>1. \A t \in Threads, j \in Slots : held[t][j] # NoConn =>
            held[t][j] \in Conns /\ held[t][j] \notin Range(idle[lrpc])
    BY <1>0, <1>3, HeldFacts DEF IdleInv
  <2> QED BY <1>1, <2>1, HeldListen
<1>6. IdleInv'
  <2> SUFFICES ASSUME NEW r \in Rpcs
               PROVE  /\ IsInjective(idle'[r])
                      /\ \A d \in Range(idle'[r]) : st'[d] = "idle" /\ rpc'[d] = r
    BY DEF IdleInv
  <2>1. CASE r = lrpc
    <3>1. idle'[r] = <<>>
      BY <2>1, <1>0, <1>1 DEF RpcType
    <3> QED BY <3>1, EmptyList
  <2>2. CASE r # lrpc
    <3>1. idle'[r] = idle[r] /\ Range(idle[r]) \subseteq Conns
      BY <2>2, <1>0, <1>1, RangeOfSeq DEF RpcType
    <3>2. \A d \in Range(idle[r]) : d \notin Range(idle[lrpc])
      BY <2>2, <1>0, <1>3 DEF IdleInv
    <3> QED BY <3>1, <3>2, <1>0, <1>1 DEF IdleInv
  <2> QED BY <2>1, <2>2
<1>7. ListenInv'
    BY <1>1, <1>2, <1>3, EmptyList DEF ListenInv
<1> QED BY <1>1, <1>4, <1>5, <1>6, <1>7, ThreadsIdle DEF OwnInv

LEMMA ServerOwn ==
    ASSUME OwnInv, NEW c \in Conns, ServerReply(c) \/ ServerDrop(c)
    PROVE  OwnInv'
<1>0. SockType
    BY DEF OwnInv, TypeOK
<1>1. UNCHANGED <<rpcVars, connVars, runVars, listenVars>>
    BY DEF ServerReply, ServerDrop
<1>2. SockType'
  <2>1. CASE ServerReply(c)
    <3>1. req[c] \in Seq(Requests) /\ req[c] # <<>> /\ resp[c] \in Seq(Requests)
      BY <2>1, <1>0 DEF ServerReply, SockType
    <3>2. Head(req[c]) \in Requests /\ Tail(req[c]) \in Seq(Requests)
      BY <3>1, HeadTailProperties
    <3>3. Append(resp[c], Head(req[c])) \in Seq(Requests)
      BY <3>1, <3>2, AppendProperties
    <3>4. /\ executed' = executed \cup {Head(req[c])}
          /\ req' = [req EXCEPT ![c] = Tail(req[c])]
          /\ resp' \in {resp, [resp EXCEPT ![c] = Append(resp[c], Head(req[c]))]}
          /\ UNCHANGED <<up, ndrops>>
      BY <2>1, <1>0 DEF ServerReply, SockType
    <3> QED BY <1>0, <3>2, <3>3, <3>4 DEF SockType
  <2>2. CASE ServerDrop(c)
    <3>1. /\ ndrops < MaxDrops /\ ndrops' = ndrops + 1
          /\ up' = [up EXCEPT ![c] = FALSE] /\ req' = [req EXCEPT ![c] = <<>>]
          /\ UNCHANGED executed
      BY <2>2 DEF ServerDrop
    <3>2. ndrops' \in 0..MaxDrops
      BY <1>0, <3>1, PoolAssumption DEF SockType
    <3>3. PICK q \in {resp[c], <<>>} : resp' = [resp EXCEPT ![c] = q]
      BY <2>2, Zenon DEF ServerDrop
    <3>4. q \in Seq(Requests)
      <4>1. resp[c] \in Seq(Requests)
        BY <1>0 DEF SockType
      <4>2. <<>> \in Seq(Requests)
        OBVIOUS
      <4> QED BY <3>3, <4>1, <4>2
    <3>5. resp' \in [Conns -> Seq(Requests)]
      BY <1>0, <3>3, <3>4 DEF SockType
    <3>6. req' \in [Conns -> Seq(Requests)] /\ up' \in [Conns -> BOOLEAN]
      BY <1>0, <3>1 DEF SockType
    <3> QED BY <1>0, <3>1, <3>2, <3>5, <3>6 DEF SockType
  <2> QED BY <2>1, <2>2
<1>3. TypeOK'
    BY <1>1, <1>2, TypeFrame DEF OwnInv, TypeOK
<1>4. HeldInv' /\ IdleInv'
    BY <1>1, HeldListen DEF OwnInv, IdleInv, rpcVars, connVars
<1>5. ListenInv'
    BY <1>1, ListenFrame, DropFacts DEF connVars, runVars
<1> QED BY <1>1, <1>3, <1>4, <1>5, ThreadsIdle DEF OwnInv

-----------------------------------------------------------------------------
(* The types and the ownership of connections, for every step.             *)

LEMMA StepOwn == OwnInv /\ [Next]_vars => OwnInv'
<1> SUFFICES ASSUME OwnInv, [Next]_vars PROVE OwnInv'
    OBVIOUS
<1>1. CASE UNCHANGED vars
  <2>1. UNCHANGED <<rpcVars, connVars, sockVars, runVars, listenVars>>
    BY <1>1 DEF vars
  <2>2. TypeOK'
    BY <2>1, TypeFrame DEF OwnInv, TypeOK
  <2>3. HeldInv' /\ IdleInv'
    BY <2>1, HeldListen DEF OwnInv, IdleInv, rpcVars, connVars
  <2>4. ListenInv'
    BY <2>1, ListenFrame, DropFacts DEF connVars, runVars
  <2> QED BY <2>1, <2>2, <2>3, <2>4, ThreadsIdle DEF OwnInv
<1>2. ASSUME NEW t \in Threads, RunStart(t) PROVE OwnInv'
    BY <1>2, RunStartOwn
<1>3. ASSUME NEW t \in Threads, ThreadStep(t) PROVE OwnInv'
    BY <1>3, PopOwn, WaitOwn, NoMoveOwn, CheckDropOwn, DroppedOwn, ConnectOwn,
       StopRunOwn, FinishSkipOwn, PutIdleOwn, RetireOwn, CloseConnOwn, ReturnOwn
       DEF ThreadStep
<1>4. ASSUME NEW t \in Threads, NEW j \in Slots, JobStep(t, j) PROVE OwnInv'
    BY <1>4, JobStepOwn
<1>5. ASSUME NEW c \in Conns, NEW r \in Rpcs, Accept(c, r) PROVE OwnInv'
    BY <1>5, AcceptOwn
<1>6. ASSUME NEW c \in Conns, ServerReply(c) \/ ServerDrop(c) PROVE OwnInv'
    BY <1>6, ServerOwn
<1>7. CASE StopListener \/ ListenStep
    BY <1>7, ScanPollOwn, ScanStepOwn, RelistOwn, StopOwn, DrainOwn DEF ListenStep
<1> QED BY <1>1, <1>2, <1>3, <1>4, <1>5, <1>6, <1>7 DEF Next

LEMMA OwnInvariant == Spec => []OwnInv
BY InitOwn, StepOwn, PTL DEF Spec

\* Every variable of the RPC client keeps its type: the loops of Dci_RpcRun
\* stay within conns[], no slot is skipped or used twice.
THEOREM TypeCorrect == Spec => []TypeOK
<1>1. OwnInv => TypeOK
    BY DEF OwnInv
<1> QED BY <1>1, OwnInvariant, PTL

\* A connection is in one place at a time, for every number of threads, end
\* points, connections and jobs: RpcPop, RpcPush and RpcAccept never let two
\* threads use one socket.
THEOREM OneOwnerAlways == Spec => []OneOwner
<1>1. OwnInv => OneOwner
    BY HeldFacts DEF OwnInv, OneOwner, HeldInv, IdleInv, ListenInv
<1> QED BY <1>1, OwnInvariant, PTL

-----------------------------------------------------------------------------
(* How a step can change the number of counted connections.                *)

LEMMA CountedFinite ==
    ASSUME NEW r
    PROVE  IsFiniteSet(CountedConns(r)) /\ Cardinality(CountedConns(r)) \in Nat
<1>1. CountedConns(r) \subseteq Conns
    BY DEF CountedConns
<1> QED BY <1>1, PoolAssumption, FS_Subset, FS_CardinalityType

LEMMA CountSame ==
    ASSUME NsocksExact, nsocks' = nsocks,
           \A c \in Conns : /\ st'[c] \in Counted <=> st[c] \in Counted
                            /\ st[c] \in Counted => rpc'[c] = rpc[c]
    PROVE  NsocksExact'
<1> SUFFICES ASSUME NEW r \in Rpcs PROVE nsocks'[r] = Cardinality(CountedConns(r)')
    BY DEF NsocksExact
<1>1. CountedConns(r)' = CountedConns(r)
    BY DEF CountedConns
<1> QED BY <1>1 DEF NsocksExact

LEMMA CountAdd ==
    ASSUME NsocksExact, RpcType, NEW c \in Conns, NEW r \in Rpcs,
           st[c] \notin Counted, st'[c] \in Counted, rpc'[c] = r,
           nsocks' = [nsocks EXCEPT ![r] = @ + 1],
           \A d \in Conns \ {c} : /\ st'[d] \in Counted <=> st[d] \in Counted
                                  /\ st[d] \in Counted => rpc'[d] = rpc[d]
    PROVE  NsocksExact'
<1> SUFFICES ASSUME NEW q \in Rpcs PROVE nsocks'[q] = Cardinality(CountedConns(q)')
    BY DEF NsocksExact
<1>1. CASE q = r
  <2>1. CountedConns(q)' = CountedConns(q) \cup {c} /\ c \notin CountedConns(q)
    BY <1>1 DEF CountedConns
  <2>2. Cardinality(CountedConns(q)') = Cardinality(CountedConns(q)) + 1
    BY <2>1, CountedFinite, FS_AddElement
  <2> QED BY <1>1, <2>2 DEF NsocksExact, RpcType
<1>2. CASE q # r
  <2>1. CountedConns(q)' = CountedConns(q)
    BY <1>2 DEF CountedConns
  <2> QED BY <1>2, <2>1 DEF NsocksExact, RpcType
<1> QED BY <1>1, <1>2

LEMMA CountRemove ==
    ASSUME NsocksExact, RpcType, NEW r \in Rpcs, NEW D \in SUBSET CountedConns(r),
           \A d \in D : st'[d] \notin Counted,
           nsocks' = [nsocks EXCEPT ![r] = @ - Cardinality(D)],
           \A d \in Conns \ D : /\ st'[d] \in Counted <=> st[d] \in Counted
                                /\ st[d] \in Counted => rpc'[d] = rpc[d]
    PROVE  NsocksExact'
<1> SUFFICES ASSUME NEW q \in Rpcs PROVE nsocks'[q] = Cardinality(CountedConns(q)')
    BY DEF NsocksExact
<1>1. CASE q = r
  <2>1. CountedConns(q)' = CountedConns(q) \ D
    BY <1>1 DEF CountedConns
  <2>2. IsFiniteSet(D) /\ Cardinality(D) \in Nat
    BY <1>1, CountedFinite, FS_Subset, FS_CardinalityType
  <2>3. Cardinality(CountedConns(q) \ D) =
            Cardinality(CountedConns(q)) - Cardinality(CountedConns(q) \cap D)
    BY <2>2, CountedFinite, FS_Difference
  <2>4. CountedConns(q) \cap D = D
    BY <1>1
  <2> QED BY <1>1, <2>1, <2>2, <2>3, <2>4, CountedFinite DEF NsocksExact, RpcType
<1>2. CASE q # r
  <2>1. CountedConns(q)' = CountedConns(q)
    BY <1>2 DEF CountedConns
  <2> QED BY <1>2, <2>1 DEF NsocksExact, RpcType
<1> QED BY <1>1, <1>2

\* The current connection of a thread is counted until it is retired.
LEMMA CurCounted ==
    ASSUME OwnInv, NEW t \in Threads, i[t] \in Slots, Cur(t) \in Conns, pc[t] # "close"
    PROVE  st[Cur(t)] \in Counted
<1>1. st[Cur(t)] = SlotState(t, i[t])
    BY PoolAssumption DEF OwnInv, HeldInv, Cur
<1> QED BY <1>1 DEF SlotState, Counted

LEMMA UncountExact ==
    ASSUME OwnInv, NsocksExact, NEW t \in Threads, i[t] \in Slots, Cur(t) \in Conns,
           pc[t] # "close", Uncount(Cur(t)), NEW s \in {"free", "retired"},
           st' = [st EXCEPT ![Cur(t)] = s], rpc' = rpc
    PROVE  NsocksExact'
<1>0. RpcType /\ ConnType
    BY DEF OwnInv, TypeOK
<1>1. st[Cur(t)] \in Counted
    BY CurCounted
<1>2. rpc[Cur(t)] \in Rpcs /\ {Cur(t)} \in SUBSET CountedConns(rpc[Cur(t)])
    BY <1>0, <1>1 DEF ConnType, CountedConns
<1>3. nsocks' = [nsocks EXCEPT ![rpc[Cur(t)]] = @ - Cardinality({Cur(t)})]
    BY FS_Singleton DEF Uncount
<1>4. /\ st'[Cur(t)] \notin Counted
      /\ \A d \in Conns \ {Cur(t)} : st'[d] = st[d]
    BY <1>0 DEF ConnType, Counted
<1> QED BY <1>0, <1>2, <1>3, <1>4, CountRemove

LEMMA ThreadCount ==
    ASSUME OwnInv, NsocksExact, NEW t \in Threads, ThreadStep(t)
    PROVE  NsocksExact'
<1>0. RpcType /\ ConnType /\ IdleInv /\ ThreadOK(t)
    BY DEF OwnInv, TypeOK, ThreadInv
<1>1. CASE \/ GetWait(t) \/ GetTimeout(t) \/ GetNone(t) \/ CheckOk(t) \/ ConnectFail(t)
           \/ RunEnd(t) \/ RunTimeout(t) \/ FinishSkip(t) \/ Return(t)
  <2>1. nsocks' = nsocks /\ st' = st /\ rpc' = rpc
    BY <1>1 DEF GetWait, GetTimeout, GetNone, CheckOk, ConnectFail, RunEnd,
       RunTimeout, StopRun, FinishSkip, Return, rpcVars, connVars
  <2> QED BY <2>1, CountSame
<1>2. CASE GetPop(t)
  <2>1. R(t) \in Rpcs
    BY <1>2, AcquiringFacts DEF GetPop, InGet, Acquiring
  <2>2. st[Head(idle[R(t)])] = "idle"
    BY <1>0, <1>2, <2>1, TailList DEF GetPop, RpcType, IdleInv
  <2>3. /\ nsocks' = nsocks /\ rpc' = rpc
        /\ st' = [st EXCEPT ![Head(idle[R(t)])] = "busy"]
    BY <1>2 DEF GetPop
  <2> QED BY <1>0, <2>2, <2>3, CountSame DEF ConnType, Counted
<1>3. CASE CheckDrop(t)
  <2>1. i[t] \in Slots /\ Cur(t) \in Conns /\ pc[t] # "close"
    BY <1>0, <1>3, AcquiringFacts DEF CheckDrop, Acquiring, ThreadOK, Cur
  <2>2. /\ nsocks' = nsocks /\ rpc' = rpc
        /\ st' = [st EXCEPT ![Cur(t)] = "closed"]
    BY <1>3 DEF CheckDrop, rpcVars
  <2> QED BY <1>0, <2>1, <2>2, CurCounted, CountSame DEF ConnType, Counted
<1>4. CASE Dropped(t)
  <2>1. i[t] \in Slots /\ Cur(t) \in Conns /\ pc[t] # "close"
    BY <1>0, <1>4, AcquiringFacts DEF Dropped, Acquiring, ThreadOK, Cur
  <2> QED BY <1>4, <2>1, UncountExact DEF Dropped
<1>5. CASE ConnectOk(t)
  <2>1. R(t) \in Rpcs
    BY <1>5, AcquiringFacts DEF ConnectOk, Acquiring
  <2>2. PICK c \in Conns : NewConn(c, R(t), "busy", "close")
    BY <1>5 DEF ConnectOk
  <2>3. /\ st[c] = "free" /\ st' = [st EXCEPT ![c] = "busy"]
        /\ rpc' = [rpc EXCEPT ![c] = R(t)]
        /\ nsocks' = [nsocks EXCEPT ![R(t)] = @ + 1]
    BY <1>5, <2>2 DEF ConnectOk, NewConn
  <2>4. /\ st[c] \notin Counted /\ st'[c] \in Counted /\ rpc'[c] = R(t)
        /\ \A d \in Conns \ {c} : st'[d] = st[d] /\ rpc'[d] = rpc[d]
    BY <1>0, <2>1, <2>3 DEF ConnType, Counted
  <2> QED BY <1>0, <2>1, <2>3, <2>4, CountAdd
<1>6. CASE PutIdle(t)
  <2>1. i[t] \in Slots /\ Cur(t) \in Conns /\ pc[t] # "close"
    BY <1>6, FinishFacts DEF PutIdle, IsPut, Finishing
  <2>2. nsocks' = nsocks /\ rpc' = rpc /\ st' = [st EXCEPT ![Cur(t)] = "idle"]
    BY <1>6 DEF PutIdle
  <2> QED BY <1>0, <2>1, <2>2, CurCounted, CountSame DEF ConnType, Counted
<1>7. CASE PutClose(t) \/ JobFail(t)
  <2>1. i[t] \in Slots /\ Cur(t) \in Conns /\ pc[t] # "close"
    BY <1>7, FinishFacts DEF PutClose, JobFail, IsPut, Finishing
  <2> QED BY <1>7, <2>1, UncountExact DEF PutClose, JobFail, Retire
<1>8. CASE CloseConn(t)
  <2>1. pc[t] = "close" /\ Cur(t) \in Conns /\ i[t] \in Slots
    BY <1>0, <1>8, FinishFacts DEF CloseConn, ThreadOK, Cur
  <2>2. st[Cur(t)] = "retired"
    BY <2>1, PoolAssumption DEF OwnInv, HeldInv, SlotState, Cur
  <2>3. nsocks' = nsocks /\ rpc' = rpc /\ st' = [st EXCEPT ![Cur(t)] = "free"]
    BY <1>8 DEF CloseConn, rpcVars
  <2> QED BY <1>0, <2>2, <2>3, CountSame DEF ConnType, Counted
<1> QED BY <1>1, <1>2, <1>3, <1>4, <1>5, <1>6, <1>7, <1>8 DEF ThreadStep

LEMMA ListenCount ==
    ASSUME OwnInv, NsocksExact, ListenStep
    PROVE  NsocksExact'
<1>0. RpcType /\ ConnType /\ ListenType /\ IdleInv /\ ListenInv
    BY DEF OwnInv, TypeOK
<1>1. CASE ScanPoll \/ ScanKeep \/ ListenExit
  <2>1. nsocks' = nsocks /\ st' = st /\ rpc' = rpc
    BY <1>1 DEF ScanPoll, ScanKeep, ListenExit, rpcVars, connVars
  <2> QED BY <2>1, CountSame
<1>2. CASE ScanClose
  <2>1. /\ nsocks' = nsocks /\ rpc' = rpc /\ scan # <<>>
        /\ st' = [st EXCEPT ![Head(scan)] = "closed"]
    BY <1>2 DEF ScanClose, rpcVars
  <2>2. st[Head(scan)] = "scan"
    BY <1>0, <2>1, TailList DEF ListenType, ListenInv
  <2> QED BY <1>0, <2>1, <2>2, CountSame DEF ConnType, Counted
<1>3. CASE Relist
  <2>1. /\ nsocks' = [nsocks EXCEPT ![lrpc] = @ - Cardinality(drop)]
        /\ st' = [c \in Conns |-> IF c \in drop THEN "free"
                                  ELSE IF c \in Range(keep) THEN "idle" ELSE st[c]]
        /\ rpc' = rpc /\ scan = <<>> /\ lrpc \in Rpcs
    BY <1>0, <1>3 DEF Relist, ListenType
  <2>2. drop \in SUBSET CountedConns(lrpc)
    BY <1>0, <2>1, EmptyList DEF ListenInv, ListenType, CountedConns, Counted
  <2>3. \A d \in drop : st'[d] \notin Counted
    BY <1>0, <2>1 DEF ListenType, Counted
  <2>4. \A d \in Conns \ drop : /\ st'[d] \in Counted <=> st[d] \in Counted
                                /\ st[d] \in Counted => rpc'[d] = rpc[d]
    BY <1>0, <2>1 DEF ListenInv, Counted
  <2> QED BY <1>0, <2>1, <2>2, <2>3, <2>4, CountRemove
<1>4. CASE Drain
  <2>1. /\ nsocks' = [nsocks EXCEPT ![lrpc] = @ - Len(idle[lrpc])]
        /\ st' = [c \in Conns |-> IF c \in Range(idle[lrpc]) THEN "free" ELSE st[c]]
        /\ rpc' = rpc /\ lrpc \in Rpcs
    BY <1>0, <1>4 DEF Drain, ListenType
  <2>2. /\ Cardinality(Range(idle[lrpc])) = Len(idle[lrpc])
        /\ Range(idle[lrpc]) \subseteq Conns
    BY <1>0, <2>1, ListLength, RangeOfSeq DEF RpcType, IdleInv
  <2>3. Range(idle[lrpc]) \in SUBSET CountedConns(lrpc)
    BY <1>0, <2>1, <2>2 DEF IdleInv, CountedConns, Counted
  <2>4. nsocks' = [nsocks EXCEPT ![lrpc] = @ - Cardinality(Range(idle[lrpc]))]
    BY <2>1, <2>2
  <2>5. \A d \in Range(idle[lrpc]) : st'[d] \notin Counted
    BY <2>1, <2>2 DEF Counted
  <2>6. \A d \in Conns \ Range(idle[lrpc]) : st'[d] = st[d] /\ rpc'[d] = rpc[d]
    BY <2>1
  <2> QED BY <1>0, <2>1, <2>3, <2>4, <2>5, <2>6, CountRemove
<1> QED BY <1>1, <1>2, <1>3, <1>4 DEF ListenStep

LEMMA StepCount == OwnInv /\ NsocksExact /\ [Next]_vars => NsocksExact'
<1> SUFFICES ASSUME OwnInv, NsocksExact, [Next]_vars PROVE NsocksExact'
    OBVIOUS
<1>1. CASE UNCHANGED vars \/ StopListener
  <2>1. nsocks' = nsocks /\ st' = st /\ rpc' = rpc
    BY <1>1 DEF StopListener, vars, rpcVars, connVars
  <2> QED BY <2>1, CountSame
<1>2. ASSUME NEW t \in Threads, RunStart(t) \/ \E j \in Slots : JobStep(t, j)
      PROVE  NsocksExact'
  <2>1. nsocks' = nsocks /\ st' = st /\ rpc' = rpc
    BY <1>2 DEF RunStart, JobStep, Send, SendFail, RecvPart, RecvDone, RecvBad,
           RecvFail, rpcVars, connVars
  <2> QED BY <2>1, CountSame
<1>3. ASSUME NEW t \in Threads, ThreadStep(t) PROVE NsocksExact'
    BY <1>3, ThreadCount
<1>4. ASSUME NEW c \in Conns, ServerReply(c) \/ ServerDrop(c) PROVE NsocksExact'
  <2>1. nsocks' = nsocks /\ st' = st /\ rpc' = rpc
    BY <1>4 DEF ServerReply, ServerDrop, rpcVars, connVars
  <2> QED BY <2>1, CountSame
<1>5. ASSUME NEW c \in Conns, NEW r \in Rpcs, Accept(c, r) PROVE NsocksExact'
  <2>0. RpcType /\ ConnType /\ IdleInv
    BY DEF OwnInv, TypeOK
  <2>1. /\ st[c] = "free" /\ rpc' = [rpc EXCEPT ![c] = r]
        /\ st' = [d \in Conns |-> IF d = c \/ d \in Range(idle[r]) THEN "scan" ELSE st[d]]
        /\ nsocks' = [nsocks EXCEPT ![r] = @ + 1]
    BY <1>5 DEF Accept
  <2>2. st[c] \notin Counted /\ st'[c] \in Counted /\ rpc'[c] = r
    BY <2>0, <2>1 DEF Counted, ConnType
  <2>3. \A d \in Conns \ {c} : /\ st'[d] \in Counted <=> st[d] \in Counted
                               /\ rpc'[d] = rpc[d]
    BY <2>0, <2>1 DEF Counted, ConnType, IdleInv
  <2> QED BY <2>0, <2>1, <2>2, <2>3, CountAdd
<1>6. CASE ListenStep
    BY <1>6, ListenCount
<1> QED BY <1>1, <1>2, <1>3, <1>4, <1>5, <1>6 DEF Next

\* nsocks counts the open connections exactly, over every path of RpcGet,
\* RpcPut, Dci_RpcRun, RpcAccept and the shutdown loop that opens or closes
\* one, for every number of threads, end points and connections.
THEOREM NsocksAlwaysExact == Spec => []NsocksExact
<1>1. Init => NsocksExact
  <2>1. Init => \A r \in Rpcs : CountedConns(r) = {} /\ nsocks[r] = 0
    BY DEF Init, CountedConns, Counted
  <2> QED BY <2>1, FS_EmptySet DEF NsocksExact
<1> QED BY <1>1, StepCount, OwnInvariant, PTL DEF Spec

-----------------------------------------------------------------------------
(* The poll array of RpcAccept.                                            *)

LEMMA IdleCounted ==
    ASSUME OwnInv, NsocksExact, NEW r \in Rpcs
    PROVE  Len(idle[r]) <= nsocks[r]
<1>1. idle[r] \in Seq(Conns) /\ IsInjective(idle[r])
    BY DEF OwnInv, TypeOK, RpcType, IdleInv
<1>2. Range(idle[r]) \subseteq CountedConns(r)
    BY <1>1, RangeOfSeq DEF OwnInv, IdleInv, CountedConns, Counted
<1>3. Cardinality(Range(idle[r])) <= Cardinality(CountedConns(r))
    BY <1>2, CountedFinite, FS_Subset
<1> QED BY <1>1, <1>3, ListLength DEF NsocksExact

\* RpcAccept allocates nsocks poll entries after it has counted the new
\* connection: the list it has detached always fits.
THEOREM PollArrayAlwaysFits == Spec => []PollArrayFits
<1>1. Init => PollArrayFits
    BY DEF Init, PollArrayFits
<1>2. OwnInv /\ NsocksExact /\ PollArrayFits /\ [Next]_vars => PollArrayFits'
  <2> SUFFICES ASSUME OwnInv, NsocksExact, PollArrayFits, [Next]_vars
               PROVE  PollArrayFits'
    OBVIOUS
  <2>1. CASE lpc' # "poll"
    BY <2>1 DEF PollArrayFits
  <2>2. CASE lpc' = lpc /\ scan' = scan /\ nfds' = nfds
    BY <2>2 DEF PollArrayFits
  <2>3. ASSUME NEW c \in Conns, NEW r \in Rpcs, Accept(c, r)
        PROVE  PollArrayFits'
    <3>1. nsocks' = [nsocks EXCEPT ![r] = @ + 1] /\ scan' = Append(idle[r], c)
          /\ nfds' = nsocks'[r]
      BY <2>3 DEF Accept, PollSize
    <3>2. nfds' = nsocks[r] + 1 /\ nsocks[r] \in Int
      BY <3>1 DEF OwnInv, TypeOK, RpcType
    <3>3. Len(scan') = Len(idle[r]) + 1 /\ Len(idle[r]) \in Nat
      BY <3>1, AppendProperties, LenProperties DEF OwnInv, TypeOK, RpcType
    <3> QED BY <3>2, <3>3, IdleCounted DEF PollArrayFits
  <2>4. ASSUME NEW t \in Threads,
               RunStart(t) \/ ThreadStep(t) \/ \E j \in Slots : JobStep(t, j)
        PROVE  UNCHANGED listenVars
    <3>1. CASE RunStart(t)
      BY <3>1 DEF RunStart
    <3>2. CASE ThreadStep(t)
      BY <3>2 DEF ThreadStep, GetPop, GetWait, GetTimeout, GetNone, CheckOk,
         CheckDrop, Dropped, ConnectOk, ConnectFail, RunEnd, RunTimeout, StopRun,
         FinishSkip, PutIdle, PutClose, JobFail, Retire, CloseConn, Return
    <3>3. CASE \E j \in Slots : JobStep(t, j)
      BY <3>3 DEF JobStep, Send, SendFail, RecvPart, RecvDone, RecvBad, RecvFail
    <3> QED BY <2>4, <3>1, <3>2, <3>3
  <2>5. ASSUME NEW c \in Conns, ServerReply(c) \/ ServerDrop(c)
        PROVE  UNCHANGED listenVars
    BY <2>5 DEF ServerReply, ServerDrop
  <2>6. CASE StopListener \/ ListenStep
    <3>1. CASE ScanPoll \/ ScanClose \/ ScanKeep
      BY <2>1, <3>1 DEF ScanPoll, ScanClose, ScanKeep
    <3>2. CASE StopListener
      BY <2>2, <3>2 DEF StopListener
    <3>3. CASE Relist \/ ListenExit \/ Drain
      BY <2>1, <3>3 DEF Relist, ListenExit, Drain, DrainNext
    <3> QED BY <2>6, <3>1, <3>2, <3>3 DEF ListenStep
  <2> QED BY <2>2, <2>3, <2>4, <2>5, <2>6 DEF Next, vars, listenVars
<1> QED BY <1>1, <1>2, OwnInvariant, NsocksAlwaysExact, PTL DEF Spec

-----------------------------------------------------------------------------
(* Wakeups.                                                                *)

\* What a step that leaves the idle lists and the counts alone needs.
LEMMA WakeFrame ==
    ASSUME NoLostWakeup, UNCHANGED rpcVars
    PROVE  NoLostWakeup'
BY DEF NoLostWakeup, rpcVars

\* A step on one end point that wakes its waiters.
LEMMA WakeBroadcast ==
    ASSUME NoLostWakeup, RpcType, NEW r \in Rpcs, Broadcast(r),
           \A q \in Rpcs \ {r} : idle'[q] = idle[q] /\ nsocks'[q] = nsocks[q]
    PROVE  NoLostWakeup'
<1> SUFFICES ASSUME NEW q \in Rpcs, waiters'[q] # {}
             PROVE  idle'[q] = <<>> /\ nsocks'[q] > 0
    BY DEF NoLostWakeup
<1>1. q # r /\ waiters'[q] = waiters[q]
    BY DEF RpcType, Broadcast
<1> QED BY <1>1 DEF NoLostWakeup

LEMMA UncountWakes ==
    ASSUME NoLostWakeup, RpcType, ConnType, NEW c \in Conns, Uncount(c), idle' = idle
    PROVE  NoLostWakeup'
<1>1. rpc[c] \in Rpcs
    BY DEF ConnType
<1>2. \A q \in Rpcs \ {rpc[c]} : nsocks'[q] = nsocks[q]
    BY DEF RpcType, Uncount
<1>3. Broadcast(rpc[c])
    BY DEF Uncount
<1> QED BY <1>1, <1>2, <1>3, WakeBroadcast

LEMMA ThreadWakes ==
    ASSUME OwnInv, NoLostWakeup, NEW t \in Threads, ThreadStep(t)
    PROVE  NoLostWakeup'
<1>0. RpcType /\ ConnType /\ ThreadOK(t)
    BY DEF OwnInv, TypeOK, ThreadInv
<1>1. CASE \/ GetNone(t) \/ CheckOk(t) \/ ConnectFail(t) \/ CheckDrop(t)
           \/ RunEnd(t) \/ RunTimeout(t) \/ FinishSkip(t) \/ Return(t) \/ CloseConn(t)
  <2>1. UNCHANGED rpcVars
    BY <1>1 DEF GetNone, CheckOk, CheckDrop, ConnectFail, RunEnd, RunTimeout,
       StopRun, FinishSkip, Return, CloseConn
  <2> QED BY <2>1, WakeFrame
<1>2. CASE GetPop(t)
  <2>1. R(t) \in Rpcs
    BY <1>2, AcquiringFacts DEF GetPop, InGet, Acquiring
  <2>2. /\ idle[R(t)] # <<>> /\ waiters' = waiters /\ nsocks' = nsocks
        /\ \A q \in Rpcs \ {R(t)} : idle'[q] = idle[q]
    BY <1>0, <1>2, <2>1 DEF GetPop, RpcType
  <2>3. waiters[R(t)] = {}
    BY <2>1, <2>2 DEF NoLostWakeup
  <2> QED BY <2>1, <2>2, <2>3 DEF NoLostWakeup
<1>3. CASE GetWait(t)
  <2>1. /\ idle[R(t)] = <<>> /\ nsocks[R(t)] > 0 /\ idle' = idle /\ nsocks' = nsocks
        /\ waiters' = [waiters EXCEPT ![R(t)] = @ \cup {t}]
    BY <1>3 DEF GetWait, MustWait
  <2> QED BY <1>0, <2>1 DEF NoLostWakeup, RpcType
<1>4. CASE GetTimeout(t)
  <2>1. /\ idle' = idle /\ nsocks' = nsocks
        /\ waiters' = [waiters EXCEPT ![R(t)] = @ \ {t}]
    BY <1>4 DEF GetTimeout
  <2>2. \A q \in Rpcs : waiters'[q] # {} => waiters[q] # {}
    BY <1>0, <2>1 DEF RpcType
  <2> QED BY <2>1, <2>2 DEF NoLostWakeup
<1>5. CASE ConnectOk(t)
  <2>1. /\ idle' = idle /\ waiters' = waiters
        /\ nsocks' = [nsocks EXCEPT ![R(t)] = @ + 1]
    BY <1>5 DEF ConnectOk
  <2>2. \A q \in Rpcs : nsocks[q] > 0 => nsocks'[q] > 0
    BY <1>0, <2>1 DEF RpcType
  <2> QED BY <2>1, <2>2 DEF NoLostWakeup
<1>6. CASE Dropped(t)
  <2>1. Cur(t) \in Conns
    BY <1>0, <1>6 DEF Dropped, ThreadOK, Cur
  <2> QED BY <1>0, <1>6, <2>1, UncountWakes DEF Dropped
<1>7. CASE PutClose(t) \/ JobFail(t)
  <2>1. Cur(t) \in Conns
    BY <1>7, FinishFacts DEF PutClose, JobFail, IsPut, Finishing
  <2> QED BY <1>0, <1>7, <2>1, UncountWakes DEF PutClose, JobFail, Retire
<1>8. CASE PutIdle(t)
  <2>1. Cur(t) \in Conns
    BY <1>8, FinishFacts DEF PutIdle, IsPut, Finishing
  <2>2. rpc[Cur(t)] \in Rpcs
    BY <1>0, <2>1 DEF ConnType
  <2>3. /\ Broadcast(rpc[Cur(t)]) /\ nsocks' = nsocks
        /\ \A q \in Rpcs \ {rpc[Cur(t)]} : idle'[q] = idle[q]
    BY <1>0, <1>8, <2>2 DEF PutIdle, RpcType
  <2> QED BY <1>0, <2>2, <2>3, WakeBroadcast
<1> QED BY <1>1, <1>2, <1>3, <1>4, <1>5, <1>6, <1>7, <1>8 DEF ThreadStep

LEMMA ListenWakes ==
    ASSUME OwnInv, NoLostWakeup, ListenStep
    PROVE  NoLostWakeup'
<1>0. RpcType /\ ListenType
    BY DEF OwnInv, TypeOK
<1>1. CASE ScanPoll \/ ScanClose \/ ScanKeep \/ ListenExit
  <2>1. UNCHANGED rpcVars
    BY <1>1 DEF ScanPoll, ScanClose, ScanKeep, ListenExit
  <2> QED BY <2>1, WakeFrame
<1>2. CASE Relist
  <2>1. lrpc \in Rpcs /\ Broadcast(lrpc)
    BY <1>0, <1>2 DEF Relist, ListenType
  <2>2. \A q \in Rpcs \ {lrpc} : idle'[q] = idle[q] /\ nsocks'[q] = nsocks[q]
    BY <1>0, <1>2 DEF Relist, RpcType
  <2> QED BY <1>0, <2>1, <2>2, WakeBroadcast
<1>3. CASE Drain
  <2>1. lrpc \in Rpcs
    BY <1>0 DEF ListenType
  <2>2. /\ idle'[lrpc] = <<>> /\ nsocks'[lrpc] = nsocks[lrpc] - Len(idle[lrpc])
        /\ \A q \in Rpcs \ {lrpc} : idle'[q] = idle[q] /\ nsocks'[q] = nsocks[q]
    BY <1>0, <1>3, <2>1 DEF Drain, RpcType
  <2>3. CASE /\ nsocks'[lrpc] > 0
             /\ waiters' = [waiters EXCEPT ![lrpc] = waiters[lrpc] \cup {Listener}]
    <3>1. \A q \in Rpcs \ {lrpc} : waiters'[q] = waiters[q]
      BY <1>0, <2>3 DEF RpcType
    <3> QED BY <2>1, <2>2, <2>3, <3>1 DEF NoLostWakeup
  <2>4. CASE waiters' = waiters
    <3>1. waiters[lrpc] # {} => nsocks'[lrpc] > 0
      <4>1. waiters[lrpc] # {} => Len(idle[lrpc]) = 0 /\ nsocks[lrpc] > 0
        BY <2>1 DEF NoLostWakeup
      <4>2. nsocks[lrpc] \in Int
        BY <1>0, <2>1 DEF RpcType
      <4> QED BY <2>2, <4>1, <4>2
    <3> QED BY <2>1, <2>2, <2>4, <3>1 DEF NoLostWakeup
  <2> QED BY <1>3, <2>3, <2>4 DEF Drain
<1> QED BY <1>1, <1>2, <1>3 DEF ListenStep

\* No thread, and not the shutdown loop, waits on rpcPtr->cond of an end point
\* that has an idle connection or no connection at all.
THEOREM NeverLostWakeup == Spec => []NoLostWakeup
<1>1. Init => NoLostWakeup
    BY DEF Init, NoLostWakeup
<1>2. OwnInv /\ NoLostWakeup /\ [Next]_vars => NoLostWakeup'
  <2> SUFFICES ASSUME OwnInv, NoLostWakeup, [Next]_vars PROVE NoLostWakeup'
    OBVIOUS
  <2>1. CASE UNCHANGED vars \/ StopListener
    <3>1. UNCHANGED rpcVars
      BY <2>1 DEF vars, StopListener
    <3> QED BY <3>1, WakeFrame
  <2>2. ASSUME NEW t \in Threads, RunStart(t) \/ \E j \in Slots : JobStep(t, j)
        PROVE  NoLostWakeup'
    <3>1. UNCHANGED rpcVars
      BY <2>2 DEF RunStart, JobStep, Send, SendFail, RecvPart, RecvDone, RecvBad, RecvFail
    <3> QED BY <3>1, WakeFrame
  <2>3. ASSUME NEW t \in Threads, ThreadStep(t) PROVE NoLostWakeup'
    BY <2>3, ThreadWakes
  <2>4. ASSUME NEW c \in Conns, ServerReply(c) \/ ServerDrop(c) PROVE NoLostWakeup'
    <3>1. UNCHANGED rpcVars
      BY <2>4 DEF ServerReply, ServerDrop
    <3> QED BY <3>1, WakeFrame
  <2>5. ASSUME NEW c \in Conns, NEW r \in Rpcs, Accept(c, r) PROVE NoLostWakeup'
    <3>1. /\ nsocks' = [nsocks EXCEPT ![r] = @ + 1] /\ waiters' = waiters
          /\ idle' = [idle EXCEPT ![r] = <<>>]
      BY <2>5 DEF Accept, Detach
    <3>2. \A q \in Rpcs : /\ nsocks[q] > 0 => nsocks'[q] > 0
                          /\ idle[q] = <<>> => idle'[q] = <<>>
      BY <3>1 DEF OwnInv, TypeOK, RpcType
    <3> QED BY <3>1, <3>2 DEF NoLostWakeup
  <2>6. CASE ListenStep
    BY <2>6, ListenWakes
  <2> QED BY <2>1, <2>2, <2>3, <2>4, <2>5, <2>6 DEF Next
<1> QED BY <1>1, <1>2, OwnInvariant, PTL DEF Spec

-----------------------------------------------------------------------------
(* HTTP places.                                                            *)

LEMMA HttpFinite ==
    ASSUME NEW r
    PROVE  IsFiniteSet(HttpInUse(r)) /\ Cardinality(HttpInUse(r)) \in Nat
<1>1. HttpInUse(r) \subseteq Conns
    BY DEF HttpInUse
<1> QED BY <1>1, PoolAssumption, FS_Subset, FS_CardinalityType

\* No HTTP connection comes into use and no place is given back.
LEMMA HttpShrink ==
    ASSUME HttpPlaces, RpcType, \A r \in Rpcs : httpAvail'[r] = httpAvail[r],
           \A r \in Rpcs : HttpInUse(r)' \subseteq HttpInUse(r)
    PROVE  HttpPlaces'
<1> SUFFICES ASSUME NEW r \in Rpcs
             PROVE  httpAvail[r] + Cardinality(HttpInUse(r)')
                        <= IF r \in HttpRpcs THEN HttpMax ELSE 0
    BY DEF HttpPlaces
<1> DEFINE n == Cardinality(HttpInUse(r)')
           m == Cardinality(HttpInUse(r))
           b == IF r \in HttpRpcs THEN HttpMax ELSE 0
<1>1. n <= m
    BY HttpFinite, FS_Subset
<1>2. n \in Nat /\ m \in Nat
    BY <1>1, HttpFinite, FS_Subset, FS_CardinalityType
<1>3. httpAvail[r] \in Int /\ b \in Int /\ httpAvail[r] + m <= b
    BY PoolAssumption DEF RpcType, HttpPlaces
<1> HIDE DEF n, m, b
<1>4. httpAvail[r] + n <= b
    BY <1>1, <1>2, <1>3
<1> QED BY <1>4 DEF n, b

\* One HTTP connection goes and gives its place back.
LEMMA HttpRelease ==
    ASSUME HttpPlaces, RpcType, NEW c \in Conns, NEW r \in Rpcs, rpc[c] = r,
           st[c] \in Counted, st'[c] \notin Counted,
           httpAvail' = [httpAvail EXCEPT ![r] = @ + FreedHttp(c)],
           \A q \in Rpcs : HttpInUse(q)' = HttpInUse(q) \ {c}
    PROVE  HttpPlaces'
<1>1. CASE http[c] = "no"
  <2>1. FreedHttp(c) = 0
    BY <1>1 DEF FreedHttp
  <2>2. \A q \in Rpcs : httpAvail'[q] = httpAvail[q]
    BY <2>1 DEF RpcType
  <2> QED BY <2>2, HttpShrink
<1>2. CASE http[c] # "no"
  <2>1. FreedHttp(c) = 1
    BY <1>2 DEF FreedHttp
  <2> SUFFICES ASSUME NEW q \in Rpcs
               PROVE  httpAvail'[q] + Cardinality(HttpInUse(q)')
                          <= IF q \in HttpRpcs THEN HttpMax ELSE 0
    BY DEF HttpPlaces
  <2> DEFINE b == IF q \in HttpRpcs THEN HttpMax ELSE 0
  <2>2. /\ httpAvail[q] \in Int /\ b \in Int
        /\ httpAvail[q] + Cardinality(HttpInUse(q)) <= b
    BY PoolAssumption DEF RpcType, HttpPlaces
  <2>3. CASE q = r
    <3>1. c \in HttpInUse(q)
      BY <1>2, <2>3 DEF HttpInUse
    <3>2. Cardinality(HttpInUse(q) \ {c}) = Cardinality(HttpInUse(q)) - 1
      BY <3>1, HttpFinite, FS_RemoveElement
    <3>3. httpAvail'[q] = httpAvail[q] + 1
      BY <2>1, <2>3 DEF RpcType
    <3> HIDE DEF b
    <3>4. httpAvail'[q] + Cardinality(HttpInUse(q)') <= b
      <4>1. Cardinality(HttpInUse(q)') = Cardinality(HttpInUse(q)) - 1
        BY <3>2
      <4>2. Cardinality(HttpInUse(q)) \in Nat
        BY HttpFinite
      <4> QED BY <2>2, <3>3, <4>1, <4>2
    <3> QED BY <3>4 DEF b
  <2>4. CASE q # r
    <3>1. HttpInUse(q)' = HttpInUse(q)
      <4>1. c \notin HttpInUse(q)
        BY <2>4 DEF HttpInUse
      <4> QED BY <4>1
    <3>2. httpAvail'[q] = httpAvail[q]
      BY <2>4 DEF RpcType
    <3> QED BY <2>2, <3>1, <3>2
  <2> QED BY <2>3, <2>4
<1> QED BY <1>1, <1>2

LEMMA UncountPlaces ==
    ASSUME OwnInv, HttpPlaces, NEW t \in Threads, i[t] \in Slots, Cur(t) \in Conns,
           pc[t] # "close", Uncount(Cur(t)), NEW s \in {"free", "retired"},
           st' = [st EXCEPT ![Cur(t)] = s], rpc' = rpc, http' = http
    PROVE  HttpPlaces'
<1>0. RpcType /\ ConnType
    BY DEF OwnInv, TypeOK
<1>1. /\ st[Cur(t)] \in Counted /\ rpc[Cur(t)] \in Rpcs
      /\ httpAvail' = [httpAvail EXCEPT ![rpc[Cur(t)]] = @ + FreedHttp(Cur(t))]
    BY <1>0, CurCounted DEF ConnType, Uncount
<1>2. st'[Cur(t)] \notin Counted /\ \A d \in Conns \ {Cur(t)} : st'[d] = st[d]
    BY <1>0 DEF ConnType, Counted
<1>3. \A q \in Rpcs : HttpInUse(q)' = HttpInUse(q) \ {Cur(t)}
    BY <1>2 DEF HttpInUse
<1> QED BY <1>0, <1>1, <1>2, <1>3, HttpRelease

\* A step that changes no place and brings no connection into use.
LEMMA HttpFrame ==
    ASSUME HttpPlaces, RpcType, httpAvail' = httpAvail,
           \A c \in Conns : /\ st'[c] \in Counted /\ http'[c] # "no" =>
                                  /\ st[c] \in Counted /\ http[c] # "no"
                                  /\ rpc'[c] = rpc[c]
    PROVE  HttpPlaces'
<1>1. \A r \in Rpcs : HttpInUse(r)' \subseteq HttpInUse(r)
    BY DEF HttpInUse
<1> QED BY <1>1, HttpShrink

LEMMA ConnectPlaces ==
    ASSUME OwnInv, HttpPlaces, NEW t \in Threads, ConnectOk(t)
    PROVE  HttpPlaces'
<1>0. RpcType /\ ConnType
    BY DEF OwnInv, TypeOK
<1>1. R(t) \in Rpcs
    BY AcquiringFacts DEF ConnectOk, Acquiring
<1>2. PICK c \in Conns : NewConn(c, R(t), "busy", "close")
    BY DEF ConnectOk
<1>3. /\ st[c] = "free" /\ st' = [st EXCEPT ![c] = "busy"]
      /\ rpc' = [rpc EXCEPT ![c] = R(t)] /\ http' = [http EXCEPT ![c] = "close"]
      /\ httpAvail' = [httpAvail EXCEPT ![R(t)] = @ - 1]
    BY <1>2 DEF ConnectOk, NewConn
<1>4. /\ st[c] \notin Counted /\ st'[c] \in Counted /\ rpc'[c] = R(t)
      /\ http'[c] # "no"
      /\ \A d \in Conns \ {c} : st'[d] = st[d] /\ rpc'[d] = rpc[d] /\ http'[d] = http[d]
    BY <1>0, <1>1, <1>3 DEF ConnType, Counted
<1> SUFFICES ASSUME NEW q \in Rpcs
             PROVE  httpAvail'[q] + Cardinality(HttpInUse(q)')
                        <= IF q \in HttpRpcs THEN HttpMax ELSE 0
    BY DEF HttpPlaces
<1> DEFINE b == IF q \in HttpRpcs THEN HttpMax ELSE 0
<1>5. /\ httpAvail[q] \in Int /\ b \in Int
      /\ httpAvail[q] + Cardinality(HttpInUse(q)) <= b
    BY <1>0, PoolAssumption DEF RpcType, HttpPlaces
<1>6. CASE q = R(t)
  <2>1. HttpInUse(q)' = HttpInUse(q) \cup {c} /\ c \notin HttpInUse(q)
    BY <1>4, <1>6 DEF HttpInUse
  <2>2. Cardinality(HttpInUse(q)') = Cardinality(HttpInUse(q)) + 1
    BY <2>1, HttpFinite, FS_AddElement
  <2>3. httpAvail'[q] = httpAvail[q] - 1
    BY <1>0, <1>3, <1>6 DEF RpcType
  <2> HIDE DEF b
  <2>4. httpAvail'[q] + Cardinality(HttpInUse(q)') <= b
    BY <1>5, <2>2, <2>3, HttpFinite
  <2> QED BY <2>4 DEF b
<1>7. CASE q # R(t)
  <2>1. HttpInUse(q)' = HttpInUse(q) /\ httpAvail'[q] = httpAvail[q]
    BY <1>0, <1>3, <1>4, <1>7 DEF HttpInUse, RpcType
  <2> QED BY <1>5, <2>1
<1> QED BY <1>6, <1>7

LEMMA ThreadPlaces ==
    ASSUME OwnInv, HttpPlaces, NEW t \in Threads, ThreadStep(t)
    PROVE  HttpPlaces'
<1>0. RpcType /\ ConnType /\ IdleInv /\ ThreadOK(t)
    BY DEF OwnInv, TypeOK, ThreadInv
<1>1. CASE \/ GetWait(t) \/ GetTimeout(t) \/ GetNone(t) \/ CheckOk(t) \/ ConnectFail(t)
           \/ RunEnd(t) \/ RunTimeout(t) \/ FinishSkip(t) \/ Return(t)
  <2>1. httpAvail' = httpAvail /\ UNCHANGED <<st, rpc, http>>
    BY <1>1 DEF GetWait, GetTimeout, GetNone, CheckOk, ConnectFail, RunEnd,
       RunTimeout, StopRun, FinishSkip, Return, rpcVars, connVars
  <2> QED BY <1>0, <2>1, HttpFrame
<1>2. CASE GetPop(t)
  <2>1. R(t) \in Rpcs
    BY <1>2, AcquiringFacts DEF GetPop, InGet, Acquiring
  <2>2. st[Head(idle[R(t)])] = "idle"
    BY <1>0, <1>2, <2>1, TailList DEF GetPop, RpcType, IdleInv
  <2>3. /\ httpAvail' = httpAvail /\ rpc' = rpc /\ http' = http
        /\ st' = [st EXCEPT ![Head(idle[R(t)])] = "busy"]
    BY <1>2 DEF GetPop
  <2> QED BY <1>0, <2>2, <2>3, HttpFrame DEF ConnType, Counted
<1>3. CASE CheckDrop(t) \/ PutIdle(t)
  <2>1. i[t] \in Slots /\ Cur(t) \in Conns /\ pc[t] # "close"
    BY <1>0, <1>3, AcquiringFacts, FinishFacts
       DEF CheckDrop, PutIdle, IsPut, Finishing, Acquiring, ThreadOK, Cur
  <2>2. /\ httpAvail' = httpAvail /\ rpc' = rpc /\ http' = http
        /\ \E s \in {"closed", "idle"} : st' = [st EXCEPT ![Cur(t)] = s]
    BY <1>3 DEF CheckDrop, PutIdle, rpcVars
  <2> QED BY <1>0, <2>1, <2>2, CurCounted, HttpFrame DEF ConnType
<1>4. CASE Dropped(t)
  <2>1. i[t] \in Slots /\ Cur(t) \in Conns /\ pc[t] # "close"
    BY <1>0, <1>4, AcquiringFacts DEF Dropped, Acquiring, ThreadOK, Cur
  <2> QED BY <1>4, <2>1, UncountPlaces DEF Dropped
<1>5. CASE ConnectOk(t)
    BY <1>5, ConnectPlaces
<1>6. CASE PutClose(t) \/ JobFail(t)
  <2>1. i[t] \in Slots /\ Cur(t) \in Conns /\ pc[t] # "close"
    BY <1>6, FinishFacts DEF PutClose, JobFail, IsPut, Finishing
  <2> QED BY <1>6, <2>1, UncountPlaces DEF PutClose, JobFail, Retire
<1>7. CASE CloseConn(t)
  <2>1. /\ httpAvail' = httpAvail /\ rpc' = rpc /\ http' = http
        /\ st' = [st EXCEPT ![Cur(t)] = "free"]
    BY <1>7 DEF CloseConn, rpcVars
  <2> QED BY <1>0, <2>1, HttpFrame DEF ConnType, Counted
<1> QED BY <1>1, <1>2, <1>3, <1>4, <1>5, <1>6, <1>7 DEF ThreadStep

LEMMA ListenPlaces ==
    ASSUME OwnInv, HttpPlaces,
           ListenStep \/ StopListener \/ \E c \in Conns, r \in Rpcs : Accept(c, r)
    PROVE  HttpPlaces'
<1>0. RpcType /\ ConnType /\ ListenType /\ IdleInv /\ ListenInv
    BY DEF OwnInv, TypeOK
<1>1. CASE ScanPoll \/ ScanKeep \/ ListenExit \/ StopListener
  <2>1. httpAvail' = httpAvail /\ UNCHANGED <<st, rpc, http>>
    BY <1>1 DEF ScanPoll, ScanKeep, ListenExit, StopListener, rpcVars, connVars
  <2> QED BY <1>0, <2>1, HttpFrame
<1>2. CASE ScanClose
  <2>1. /\ httpAvail' = httpAvail /\ rpc' = rpc /\ http' = http /\ scan # <<>>
        /\ st' = [st EXCEPT ![Head(scan)] = "closed"]
    BY <1>2 DEF ScanClose, rpcVars
  <2>2. st[Head(scan)] = "scan"
    BY <1>0, <2>1, TailList DEF ListenType, ListenInv
  <2> QED BY <1>0, <2>1, <2>2, HttpFrame DEF ConnType, Counted
<1>3. CASE Relist
  <2>1. /\ st' = [c \in Conns |-> IF c \in drop THEN "free"
                                  ELSE IF c \in Range(keep) THEN "idle" ELSE st[c]]
        /\ rpc' = rpc /\ http' = http /\ httpAvail' = httpAvail
    BY <1>3 DEF Relist
  <2> QED BY <1>0, <2>1, HttpFrame DEF ListenInv, Counted
<1>4. CASE Drain
  <2>1. /\ st' = [c \in Conns |-> IF c \in Range(idle[lrpc]) THEN "free" ELSE st[c]]
        /\ rpc' = rpc /\ http' = http /\ httpAvail' = httpAvail
    BY <1>4 DEF Drain
  <2> QED BY <1>0, <2>1, HttpFrame DEF Counted
<1>5. ASSUME NEW c \in Conns, NEW r \in Rpcs, Accept(c, r) PROVE HttpPlaces'
  <2>1. /\ st' = [d \in Conns |-> IF d = c \/ d \in Range(idle[r]) THEN "scan" ELSE st[d]]
        /\ rpc' = [rpc EXCEPT ![c] = r] /\ http' = [http EXCEPT ![c] = "no"]
        /\ httpAvail' = httpAvail
    BY <1>5 DEF Accept
  <2>2. /\ http'[c] = "no"
        /\ \A d \in Conns \ {c} : /\ rpc'[d] = rpc[d] /\ http'[d] = http[d]
                                  /\ st'[d] \in Counted => st[d] \in Counted
    BY <1>0, <2>1 DEF ConnType, IdleInv, Counted
  <2> QED BY <1>0, <2>1, <2>2, HttpFrame
<1> QED BY <1>1, <1>2, <1>3, <1>4, <1>5 DEF ListenStep

\* The HTTP places left and the connections in use never exceed
\* httpnumconnections: no path of RpcGet, RpcPut and Dci_RpcRun gives a place
\* back twice.
THEOREM HttpPlacesAlways == Spec => []HttpPlaces
<1>1. Init => HttpPlaces
  <2>1. Init => \A r \in Rpcs : HttpInUse(r) = {}
    BY DEF Init, HttpInUse, Counted
  <2>2. Init => \A r \in Rpcs : httpAvail[r] = IF r \in HttpRpcs THEN HttpMax ELSE 0
    BY DEF Init
  <2>3. HttpMax + 0 <= HttpMax /\ Cardinality({}) = 0
    BY FS_EmptySet, PoolAssumption
  <2> QED BY <2>1, <2>2, <2>3 DEF HttpPlaces
<1>2. OwnInv /\ HttpPlaces /\ [Next]_vars => HttpPlaces'
  <2> SUFFICES ASSUME OwnInv, HttpPlaces, [Next]_vars PROVE HttpPlaces'
    OBVIOUS
  <2>0. RpcType /\ ConnType
    BY DEF OwnInv, TypeOK
  <2>1. CASE UNCHANGED vars
    <3>1. httpAvail' = httpAvail /\ UNCHANGED <<st, rpc, http>>
      BY <2>1 DEF vars, rpcVars, connVars
    <3> QED BY <2>0, <3>1, HttpFrame
  <2>2. ASSUME NEW t \in Threads, RunStart(t) \/ \E j \in Slots : JobStep(t, j)
        PROVE  HttpPlaces'
    <3>1. httpAvail' = httpAvail /\ UNCHANGED <<st, rpc>>
      BY <2>2 DEF RunStart, JobStep, Send, SendFail, RecvPart, RecvDone, RecvBad,
         RecvFail, rpcVars, connVars
    <3>2. \A c \in Conns : http'[c] # "no" => http[c] # "no"
      <4>1. CASE http' = http
        BY <4>1
      <4>2. ASSUME NEW j \in Slots, RecvDone(t, j)
            PROVE  \A c \in Conns : http'[c] # "no" => http[c] # "no"
        BY <4>2, <2>0 DEF RecvDone, ConnType
      <4>3. http' = http \/ \E j \in Slots : RecvDone(t, j)
        BY <2>2 DEF RunStart, JobStep, Send, SendFail, RecvPart, RecvBad, RecvFail,
           connVars
      <4> QED BY <4>1, <4>2, <4>3
    <3> QED BY <2>0, <3>1, <3>2, HttpFrame
  <2>3. ASSUME NEW t \in Threads, ThreadStep(t) PROVE HttpPlaces'
    BY <2>3, ThreadPlaces
  <2>4. ASSUME NEW c \in Conns, ServerReply(c) \/ ServerDrop(c) PROVE HttpPlaces'
    <3>1. httpAvail' = httpAvail /\ UNCHANGED <<st, rpc, http>>
      BY <2>4 DEF ServerReply, ServerDrop, rpcVars, connVars
    <3> QED BY <2>0, <3>1, HttpFrame
  <2>5. CASE ListenStep \/ StopListener \/ \E c \in Conns, r \in Rpcs : Accept(c, r)
    BY <2>5, ListenPlaces
  <2> QED BY <2>1, <2>2, <2>3, <2>4, <2>5 DEF Next
<1> QED BY <1>1, <1>2, OwnInvariant, PTL DEF Spec

-----------------------------------------------------------------------------
(* Requests and responses: a response goes to the job that sent its        *)
(* request, the jobs of a call are attempted all or none, and the pool     *)
(* implements RpcService.  This rests on the ownership invariant.          *)

\* The errors of a job that waits for its response.
Expecting == {"ETIMEOUT", "ERECVWAIT"}

\* Nothing is on its way on a connection, or at most one request or its
\* response is.
Quiet(c) == req[c] = <<>> /\ resp[c] = <<>>
InFlight(c, q) == \/ Quiet(c)
                  \/ req[c] = <<q>> /\ resp[c] = <<>>
                  \/ req[c] = <<>> /\ resp[c] = <<q>>

\* What is on its way on the connection of a job.
SlotTraffic ==
    \A t \in Threads, j \in Slots : held[t][j] # NoConn =>
        IF err[t][j] \in Expecting THEN InFlight(held[t][j], Token(t, j))
                                   ELSE Quiet(held[t][j])

\* What is on its way on the other connections: nothing on those that can be
\* taken; on one that was given up, the request its server has.
ConnTraffic ==
    \A c \in Conns :
        /\ st[c] \in {"idle", "scan", "closed"} => Quiet(c)
        /\ st[c] = "free" => resp[c] = <<>>
        /\ ~up[c] => req[c] = <<>>
        /\ req[c] # <<>> => resp[c] = <<>> /\ \E q \in Requests : req[c] = <<q>>

\* A request is on one connection.
Once == \A c, d \in Conns : req[c] # <<>> /\ req[d] = req[c] => c = d

\* A request that reached a server is one of a call that is over, or of a job
\* that has sent it.
Known(q) ==
    /\ q[2] <= nrun[q[1]]
    /\ q[2] = nrun[q[1]] /\ pc[q[1]] # "idle" => err[q[1]][q[3]] \in AfterSend
UsedInv ==
    /\ \A q \in executed : Known(q)
    /\ \A c \in Conns, q \in Requests : /\ req[c] = <<q>> => Known(q)
                                        /\ resp[c] = <<q>> => q \in executed

\* The errors of a call.
CallOK(t) ==
    /\ pc[t] \in Acquiring =>
          \A j \in Slots : err[t][j] \in {"NONE", "ESENDWAIT", "ENOCONN"}
    /\ pc[t] \in {"run", "finish", "close"} =>
          \/ \A j \in 1..Njob(t) : err[t][j] = "ENOCONN"
          \/ \A j \in 1..Njob(t) : err[t][j] # "ENOCONN"
    /\ \A j \in Slots : j > Njob(t) => err[t][j] = "NONE"
    /\ \A j \in Slots : err[t][j] = "OK" =>
          reply[t][j] = Token(t, j) /\ Token(t, j) \in executed
CallInv == \A t \in Threads : CallOK(t)

ReplyInv == SlotTraffic /\ ConnTraffic /\ Once /\ UsedInv /\ CallInv

LEMMA InitReply == Init => ReplyInv
<1> SUFFICES ASSUME Init PROVE ReplyInv
    OBVIOUS
<1> USE DEF Init
<1>1. SlotTraffic /\ ConnTraffic /\ Once
    BY DEF SlotTraffic, ConnTraffic, Once, Quiet
<1>2. UsedInv
    BY DEF UsedInv
<1>3. CallInv
    BY DEF CallInv, CallOK, Acquiring
<1> QED BY <1>1, <1>2, <1>3 DEF ReplyInv

-----------------------------------------------------------------------------
(* Steps that leave a part of the invariant alone.                         *)

\* A slot keeps its connection and what is on it, or is given a quiet one.
LEMMA SlotFrame ==
    ASSUME SlotTraffic,
           \A t \in Threads, j \in Slots : held'[t][j] # NoConn =>
              \/ /\ held'[t][j] = held[t][j] /\ nrun'[t] = nrun[t]
                 /\ req'[held[t][j]] = req[held[t][j]]
                 /\ resp'[held[t][j]] = resp[held[t][j]]
                 /\ err'[t][j] \in Expecting <=> err[t][j] \in Expecting
              \/ err'[t][j] \notin Expecting /\ Quiet(held[t][j])'
    PROVE  SlotTraffic'
<1> SUFFICES ASSUME NEW t \in Threads, NEW j \in Slots, held'[t][j] # NoConn
             PROVE  IF err'[t][j] \in Expecting
                    THEN InFlight(held[t][j], Token(t, j))'
                    ELSE Quiet(held[t][j])'
    BY DEF SlotTraffic
<1>1. CASE err'[t][j] \notin Expecting /\ Quiet(held[t][j])'
    BY <1>1
<1>2. CASE /\ held'[t][j] = held[t][j] /\ nrun'[t] = nrun[t]
           /\ req'[held[t][j]] = req[held[t][j]]
           /\ resp'[held[t][j]] = resp[held[t][j]]
           /\ err'[t][j] \in Expecting <=> err[t][j] \in Expecting
  <2>1. Token(t, j)' = Token(t, j)
    BY <1>2 DEF Token
  <2>2. CASE err[t][j] \in Expecting
    <3>1. InFlight(held[t][j], Token(t, j))
      BY <1>2, <2>2 DEF SlotTraffic
    <3> QED BY <1>2, <2>1, <2>2, <3>1 DEF InFlight, Quiet
  <2>3. CASE err[t][j] \notin Expecting
    BY <1>2, <2>3 DEF SlotTraffic, Quiet
  <2> QED BY <2>2, <2>3
<1> QED BY <1>1, <1>2

\* Requests and responses disappear, and no connection is given away with any.
LEMMA ConnFrame ==
    ASSUME ConnTraffic,
           \A c \in Conns :
              \/ req'[c] = <<>> /\ resp'[c] = <<>>
              \/ /\ req'[c] \in {req[c], <<>>} /\ resp'[c] \in {resp[c], <<>>}
                 /\ up'[c] = up[c] \/ req'[c] = <<>>
                 /\ st'[c] \in {st[c], "busy", "retired"} \/ resp'[c] = <<>>
                 /\ st'[c] \in {st[c], "free", "busy", "retired"}
    PROVE  ConnTraffic'
<1> SUFFICES ASSUME NEW c \in Conns
             PROVE  /\ st'[c] \in {"idle", "scan", "closed"} => Quiet(c)'
                    /\ st'[c] = "free" => resp'[c] = <<>>
                    /\ ~up'[c] => req'[c] = <<>>
                    /\ req'[c] # <<>> => /\ resp'[c] = <<>>
                                         /\ \E q \in Requests : req'[c] = <<q>>
    BY DEF ConnTraffic
<1> QED BY DEF ConnTraffic, Quiet

LEMMA OnceFrame ==
    ASSUME Once, \A c \in Conns : req'[c] \in {req[c], <<>>}
    PROVE  Once'
BY DEF Once

LEMMA KnownFrame ==
    ASSUME nrun' = nrun, NEW q \in Requests,
           \A t \in Threads : pc[t] = "idle" => pc'[t] = "idle",
           \A t \in Threads, j \in Slots :
              pc'[t] # "idle" /\ err[t][j] \in AfterSend => err'[t][j] \in AfterSend,
           Known(q)
    PROVE  Known(q)'
<1>1. q[1] \in Threads /\ q[3] \in Slots
    BY DEF Requests
<1> QED BY <1>1 DEF Known

LEMMA UsedFrame ==
    ASSUME UsedInv, SockType, executed' = executed,
           \A c \in Conns : /\ req'[c] \in {req[c], <<>>}
                            /\ resp'[c] \in {resp[c], <<>>},
           \A q \in Requests : Known(q) => Known(q)'
    PROVE  UsedInv'
<1>1. \A q \in executed' : Known(q)'
    BY DEF UsedInv, SockType
<1>2. ASSUME NEW c \in Conns, NEW q \in Requests
      PROVE  /\ req'[c] = <<q>> => Known(q)'
             /\ resp'[c] = <<q>> => q \in executed'
  <2>1. <<q>> # <<>>
    OBVIOUS
  <2> QED BY <2>1 DEF UsedInv
<1> QED BY <1>1, <1>2 DEF UsedInv

LEMMA CallFrame ==
    ASSUME CallInv, NEW t, CallOK(t)', executed \subseteq executed',
           \A u \in Threads \ {t} :
              /\ pc'[u] = pc[u] /\ jobs'[u] = jobs[u] /\ err'[u] = err[u]
              /\ reply'[u] = reply[u] /\ nrun'[u] = nrun[u]
    PROVE  CallInv'
<1> SUFFICES ASSUME NEW u \in Threads \ {t} PROVE CallOK(u)'
    BY DEF CallInv
<1>1. CallOK(u)
    BY DEF CallInv
<1> QED BY <1>1 DEF CallOK, Token, Njob

\* A step that sends and executes no request.
LEMMA StepReply ==
    ASSUME OwnInv, ReplyInv, CallInv', nrun' = nrun, executed' = executed,
           \A u \in Threads : pc[u] = "idle" => pc'[u] = "idle",
           \A u \in Threads, k \in Slots :
              pc'[u] # "idle" /\ err[u][k] \in AfterSend => err'[u][k] \in AfterSend,
           \A u \in Threads, k \in Slots : held'[u][k] # NoConn =>
              \/ /\ held'[u][k] = held[u][k]
                 /\ req'[held[u][k]] = req[held[u][k]]
                 /\ resp'[held[u][k]] = resp[held[u][k]]
                 /\ err'[u][k] \in Expecting <=> err[u][k] \in Expecting
              \/ err'[u][k] \notin Expecting /\ Quiet(held[u][k])',
           \A c \in Conns :
              \/ req'[c] = <<>> /\ resp'[c] = <<>>
              \/ /\ req'[c] = req[c] /\ resp'[c] \in {resp[c], <<>>}
                 /\ up'[c] = up[c]
                 /\ st'[c] \in {st[c], "busy", "retired"} \/ resp'[c] = <<>>
                 /\ st'[c] \in {st[c], "free", "busy", "retired"}
    PROVE  ReplyInv'
<1>1. SlotTraffic'
  <2>1. SlotTraffic
    BY DEF ReplyInv
  <2> QED BY <2>1, SlotFrame
<1>2. ConnTraffic'
  <2>1. ConnTraffic
    BY DEF ReplyInv
  <2> QED BY <2>1, ConnFrame
<1>3. \A c \in Conns : req'[c] \in {req[c], <<>>} /\ resp'[c] \in {resp[c], <<>>}
    OBVIOUS
<1>4. Once'
    BY <1>3, OnceFrame DEF ReplyInv
<1>5. UsedInv'
  <2>1. \A q \in Requests : Known(q) => Known(q)'
    BY KnownFrame
  <2> QED BY <1>3, <2>1, UsedFrame DEF ReplyInv, OwnInv, TypeOK
<1> QED BY <1>1, <1>2, <1>4, <1>5 DEF ReplyInv

-----------------------------------------------------------------------------
(* Dci_RpcRun gets its connections.                                        *)

\* What the acquiring loop does to the errors.
Unsent ==
    /\ nrun' = nrun /\ CallInv'
    /\ \A u \in Threads : pc[u] = "idle" <=> pc'[u] = "idle"
    /\ \A u \in Threads, k \in Slots :
          \/ err'[u][k] = err[u][k]
          \/ err'[u][k] \notin AfterSend /\ err[u][k] \notin AfterSend

LEMMA NextJobUnsent ==
    ASSUME OwnInv, ReplyInv, NEW t \in Threads, pc[t] \in Acquiring,
           NEW e \in {"ESENDWAIT", "ENOCONN"}, NextJob(t, e), executed' = executed
    PROVE  Unsent
<1>1. /\ jobs[t] \in JobLists /\ i[t] \in 1..Njob(t) /\ i[t] \in Slots
      /\ Njob(t) \in Slots
    BY AcquiringFacts
<1>2. /\ pc \in [Threads -> {"idle", "get", "check", "dropped", "connect",
                              "run", "finish", "close"}]
      /\ err \in [Threads -> [Slots -> Errors]]
    BY DEF OwnInv, TypeOK, RunType
<1>3. jobs' = jobs /\ reply' = reply /\ nrun' = nrun
    BY DEF NextJob
<1>4. pc'[t] \in {"get", "run", "finish"} /\ \A u \in Threads \ {t} : pc'[u] = pc[u]
    BY <1>2 DEF NextJob
<1>5. \A u \in Threads \ {t} : err'[u] = err[u]
    BY <1>2 DEF NextJob
<1>6. \A k \in Slots : err[t][k] \in {"NONE", "ESENDWAIT", "ENOCONN"}
    BY DEF ReplyInv, CallInv, CallOK
<1>7. \A k \in Slots : k > Njob(t) => err[t][k] = "NONE"
    BY DEF ReplyInv, CallInv, CallOK
<1> DEFINE errs == [err[t] EXCEPT ![i[t]] = e]
<1>8. /\ errs \in [Slots -> {"NONE", "ESENDWAIT", "ENOCONN"}]
      /\ \A k \in Slots : k > Njob(t) => errs[k] = "NONE"
  <2>1. err[t] \in [Slots -> {"NONE", "ESENDWAIT", "ENOCONN"}]
    BY <1>2, <1>6
  <2>2. \A k \in Slots : k > Njob(t) => k # i[t]
    BY <1>1 DEF Slots
  <2> QED BY <1>1, <1>7, <2>1, <2>2
<1>9. \/ pc'[t] = "get" /\ err'[t] = errs
      \/ /\ pc'[t] = "run" /\ err'[t] = errs
         /\ \A k \in 1..Njob(t) : errs[k] = "ESENDWAIT"
      \/ /\ pc'[t] = "finish"
         /\ err'[t] = [k \in Slots |-> IF k <= Njob(t) THEN "ENOCONN" ELSE errs[k]]
    BY <1>2 DEF NextJob, MayRun
<1> HIDE DEF errs
<1>10. \A k \in Slots : err'[t][k] \in {"NONE", "ESENDWAIT", "ENOCONN"}
    BY <1>8, <1>9
<1>11. CallOK(t)'
  <2>1. \A k \in Slots : k > Njob(t)' => err'[t][k] = "NONE"
    <3>1. Njob(t)' = Njob(t)
      BY <1>3 DEF Njob
    <3>2. \A k \in Slots : k > Njob(t) => ~(k <= Njob(t))
      BY <1>1 DEF Slots
    <3> QED BY <1>8, <1>9, <3>1, <3>2
  <2>2. pc'[t] \in {"run", "finish"} =>
          \/ \A k \in 1..Njob(t)' : err'[t][k] = "ENOCONN"
          \/ \A k \in 1..Njob(t)' : err'[t][k] # "ENOCONN"
    <3>1. Njob(t)' = Njob(t) /\ 1..Njob(t) \subseteq Slots
      <4>1. Njob(t)' = Njob(t)
        BY <1>3 DEF Njob
      <4>2. 1..Njob(t) \subseteq Slots
        BY <1>1, PoolAssumption DEF Slots
      <4> QED BY <4>1, <4>2
    <3>2. CASE pc'[t] = "run"
      BY <3>1, <3>2, <1>9
    <3>3. CASE pc'[t] = "finish"
      <4>1. err'[t] = [k \in Slots |-> IF k <= Njob(t) THEN "ENOCONN" ELSE errs[k]]
        BY <3>3, <1>9
      <4> QED BY <3>1, <4>1, <1>1 DEF Slots
    <3> QED BY <3>2, <3>3
  <2> QED BY <1>4, <1>10, <2>1, <2>2 DEF CallOK
<1>12. CallInv'
    BY <1>3, <1>4, <1>5, <1>11, CallFrame DEF ReplyInv
<1>13. \A u \in Threads : pc[u] = "idle" <=> pc'[u] = "idle"
    BY <1>4 DEF Acquiring
<1>14. \A u \in Threads, k \in Slots :
          \/ err'[u][k] = err[u][k]
          \/ err'[u][k] \notin AfterSend /\ err[u][k] \notin AfterSend
    BY <1>5, <1>6, <1>10 DEF AfterSend
<1> QED BY <1>3, <1>12, <1>13, <1>14 DEF Unsent

LEMMA MoveUnsent ==
    ASSUME OwnInv, ReplyInv, NEW t \in Threads, pc[t] \in Acquiring,
           NEW p \in Acquiring, pc' = [pc EXCEPT ![t] = p],
           UNCHANGED <<jobs, err, reply, nrun, executed>>
    PROVE  Unsent
<1>1. pc'[t] = p /\ \A u \in Threads \ {t} : pc'[u] = pc[u]
    BY DEF OwnInv, TypeOK, RunType
<1>2. CallOK(t)
    BY DEF ReplyInv, CallInv
<1>3. CallOK(t)'
    BY <1>1, <1>2 DEF CallOK, Acquiring, Token, Njob
<1>4. CallInv'
    BY <1>1, <1>3, CallFrame DEF ReplyInv
<1> QED BY <1>1, <1>4 DEF Unsent, Acquiring

LEMMA GiveUpUnsent ==
    ASSUME OwnInv, ReplyInv, NEW t \in Threads, pc[t] \in Acquiring, GiveUp(t),
           executed' = executed
    PROVE  Unsent
<1>1. CASE R(t) \in HttpRpcs
  <2>1. "connect" \in Acquiring
    BY DEF Acquiring
  <2> QED BY <1>1, <2>1, MoveUnsent DEF GiveUp
<1>2. CASE R(t) \notin HttpRpcs
    BY <1>2, NextJobUnsent DEF GiveUp
<1> QED BY <1>1, <1>2

\* A step of the acquiring loop keeps the traffic of the slots that stay.
LEMMA UnsentReply ==
    ASSUME OwnInv, ReplyInv, Unsent, executed' = executed,
           \A u \in Threads, k \in Slots : held'[u][k] # NoConn =>
              \/ /\ held'[u][k] = held[u][k]
                 /\ req'[held[u][k]] = req[held[u][k]]
                 /\ resp'[held[u][k]] = resp[held[u][k]]
              \/ err'[u][k] \notin Expecting /\ Quiet(held[u][k])',
           \A c \in Conns :
              \/ req'[c] = <<>> /\ resp'[c] = <<>>
              \/ /\ req'[c] = req[c] /\ resp'[c] \in {resp[c], <<>>}
                 /\ up'[c] = up[c]
                 /\ st'[c] \in {st[c], "busy", "retired"} \/ resp'[c] = <<>>
                 /\ st'[c] \in {st[c], "free", "busy", "retired"}
    PROVE  ReplyInv'
<1>1. \A u \in Threads, k \in Slots :
          /\ err'[u][k] \in Expecting <=> err[u][k] \in Expecting
          /\ err'[u][k] \in AfterSend <=> err[u][k] \in AfterSend
    BY DEF Unsent, Expecting, AfterSend
<1>2. \A u \in Threads, k \in Slots : held'[u][k] # NoConn =>
          \/ /\ held'[u][k] = held[u][k]
             /\ req'[held[u][k]] = req[held[u][k]]
             /\ resp'[held[u][k]] = resp[held[u][k]]
             /\ err'[u][k] \in Expecting <=> err[u][k] \in Expecting
          \/ err'[u][k] \notin Expecting /\ Quiet(held[u][k])'
    BY <1>1
<1> QED BY <1>1, <1>2, StepReply DEF Unsent

LEMMA GetReply ==
    ASSUME OwnInv, ReplyInv, NEW t \in Threads,
           GetWait(t) \/ GetTimeout(t) \/ GetNone(t) \/ CheckOk(t) \/ ConnectFail(t)
    PROVE  ReplyInv'
<1>1. pc[t] \in Acquiring
    BY DEF GetWait, GetTimeout, GetNone, CheckOk, ConnectFail, InGet, Acquiring
<1>2. UNCHANGED <<held, st, up, req, resp, executed>>
    BY DEF GetWait, GetTimeout, GetNone, CheckOk, ConnectFail, connVars, sockVars,
       runVars
<1>3. Unsent
  <2>1. CASE GetWait(t) \/ GetTimeout(t)
    <3>1. pc' = [pc EXCEPT ![t] = pc[t]] /\ UNCHANGED <<jobs, err, reply, nrun>>
      BY <2>1 DEF GetWait, GetTimeout, runVars, OwnInv, TypeOK, RunType
    <3> QED BY <1>1, <1>2, <3>1, MoveUnsent
  <2>2. CASE GetNone(t)
    BY <2>2, <1>1, <1>2, GiveUpUnsent DEF GetNone
  <2>3. CASE CheckOk(t) \/ ConnectFail(t)
    BY <2>3, <1>1, <1>2, NextJobUnsent DEF CheckOk, ConnectFail
  <2> QED BY <2>1, <2>2, <2>3
<1> QED BY <1>2, <1>3, UnsentReply

LEMMA PopReply ==
    ASSUME OwnInv, ReplyInv, NEW t \in Threads, GetPop(t)
    PROVE  ReplyInv'
<1>1. pc[t] \in Acquiring /\ "check" \in Acquiring
    BY DEF GetPop, InGet, Acquiring
<1>2. i[t] \in Slots /\ R(t) \in Rpcs
    BY <1>1, AcquiringFacts
<1> DEFINE c == Head(idle[R(t)])
<1>3. c \in Conns /\ st[c] = "idle"
  <2>1. idle[R(t)] \in Seq(Conns) /\ IsInjective(idle[R(t)]) /\ idle[R(t)] # <<>>
    BY <1>2 DEF OwnInv, TypeOK, RpcType, IdleInv, GetPop
  <2>2. c \in Range(idle[R(t)]) /\ c \in Conns
    BY <2>1, TailList
  <2> QED BY <1>2, <2>2 DEF OwnInv, IdleInv
<1>4. /\ held' = [held EXCEPT ![t][i[t]] = c] /\ st' = [st EXCEPT ![c] = "busy"]
      /\ pc' = [pc EXCEPT ![t] = "check"]
      /\ UNCHANGED <<up, req, resp, executed, jobs, err, reply, nrun>>
    BY DEF GetPop, sockVars
<1> HIDE DEF c
<1>5. Unsent
    BY <1>1, <1>4, MoveUnsent
<1>6. Quiet(c) /\ req'[c] = <<>> /\ resp'[c] = <<>>
    BY <1>3, <1>4 DEF ReplyInv, ConnTraffic, Quiet
<1>7. err[t][i[t]] = "NONE"
    BY <1>1, <1>2 DEF OwnInv, ErrInv, ErrOK, Slots
<1>8. ASSUME NEW u \in Threads, NEW k \in Slots, held'[u][k] # NoConn
      PROVE  \/ held'[u][k] = held[u][k]
             \/ err'[u][k] \notin Expecting /\ Quiet(held[u][k])'
  <2>1. CASE u = t /\ k = i[t]
    <3>1. held'[u][k] = c
      BY <1>2, <1>4, <2>1 DEF OwnInv, TypeOK, RunType
    <3> QED BY <1>4, <1>6, <1>7, <2>1, <3>1 DEF Quiet, Expecting
  <2>2. CASE ~(u = t /\ k = i[t])
    BY <1>2, <1>4, <2>2 DEF OwnInv, TypeOK, RunType
  <2> QED BY <2>1, <2>2
<1>9. \A d \in Conns : st'[d] \in {st[d], "busy"}
    BY <1>4 DEF OwnInv, TypeOK, ConnType
<1> QED BY <1>4, <1>5, <1>8, <1>9, UnsentReply

LEMMA ConnectReply ==
    ASSUME OwnInv, ReplyInv, NEW t \in Threads, ConnectOk(t)
    PROVE  ReplyInv'
<1>1. pc[t] \in Acquiring
    BY DEF ConnectOk, Acquiring
<1>2. i[t] \in Slots
    BY <1>1, AcquiringFacts
<1>3. PICK c \in Conns : /\ NewConn(c, R(t), "busy", "close")
                         /\ held' = [held EXCEPT ![t][i[t]] = c]
    BY DEF ConnectOk
<1>4. /\ st[c] = "free" /\ st' = [st EXCEPT ![c] = "busy"]
      /\ up' = [up EXCEPT ![c] = TRUE]
      /\ req' = [req EXCEPT ![c] = <<>>] /\ resp' = [resp EXCEPT ![c] = <<>>]
      /\ executed' = executed
    BY <1>3 DEF NewConn
<1>5. Unsent
    BY <1>1, <1>4, NextJobUnsent DEF ConnectOk
<1>6. /\ st'[c] = "busy" /\ req'[c] = <<>> /\ resp'[c] = <<>>
      /\ \A d \in Conns \ {c} : /\ st'[d] = st[d] /\ up'[d] = up[d]
                                /\ req'[d] = req[d] /\ resp'[d] = resp[d]
    BY <1>4 DEF OwnInv, TypeOK, ConnType, SockType
<1>7. err[t][i[t]] = "NONE"
    BY <1>1, <1>2 DEF OwnInv, ErrInv, ErrOK, Slots
<1>8. ASSUME NEW u \in Threads, NEW k \in Slots, held'[u][k] # NoConn
      PROVE  \/ /\ held'[u][k] = held[u][k]
                /\ req'[held[u][k]] = req[held[u][k]]
                /\ resp'[held[u][k]] = resp[held[u][k]]
             \/ err'[u][k] \notin Expecting /\ Quiet(held[u][k])'
  <2>1. CASE u = t /\ k = i[t]
    <3>1. held'[u][k] = c
      BY <1>2, <1>3, <2>1 DEF OwnInv, TypeOK, RunType
    <3>2. err'[u][k] \notin Expecting
      BY <1>2, <1>5, <1>7, <2>1 DEF Unsent, Expecting, AfterSend
    <3> QED BY <1>6, <3>1, <3>2 DEF Quiet
  <2>2. CASE ~(u = t /\ k = i[t])
    <3>1. held'[u][k] = held[u][k]
      BY <1>2, <1>3, <2>2 DEF OwnInv, TypeOK, RunType
    <3>2. held[u][k] \in Conns /\ held[u][k] # c
      BY <1>4, <3>1, <1>8, HeldFacts
    <3> QED BY <1>6, <3>1, <3>2
  <2> QED BY <2>1, <2>2
<1> QED BY <1>4, <1>5, <1>6, <1>8, UnsentReply

\* The connection of the job the loop is at, when it has one.
LEMMA CurQuiet ==
    ASSUME OwnInv, ReplyInv, NEW t \in Threads, i[t] \in Slots,
           Cur(t) # NoConn, err[t][i[t]] \notin Expecting
    PROVE  Cur(t) \in Conns /\ Quiet(Cur(t))
BY HeldFacts DEF Cur, ReplyInv, SlotTraffic

LEMMA CheckDropReply ==
    ASSUME OwnInv, ReplyInv, NEW t \in Threads, CheckDrop(t)
    PROVE  ReplyInv'
<1>1. pc[t] \in Acquiring /\ "dropped" \in Acquiring
    BY DEF CheckDrop, Acquiring
<1>2. i[t] \in Slots /\ err[t][i[t]] = "NONE"
    BY <1>1, AcquiringFacts DEF OwnInv, ErrInv, ErrOK, Slots
<1>3. Cur(t) # NoConn
    BY PoolAssumption DEF CheckDrop, OwnInv, ThreadInv, ThreadOK, Cur
<1>4. Cur(t) \in Conns /\ Quiet(Cur(t))
    BY <1>2, <1>3, CurQuiet DEF Expecting
<1>5. /\ st' = [st EXCEPT ![Cur(t)] = "closed"]
      /\ resp' = [resp EXCEPT ![Cur(t)] = <<>>]
      /\ pc' = [pc EXCEPT ![t] = "dropped"]
      /\ UNCHANGED <<up, req, executed, jobs, err, reply, nrun, held>>
    BY DEF CheckDrop, CloseSock
<1>6. Unsent
    BY <1>1, <1>5, MoveUnsent
<1>7. resp' = resp
    BY <1>4, <1>5 DEF Quiet, OwnInv, TypeOK, SockType
<1>8. \A d \in Conns : st'[d] = st[d] \/ (req'[d] = <<>> /\ resp'[d] = <<>>)
    BY <1>4, <1>5, <1>7 DEF Quiet, OwnInv, TypeOK, ConnType
<1> QED BY <1>5, <1>6, <1>7, <1>8, UnsentReply

LEMMA DroppedReply ==
    ASSUME OwnInv, ReplyInv, NEW t \in Threads, Dropped(t)
    PROVE  ReplyInv'
<1>1. pc[t] \in Acquiring /\ "get" \in Acquiring
    BY DEF Dropped, Acquiring
<1>2. i[t] \in Slots /\ err[t][i[t]] = "NONE"
    BY <1>1, AcquiringFacts DEF OwnInv, ErrInv, ErrOK, Slots
<1>3. Cur(t) # NoConn
    BY PoolAssumption DEF Dropped, OwnInv, ThreadInv, ThreadOK, Cur
<1>4. Cur(t) \in Conns /\ Quiet(Cur(t))
    BY <1>2, <1>3, CurQuiet DEF Expecting
<1>5. /\ st' = [st EXCEPT ![Cur(t)] = "free"]
      /\ held' = [held EXCEPT ![t][i[t]] = NoConn]
      /\ UNCHANGED <<up, req, resp, executed>>
    BY DEF Dropped, sockVars
<1>6. Unsent
  <2>1. CASE pc' = [pc EXCEPT ![t] = "get"] /\ UNCHANGED <<jobs, err, reply, nrun>>
    BY <1>1, <1>5, <2>1, MoveUnsent
  <2>2. CASE GiveUp(t)
    BY <1>1, <1>5, <2>2, GiveUpUnsent
  <2> QED BY <2>1, <2>2 DEF Dropped
<1>7. \A u \in Threads, k \in Slots : held'[u][k] \in {held[u][k], NoConn}
    BY <1>2, <1>5 DEF OwnInv, TypeOK, RunType
<1>8. \A d \in Conns : st'[d] = st[d] \/ (req'[d] = <<>> /\ resp'[d] = <<>>)
    BY <1>4, <1>5 DEF Quiet, OwnInv, TypeOK, ConnType
<1> QED BY <1>5, <1>6, <1>7, <1>8, UnsentReply

-----------------------------------------------------------------------------
(* Dci_RpcRun runs the jobs.                                               *)

LEMMA JobCall ==
    ASSUME OwnInv, ReplyInv, NEW t \in Threads, NEW j \in Slots,
           pc[t] = "run", err[t][j] \in Busy,
           NEW e \in Errors \ {"ENOCONN", "NONE"}, err' = [err EXCEPT ![t][j] = e],
           UNCHANGED <<pc, jobs, nrun, executed>>,
           \A u \in Threads, k \in Slots :
              ~(u = t /\ k = j) => reply'[u][k] = reply[u][k],
           e = "OK" => reply'[t][j] = Token(t, j) /\ Token(t, j) \in executed
    PROVE  CallInv'
<1>1. /\ err'[t][j] = e
      /\ \A u \in Threads, k \in Slots : ~(u = t /\ k = j) => err'[u][k] = err[u][k]
    BY DEF OwnInv, TypeOK, RunType
<1>2. \A u \in Threads : CallOK(u)
    BY DEF ReplyInv, CallInv
<1>3. jobs[t] \in JobLists /\ Njob(t) \in Slots /\ 1..Njob(t) \subseteq Slots
  <2>1. jobs[t] \in JobLists
    BY DEF OwnInv, ThreadInv, ThreadOK
  <2>2. Njob(t) \in Slots
    BY <2>1, JobListType DEF Njob
  <2> QED BY <2>1, <2>2, PoolAssumption DEF Slots
<1>4. j \in 1..Njob(t)
  <2>1. ~(j > Njob(t))
    BY <1>2 DEF CallOK, Busy
  <2> QED BY <1>3, <2>1 DEF Slots
<1>5. \A u \in Threads, k \in Slots : Token(u, k)' = Token(u, k) /\ Njob(u)' = Njob(u)
    BY DEF Token, Njob
<1>6. ASSUME NEW u \in Threads, u # t PROVE CallOK(u)'
  <2>1. \A k \in Slots : err'[u][k] = err[u][k] /\ reply'[u][k] = reply[u][k]
    BY <1>1, <1>6
  <2>2. pc[u] # "idle" => 1..Njob(u) \subseteq Slots
    <3> HAVE pc[u] # "idle"
    <3>1. jobs[u] \in JobLists
      BY DEF OwnInv, ThreadInv, ThreadOK
    <3>2. Njob(u) \in Slots
      BY <3>1, JobListType DEF Njob
    <3> QED BY <3>2, PoolAssumption DEF Slots
  <2> QED BY <1>2, <1>5, <2>1, <2>2 DEF CallOK
<1>7. CallOK(t)'
  <2>1. \A k \in 1..Njob(t) : err[t][k] # "ENOCONN"
    <3>1. err[t][j] # "ENOCONN"
      BY DEF Busy
    <3> QED BY <1>2, <1>4, <3>1 DEF CallOK
  <2>2. \A k \in 1..Njob(t)' : err'[t][k] # "ENOCONN"
    BY <1>1, <1>3, <1>5, <2>1
  <2>3. \A k \in Slots : k > Njob(t)' => err'[t][k] = "NONE"
    <3>1. \A k \in Slots : k > Njob(t) => k # j
      BY <1>3, <1>4 DEF Slots
    <3>2. \A k \in Slots : k > Njob(t) => err[t][k] = "NONE"
      BY <1>2 DEF CallOK
    <3> QED BY <1>1, <1>5, <3>1, <3>2
  <2>4. \A k \in Slots : err'[t][k] = "OK" =>
          reply'[t][k] = Token(t, k)' /\ Token(t, k)' \in executed'
    <3> SUFFICES ASSUME NEW k \in Slots, err'[t][k] = "OK"
                 PROVE  reply'[t][k] = Token(t, k) /\ Token(t, k) \in executed
      BY <1>5
    <3>1. CASE k = j
      BY <1>1, <3>1
    <3>2. CASE k # j
      BY <1>1, <1>2, <3>2 DEF CallOK
    <3> QED BY <3>1, <3>2
  <2> QED BY <2>2, <2>3, <2>4 DEF CallOK, Acquiring
<1> QED BY <1>6, <1>7 DEF CallInv

LEMMA RecvReply ==
    ASSUME OwnInv, ReplyInv, NEW t \in Threads, NEW j \in Slots,
           \/ SendFail(t, j) \/ RecvPart(t, j) \/ RecvDone(t, j) \/ RecvBad(t, j)
           \/ RecvFail(t, j)
    PROVE  ReplyInv'
<1> DEFINE c == held[t][j]
<1> USE DEF JobDone
<1>1. /\ pc[t] = "run" /\ err[t][j] \in Busy
      /\ UNCHANGED <<pc, jobs, held, nrun, st, up, req, executed>>
    BY DEF SendFail, RecvPart, RecvDone, RecvBad, RecvFail, connVars, sockVars, Busy
<1>2. c \in Conns
    BY <1>1 DEF OwnInv, ErrInv, ErrOK
<1>3. c # NoConn
    BY <1>2, PoolAssumption
<1>4. IF err[t][j] \in Expecting THEN InFlight(c, Token(t, j)) ELSE Quiet(c)
    BY <1>3 DEF ReplyInv, SlotTraffic
<1>5. ~up[c] => req[c] = <<>>
    BY <1>2 DEF ReplyInv, ConnTraffic
<1>6. Token(t, j) \in Requests
  <2>1. nrun[t] \in 1..MaxRuns
    BY <1>1, PoolAssumption DEF OwnInv, ErrInv, ErrOK, TypeOK, RunType
  <2> QED BY <2>1 DEF Token, Requests
<1> HIDE DEF c
<1>7. PICK e \in {"ESEND", "ERECVWAIT", "OK", "EHTTP", "ERECV"} :
        /\ err' = [err EXCEPT ![t][j] = e]
        /\ \/ /\ e = "ESEND" /\ err[t][j] = "ESENDWAIT"
              /\ UNCHANGED <<reply, resp>>
           \/ /\ e = "ERECVWAIT" /\ err[t][j] \in Expecting
              /\ UNCHANGED <<reply, resp>>
           \/ /\ e = "ERECV" /\ err[t][j] \in Expecting /\ resp[c] = <<>> /\ ~up[c]
              /\ UNCHANGED <<reply, resp>>
           \/ /\ e \in {"OK", "EHTTP"} /\ err[t][j] \in Expecting /\ resp[c] # <<>>
              /\ resp' = [resp EXCEPT ![c] = Tail(resp[c])]
              /\ reply' = IF e = "OK"
                          THEN [reply EXCEPT ![t][j] = Head(resp[c])] ELSE reply
    BY DEF c, SendFail, RecvPart, RecvDone, RecvBad, RecvFail, connVars, sockVars,
       Expecting
<1>8. /\ err'[t][j] = e
      /\ \A u \in Threads, k \in Slots : ~(u = t /\ k = j) => err'[u][k] = err[u][k]
    BY <1>7 DEF OwnInv, TypeOK, RunType
<1>9. e # "ERECVWAIT" => req[c] = <<>> /\ resp'[c] = <<>>
  <2>1. CASE e \in {"ESEND", "ERECV"}
    BY <1>4, <1>5, <1>7, <2>1 DEF Quiet, Expecting, InFlight
  <2>2. CASE e \in {"OK", "EHTTP"}
    <3>1. req[c] = <<>> /\ resp[c] = <<Token(t, j)>>
      BY <1>4, <1>7, <2>2 DEF InFlight, Quiet, Expecting
    <3>2. Tail(<<Token(t, j)>>) = <<>>
      BY <1>6
    <3>3. resp'[c] = Tail(resp[c])
      BY <1>2, <1>7, <2>2 DEF OwnInv, TypeOK, SockType
    <3> QED BY <3>1, <3>2, <3>3
  <2> QED BY <2>1, <2>2
<1>10. /\ \A d \in Conns \ {c} : resp'[d] = resp[d]
       /\ e = "ERECVWAIT" => resp' = resp
    BY <1>7 DEF OwnInv, TypeOK, SockType
<1>11. CallInv'
  <2>1. \A u \in Threads, k \in Slots :
          ~(u = t /\ k = j) => reply'[u][k] = reply[u][k]
    BY <1>7 DEF OwnInv, TypeOK, RunType
  <2>2. e = "OK" => reply'[t][j] = Token(t, j) /\ Token(t, j) \in executed
    <3> HAVE e = "OK"
    <3>1. resp[c] = <<Token(t, j)>>
      BY <1>4, <1>7 DEF InFlight, Quiet, Expecting
    <3>2. Head(resp[c]) = Token(t, j)
      BY <3>1, <1>6
    <3>3. reply' = [reply EXCEPT ![t][j] = Head(resp[c])]
      BY <1>7
    <3>4. reply'[t][j] = Head(resp[c])
      BY <3>3 DEF OwnInv, TypeOK, RunType
    <3>5. Token(t, j) \in executed
      BY <3>1, <1>2, <1>6 DEF ReplyInv, UsedInv
    <3> QED BY <3>2, <3>4, <3>5
  <2>3. e \in Errors \ {"ENOCONN", "NONE"}
    BY <1>7 DEF Errors, Busy, Failed
  <2> QED BY <1>1, <1>7, <2>1, <2>2, <2>3, JobCall
<1>12. \A u \in Threads, k \in Slots :
          err[u][k] \in AfterSend => err'[u][k] \in AfterSend
    BY <1>7, <1>8 DEF AfterSend
<1>13. ASSUME NEW u \in Threads, NEW k \in Slots, held'[u][k] # NoConn
       PROVE  \/ /\ held'[u][k] = held[u][k]
                 /\ req'[held[u][k]] = req[held[u][k]]
                 /\ resp'[held[u][k]] = resp[held[u][k]]
                 /\ err'[u][k] \in Expecting <=> err[u][k] \in Expecting
              \/ err'[u][k] \notin Expecting /\ Quiet(held[u][k])'
  <2>1. CASE u = t /\ k = j /\ e = "ERECVWAIT"
    BY <1>1, <1>7, <1>8, <1>10, <2>1 DEF Expecting
  <2>2. CASE u = t /\ k = j /\ e # "ERECVWAIT"
    <3>1. err'[u][k] \notin Expecting
      BY <1>8, <1>7, <2>2 DEF Expecting
    <3> QED BY <1>1, <1>9, <2>2, <3>1 DEF Quiet, c
  <2>3. CASE ~(u = t /\ k = j)
    <3>1. held[u][k] \in Conns /\ held[u][k] # c
      BY <1>1, <1>3, <1>13, <2>3, HeldFacts DEF c, OwnInv, HeldInv
    <3> QED BY <1>1, <1>8, <1>10, <2>3, <3>1
  <2> QED BY <2>1, <2>2, <2>3
<1>14. \A d \in Conns : resp'[d] = resp[d] \/ (req'[d] = <<>> /\ resp'[d] = <<>>)
    BY <1>1, <1>9, <1>10
<1> QED BY <1>1, <1>11, <1>12, <1>13, <1>14, StepReply

LEMMA SendReply ==
    ASSUME OwnInv, ReplyInv, NEW t \in Threads, NEW j \in Slots, Send(t, j)
    PROVE  ReplyInv'
<1> DEFINE c == held[t][j]
           q == Token(t, j)
<1>1. /\ pc[t] = "run" /\ err[t][j] = "ESENDWAIT"
      /\ UNCHANGED <<pc, jobs, held, nrun, st, up, resp, executed, reply>>
      /\ err' = [err EXCEPT ![t][j] = "ETIMEOUT"]
      /\ req' = [req EXCEPT ![c] = IF up[c] THEN Append(req[c], q) ELSE req[c]]
    BY DEF Send, JobDone, connVars
<1>2. c \in Conns
    BY <1>1 DEF OwnInv, ErrInv, ErrOK, Busy
<1>3. Quiet(c)
  <2>1. c # NoConn
    BY <1>2, PoolAssumption
  <2> QED BY <1>1, <2>1 DEF ReplyInv, SlotTraffic, Expecting
<1>4. q \in Requests
  <2>1. nrun[t] \in 1..MaxRuns
    BY <1>1, PoolAssumption DEF OwnInv, ErrInv, ErrOK, TypeOK, RunType
  <2> QED BY <2>1 DEF Token, Requests
<1>5. /\ q' = q /\ q[1] = t /\ q[2] = nrun[t] /\ q[3] = j
    BY <1>1 DEF Token
<1> HIDE DEF q
<1>6. /\ req'[c] = IF up[c] THEN <<q>> ELSE <<>>
      /\ \A d \in Conns \ {c} : req'[d] = req[d]
  <2>1. Append(<<>>, q) = <<q>>
    BY <1>4
  <2> QED BY <1>1, <1>2, <1>3, <2>1 DEF Quiet, OwnInv, TypeOK, SockType
<1>7. /\ err'[t][j] = "ETIMEOUT"
      /\ \A u \in Threads, k \in Slots : ~(u = t /\ k = j) => err'[u][k] = err[u][k]
    BY <1>1 DEF OwnInv, TypeOK, RunType
<1>8. CallInv'
  <2>1. "ETIMEOUT" \in Errors \ {"ENOCONN", "NONE"} /\ err[t][j] \in Busy
    BY <1>1 DEF Errors, Busy
  <2> QED BY <1>1, <2>1, JobCall
<1>9. SlotTraffic'
  <2> SUFFICES ASSUME NEW u \in Threads, NEW k \in Slots, held[u][k] # NoConn
               PROVE  IF err'[u][k] \in Expecting
                      THEN InFlight(held[u][k], Token(u, k))'
                      ELSE Quiet(held[u][k])'
    BY <1>1 DEF SlotTraffic
  <2>1. CASE u = t /\ k = j
    <3>1. resp'[c] = <<>>
      BY <1>1, <1>3 DEF Quiet
    <3>2. err'[u][k] \in Expecting
      BY <1>7, <2>1 DEF Expecting
    <3>3. InFlight(held[u][k], Token(u, k))'
      BY <1>1, <1>5, <1>6, <2>1, <3>1 DEF InFlight, Quiet, q
    <3> QED BY <3>2, <3>3
  <2>2. CASE ~(u = t /\ k = j)
    <3>1. held[u][k] \in Conns /\ held[u][k] # c
      BY <1>2, <2>2, PoolAssumption, HeldFacts DEF OwnInv, HeldInv
    <3>2. req'[held[u][k]] = req[held[u][k]] /\ resp'[held[u][k]] = resp[held[u][k]]
      BY <1>1, <1>6, <3>1
    <3>3. err'[u][k] = err[u][k] /\ Token(u, k)' = Token(u, k)
      BY <1>1, <1>7, <2>2 DEF Token
    <3>4. IF err[u][k] \in Expecting THEN InFlight(held[u][k], Token(u, k))
                                     ELSE Quiet(held[u][k])
      BY DEF ReplyInv, SlotTraffic
    <3> QED BY <1>1, <3>2, <3>3, <3>4 DEF InFlight, Quiet
  <2> QED BY <2>1, <2>2
<1>10. ConnTraffic'
  <2> SUFFICES ASSUME NEW d \in Conns
               PROVE  /\ st[d] \in {"idle", "scan", "closed"} => Quiet(d)'
                      /\ st[d] = "free" => resp[d] = <<>>
                      /\ ~up[d] => req'[d] = <<>>
                      /\ req'[d] # <<>> => /\ resp[d] = <<>>
                                           /\ \E x \in Requests : req'[d] = <<x>>
    BY <1>1 DEF ConnTraffic
  <2>1. CASE d = c
    <3>1. st[c] = "busy" /\ resp[c] = <<>>
      BY <1>1, <1>2, <1>3, PoolAssumption DEF OwnInv, HeldInv, SlotState, Quiet
    <3> QED BY <1>4, <1>6, <2>1, <3>1
  <2>2. CASE d # c
    BY <1>1, <1>6, <2>2 DEF ReplyInv, ConnTraffic, Quiet
  <2> QED BY <2>1, <2>2
<1>11. \A d \in Conns : req[d] # <<q>>
  <2>1. ~Known(q)
    BY <1>1, <1>5 DEF Known, AfterSend
  <2> QED BY <1>4, <2>1 DEF ReplyInv, UsedInv
<1>12. Once'
  <2>1. req[c] = <<>> /\ Once
    BY <1>3 DEF Quiet, ReplyInv
  <2> QED BY <1>2, <1>6, <1>11, <2>1 DEF Once
<1>13. UsedInv'
  <2>1. ASSUME NEW x \in Requests, Known(x) PROVE Known(x)'
    <3>1. \A u \in Threads, k \in Slots :
            err[u][k] \in AfterSend => err'[u][k] \in AfterSend
      BY <1>7 DEF AfterSend
    <3> QED BY <1>1, <2>1, <3>1, KnownFrame
  <2>2. Known(q)'
    <3>1. nrun[t] \in Nat
      BY PoolAssumption DEF OwnInv, TypeOK, RunType
    <3> QED BY <1>1, <1>5, <1>7, <3>1 DEF Known, AfterSend
  <2>3. \A x \in executed : x \in Requests /\ Known(x)
    BY DEF ReplyInv, UsedInv, OwnInv, TypeOK, SockType
  <2>4. ASSUME NEW d \in Conns, NEW x \in Requests, req'[d] = <<x>> PROVE Known(x)'
    <3>1. CASE d = c
      <4>1. x = q
        BY <1>6, <2>4, <3>1
      <4> QED BY <2>2, <1>5, <4>1
    <3>2. CASE d # c
      BY <1>6, <2>1, <2>4, <3>2 DEF ReplyInv, UsedInv
    <3> QED BY <3>1, <3>2
  <2>5. \A d \in Conns, x \in Requests : resp'[d] = <<x>> => x \in executed'
    BY <1>1 DEF ReplyInv, UsedInv
  <2> QED BY <1>1, <2>1, <2>3, <2>4, <2>5 DEF UsedInv
<1> QED BY <1>8, <1>9, <1>10, <1>12, <1>13 DEF ReplyInv

-----------------------------------------------------------------------------
(* The beginning and the end of a call.                                    *)

LEMMA RunStartReply ==
    ASSUME OwnInv, ReplyInv, NEW t \in Threads, RunStart(t)
    PROVE  ReplyInv'
<1>1. /\ pc[t] = "idle" /\ pc' = [pc EXCEPT ![t] = "get"]
      /\ nrun' = [nrun EXCEPT ![t] = nrun[t] + 1]
      /\ UNCHANGED <<held, err, reply, st, up, req, resp, executed>>
    BY DEF RunStart, connVars, sockVars
<1>2. PICK js \in JobLists : jobs' = [jobs EXCEPT ![t] = js]
    BY DEF RunStart
<1>3. /\ pc'[t] = "get" /\ nrun[t] \in Nat /\ nrun'[t] = nrun[t] + 1 /\ jobs'[t] = js
      /\ \A u \in Threads \ {t} : /\ pc'[u] = pc[u] /\ nrun'[u] = nrun[u]
                                  /\ jobs'[u] = jobs[u]
    BY <1>1, <1>2, PoolAssumption DEF OwnInv, TypeOK, RunType
<1>4. \A j \in Slots : err[t][j] = "NONE" /\ held[t][j] = NoConn
  <2>1. jobs[t] = <<>> /\ i[t] = 1
    BY <1>1 DEF OwnInv, ThreadInv, ThreadOK
  <2>2. \A j \in Slots : j >= 1 /\ j > 0
    BY DEF Slots
  <2> QED BY <1>1, <2>1, <2>2 DEF OwnInv, ThreadInv, ThreadOK, ErrInv, ErrOK, Njob
<1>5. CallInv'
  <2>1. CallOK(t)'
    BY <1>1, <1>3, <1>4 DEF CallOK
  <2> QED BY <1>1, <1>3, <2>1, CallFrame DEF ReplyInv
<1>6. SlotTraffic'
    BY <1>1, <1>3, <1>4, SlotFrame DEF ReplyInv
<1>7. ConnTraffic' /\ Once'
    BY <1>1, ConnFrame, OnceFrame DEF ReplyInv
<1>8. UsedInv'
  <2>1. ASSUME NEW q \in Requests, Known(q) PROVE Known(q)'
    <3>1. q[1] \in Threads /\ q[2] \in Nat
      BY PoolAssumption DEF Requests
    <3>2. CASE q[1] = t
      BY <1>3, <2>1, <3>1, <3>2 DEF Known
    <3>3. CASE q[1] # t
      BY <1>1, <1>3, <2>1, <3>1, <3>3 DEF Known
    <3> QED BY <3>2, <3>3
  <2> QED BY <1>1, <2>1, UsedFrame DEF ReplyInv, OwnInv, TypeOK
<1> QED BY <1>5, <1>6, <1>7, <1>8 DEF ReplyInv

\* A step of the finishing loop.
LEMMA FinishCall ==
    ASSUME OwnInv, ReplyInv, NEW t \in Threads, pc[t] \in {"run", "finish", "close"},
           NEW p \in {"finish", "close"}, pc' = [pc EXCEPT ![t] = p],
           UNCHANGED <<jobs, err, reply, nrun, executed>>
    PROVE  CallInv' /\ \A u \in Threads : pc[u] = "idle" => pc'[u] = "idle"
<1>1. pc'[t] = p /\ \A u \in Threads \ {t} : pc'[u] = pc[u]
    BY DEF OwnInv, TypeOK, RunType
<1>2. CallOK(t)
    BY DEF ReplyInv, CallInv
<1>3. CallOK(t)'
    BY <1>1, <1>2 DEF CallOK, Acquiring, Token, Njob
<1>4. CallInv'
    BY <1>1, <1>3, CallFrame DEF ReplyInv
<1> QED BY <1>1, <1>4

LEMMA FinishReply ==
    ASSUME OwnInv, ReplyInv, NEW t \in Threads,
           RunEnd(t) \/ RunTimeout(t) \/ FinishSkip(t) \/ PutClose(t) \/ JobFail(t)
    PROVE  ReplyInv'
<1>1. pc[t] \in {"run", "finish"}
    BY DEF RunEnd, RunTimeout, FinishSkip, PutClose, IsPut, JobFail, Finishing
<1>2. UNCHANGED <<jobs, err, reply, nrun, executed, held, up, req, resp>>
    BY DEF RunEnd, RunTimeout, StopRun, FinishSkip, PutClose, JobFail, Retire, sockVars
<1>3. PICK p \in {"finish", "close"} : pc' = [pc EXCEPT ![t] = p]
  <2>1. pc = [pc EXCEPT ![t] = pc[t]]
    BY DEF OwnInv, TypeOK, RunType
  <2> QED BY <2>1 DEF RunEnd, RunTimeout, StopRun, FinishSkip, Finishing, PutClose,
          JobFail, Retire
<1>4. CallInv' /\ \A u \in Threads : pc[u] = "idle" => pc'[u] = "idle"
    BY <1>1, <1>2, <1>3, FinishCall
<1>5. \A d \in Conns : st'[d] \in {st[d], "retired"}
    BY DEF RunEnd, RunTimeout, StopRun, FinishSkip, PutClose, JobFail, Retire,
       connVars, OwnInv, TypeOK, ConnType
<1> QED BY <1>2, <1>4, <1>5, StepReply

LEMMA PutIdleReply ==
    ASSUME OwnInv, ReplyInv, NEW t \in Threads, PutIdle(t)
    PROVE  ReplyInv'
<1>1. /\ pc[t] = "finish" /\ i[t] <= Njob(t) /\ Cur(t) # NoConn
      /\ err[t][i[t]] \in {"OK", "ENOCONN"}
      /\ st' = [st EXCEPT ![Cur(t)] = "idle"]
      /\ held' = [held EXCEPT ![t][i[t]] = NoConn]
      /\ UNCHANGED <<pc, jobs, err, reply, nrun, executed, up, req, resp>>
    BY DEF PutIdle, IsPut, Finishing, sockVars
<1>2. i[t] \in Slots
    BY <1>1, FinishFacts
<1>3. Cur(t) \in Conns /\ Quiet(Cur(t))
    BY <1>1, <1>2, CurQuiet DEF Expecting
<1>4. pc' = [pc EXCEPT ![t] = "finish"]
    BY <1>1 DEF OwnInv, TypeOK, RunType
<1>5. CallInv' /\ \A u \in Threads : pc[u] = "idle" => pc'[u] = "idle"
    BY <1>1, <1>4, FinishCall
<1>6. \A u \in Threads, k \in Slots : held'[u][k] \in {held[u][k], NoConn}
    BY <1>1, <1>2 DEF OwnInv, TypeOK, RunType
<1>7. \A d \in Conns : st'[d] = st[d] \/ (req'[d] = <<>> /\ resp'[d] = <<>>)
    BY <1>1, <1>3 DEF Quiet, OwnInv, TypeOK, ConnType
<1> QED BY <1>1, <1>5, <1>6, <1>7, StepReply

LEMMA CloseConnReply ==
    ASSUME OwnInv, ReplyInv, NEW t \in Threads, CloseConn(t)
    PROVE  ReplyInv'
<1>1. /\ pc[t] = "close" /\ pc' = [pc EXCEPT ![t] = "finish"]
      /\ st' = [st EXCEPT ![Cur(t)] = "free"]
      /\ resp' = [resp EXCEPT ![Cur(t)] = <<>>]
      /\ held' = [held EXCEPT ![t][i[t]] = NoConn]
      /\ UNCHANGED <<jobs, err, reply, nrun, executed, up, req>>
    BY DEF CloseConn, CloseSock
<1>2. i[t] <= Njob(t) /\ Cur(t) \in Conns
    BY <1>1 DEF OwnInv, ThreadInv, ThreadOK, Cur
<1>3. i[t] \in Slots
    BY <1>1, <1>2, FinishFacts
<1>4. CallInv' /\ \A u \in Threads : pc[u] = "idle" => pc'[u] = "idle"
    BY <1>1, FinishCall
<1>5. /\ resp'[Cur(t)] = <<>> /\ st'[Cur(t)] = "free"
      /\ \A d \in Conns \ {Cur(t)} : resp'[d] = resp[d] /\ st'[d] = st[d]
    BY <1>1, <1>2 DEF OwnInv, TypeOK, ConnType, SockType
<1>6. ASSUME NEW u \in Threads, NEW k \in Slots, held'[u][k] # NoConn
      PROVE  held'[u][k] = held[u][k] /\ resp'[held[u][k]] = resp[held[u][k]]
  <2>1. ~(u = t /\ k = i[t]) /\ held'[u][k] = held[u][k]
    BY <1>1, <1>3, <1>6 DEF OwnInv, TypeOK, RunType
  <2>2. held[u][k] \in Conns /\ held[u][k] # Cur(t)
    BY <1>2, <1>3, <1>6, <2>1, PoolAssumption, HeldFacts DEF OwnInv, HeldInv, Cur
  <2> QED BY <1>5, <2>1, <2>2
<1> QED BY <1>1, <1>4, <1>5, <1>6, StepReply

LEMMA ReturnReply ==
    ASSUME OwnInv, ReplyInv, NEW t \in Threads, Return(t)
    PROVE  ReplyInv'
<1>1. /\ pc[t] = "finish" /\ i[t] > Njob(t)
      /\ pc' = [pc EXCEPT ![t] = "idle"] /\ jobs' = [jobs EXCEPT ![t] = <<>>]
      /\ err' = [err EXCEPT ![t] = [j \in Slots |-> "NONE"]]
      /\ reply' = [reply EXCEPT ![t] = [j \in Slots |-> NoReply]]
      /\ UNCHANGED <<held, nrun, st, up, req, resp, executed>>
    BY DEF Return, Results, connVars, sockVars
<1>2. /\ pc'[t] = "idle" /\ \A j \in Slots : err'[t][j] = "NONE"
      /\ \A u \in Threads \ {t} : /\ pc'[u] = pc[u] /\ jobs'[u] = jobs[u]
                                  /\ err'[u] = err[u] /\ reply'[u] = reply[u]
    BY <1>1 DEF OwnInv, TypeOK, RunType
<1>3. \A j \in Slots : held[t][j] = NoConn
  <2>1. /\ jobs[t] \in JobLists /\ i[t] \in 1..(Njob(t) + 1)
        /\ \A j \in Slots : j < i[t] => held[t][j] = NoConn
        /\ \A j \in Slots : j > Njob(t) => held[t][j] = NoConn
    BY <1>1 DEF OwnInv, ThreadInv, ThreadOK
  <2>2. Njob(t) \in Nat
    BY <2>1, JobListType DEF Njob
  <2> QED BY <2>1, <2>2, <1>1 DEF Slots
<1>4. CallInv'
  <2>1. CallOK(t)'
    BY <1>2 DEF CallOK, Acquiring
  <2> QED BY <1>1, <1>2, <2>1, CallFrame DEF ReplyInv
<1>5. \A u \in Threads, k \in Slots :
        /\ pc[u] = "idle" => pc'[u] = "idle"
        /\ pc'[u] # "idle" => err'[u][k] = err[u][k]
        /\ held'[u][k] # NoConn => err'[u][k] = err[u][k]
    BY <1>1, <1>2, <1>3
<1>6. \A u \in Threads : pc[u] = "idle" => pc'[u] = "idle"
    BY <1>2
<1> QED BY <1>1, <1>4, <1>5, <1>6, StepReply

-----------------------------------------------------------------------------
(* The listen thread and the servers.                                      *)

\* A step of the listen thread: threads stay where they are.
LEMMA ListenReply ==
    ASSUME OwnInv, ReplyInv, UNCHANGED <<runVars, executed>>,
           \A u \in Threads, k \in Slots : held[u][k] # NoConn =>
              /\ req'[held[u][k]] = req[held[u][k]]
              /\ resp'[held[u][k]] = resp[held[u][k]],
           \A c \in Conns :
              \/ req'[c] = <<>> /\ resp'[c] = <<>>
              \/ /\ req'[c] = req[c] /\ resp'[c] = resp[c] /\ up'[c] = up[c]
                 /\ st'[c] = st[c]
    PROVE  ReplyInv'
<1>1. UNCHANGED <<pc, jobs, held, err, reply, nrun>>
    BY DEF runVars
<1>2. CallInv'
    BY <1>1 DEF ReplyInv, CallInv, CallOK, Token, Njob
<1> QED BY <1>1, <1>2, StepReply

\* A connection the listen thread has, or takes from the idle list, is quiet.
LEMMA ListenQuiet ==
    ASSUME OwnInv, ReplyInv, NEW c \in Conns
    PROVE  /\ st[c] \in {"idle", "scan", "closed"} => Quiet(c)
           /\ \A r \in Rpcs : c \in Range(idle[r]) => Quiet(c)
           /\ c \in Range(scan) \cup Range(keep) \cup drop => Quiet(c)
<1>1. st[c] \in {"idle", "scan", "closed"} => Quiet(c)
    BY DEF ReplyInv, ConnTraffic
<1>2. \A r \in Rpcs : c \in Range(idle[r]) => st[c] = "idle"
    BY DEF OwnInv, IdleInv
<1>3. c \in Range(scan) \cup Range(keep) \cup drop => st[c] \in {"scan", "closed"}
    BY DropFacts DEF OwnInv, ListenInv
<1> QED BY <1>1, <1>2, <1>3

LEMMA AcceptReply ==
    ASSUME OwnInv, ReplyInv, NEW c \in Conns, NEW r \in Rpcs, Accept(c, r)
    PROVE  ReplyInv'
<1>1. /\ st[c] = "free" /\ UNCHANGED <<runVars, executed>>
      /\ st' = [d \in Conns |-> IF d = c \/ d \in Range(idle[r])
                                THEN "scan" ELSE st[d]]
      /\ up' = [up EXCEPT ![c] = TRUE]
      /\ req' = [req EXCEPT ![c] = <<>>] /\ resp' = [resp EXCEPT ![c] = <<>>]
    BY DEF Accept
<1>2. /\ req'[c] = <<>> /\ resp'[c] = <<>>
      /\ \A d \in Conns \ {c} : /\ req'[d] = req[d] /\ resp'[d] = resp[d]
                                /\ up'[d] = up[d]
    BY <1>1 DEF OwnInv, TypeOK, SockType
<1>3. \A u \in Threads, k \in Slots : held[u][k] # NoConn =>
        held[u][k] \in Conns /\ held[u][k] # c
    BY <1>1, HeldFacts
<1>4. ASSUME NEW d \in Conns
      PROVE  \/ req'[d] = <<>> /\ resp'[d] = <<>>
             \/ /\ req'[d] = req[d] /\ resp'[d] = resp[d] /\ up'[d] = up[d]
                /\ st'[d] = st[d]
  <2>1. CASE d = c \/ d \notin Range(idle[r])
    BY <1>1, <1>2, <2>1
  <2>2. CASE d # c /\ d \in Range(idle[r])
    BY <1>2, <2>2, ListenQuiet DEF Quiet
  <2> QED BY <2>1, <2>2
<1> QED BY <1>1, <1>2, <1>3, <1>4, ListenReply

LEMMA ScanReply ==
    ASSUME OwnInv, ReplyInv,
           ScanPoll \/ ScanKeep \/ StopListener \/ ListenExit \/ UNCHANGED vars
    PROVE  ReplyInv'
<1>1. UNCHANGED <<runVars, executed, req, resp, up, st>>
    BY DEF ScanPoll, ScanKeep, StopListener, ListenExit, connVars, sockVars, vars
<1> QED BY <1>1, ListenReply

LEMMA ScanCloseReply ==
    ASSUME OwnInv, ReplyInv, ScanClose
    PROVE  ReplyInv'
<1> DEFINE c == Head(scan)
<1>1. /\ scan # <<>> /\ UNCHANGED <<runVars, executed, req, up>>
      /\ st' = [st EXCEPT ![c] = "closed"] /\ resp' = [resp EXCEPT ![c] = <<>>]
    BY DEF ScanClose, CloseSock
<1>2. c \in Range(scan) /\ c \in Conns
    BY <1>1, TailList DEF OwnInv, TypeOK, ListenType, ListenInv
<1> HIDE DEF c
<1>3. req[c] = <<>> /\ resp[c] = <<>>
    BY <1>2, ListenQuiet DEF Quiet
<1>4. resp' = resp /\ \A d \in Conns \ {c} : st'[d] = st[d]
    BY <1>1, <1>2, <1>3 DEF OwnInv, TypeOK, SockType, ConnType
<1> QED BY <1>1, <1>3, <1>4, ListenReply

LEMMA RelistReply ==
    ASSUME OwnInv, ReplyInv, Relist
    PROVE  ReplyInv'
<1>1. /\ UNCHANGED <<runVars, executed, req, up, resp>>
      /\ st' = [c \in Conns |-> IF c \in drop THEN "free"
                                ELSE IF c \in Range(keep) THEN "idle" ELSE st[c]]
    BY DEF Relist, sockVars
<1>2. \A c \in Conns : st'[c] = st[c] \/ (req'[c] = <<>> /\ resp'[c] = <<>>)
    BY <1>1, ListenQuiet DEF Quiet
<1> QED BY <1>1, <1>2, ListenReply

LEMMA DrainReply ==
    ASSUME OwnInv, ReplyInv, Drain
    PROVE  ReplyInv'
<1>1. /\ UNCHANGED <<runVars, executed, req, up>> /\ lrpc \in Rpcs
      /\ st' = [c \in Conns |-> IF c \in Range(idle[lrpc]) THEN "free" ELSE st[c]]
      /\ resp' = [c \in Conns |-> IF c \in Range(idle[lrpc]) THEN <<>>
                                                             ELSE resp[c]]
    BY DEF Drain, OwnInv, TypeOK, ListenType
<1>2. \A c \in Conns : c \in Range(idle[lrpc]) => req[c] = <<>> /\ resp[c] = <<>>
    BY <1>1, ListenQuiet DEF Quiet
<1>3. \A c \in Conns : resp'[c] = resp[c]
    BY <1>1, <1>2
<1>4. \A c \in Conns : st'[c] = st[c] \/ (req'[c] = <<>> /\ resp'[c] = <<>>)
    BY <1>1, <1>2
<1>5. \A u \in Threads, k \in Slots : held[u][k] # NoConn => held[u][k] \in Conns
    BY HeldFacts
<1> QED BY <1>1, <1>3, <1>4, <1>5, ListenReply

LEMMA ServerDropReply ==
    ASSUME OwnInv, ReplyInv, NEW c \in Conns, ServerDrop(c)
    PROVE  ReplyInv'
<1>1. /\ UNCHANGED <<runVars, st, executed>>
      /\ up' = [up EXCEPT ![c] = FALSE] /\ req' = [req EXCEPT ![c] = <<>>]
      /\ \E q \in {resp[c], <<>>} : resp' = [resp EXCEPT ![c] = q]
    BY DEF ServerDrop, connVars
<1>2. UNCHANGED <<pc, jobs, held, err, reply, nrun>>
    BY <1>1 DEF runVars
<1>3. /\ req'[c] = <<>> /\ resp'[c] \in {resp[c], <<>>}
      /\ \A d \in Conns \ {c} : /\ req'[d] = req[d] /\ resp'[d] = resp[d]
                                /\ up'[d] = up[d]
    BY <1>1 DEF OwnInv, TypeOK, SockType
<1>4. CallInv'
    BY <1>1, <1>2 DEF ReplyInv, CallInv, CallOK, Token, Njob
<1>5. SlotTraffic'
  <2> SUFFICES ASSUME NEW u \in Threads, NEW k \in Slots, held[u][k] # NoConn
               PROVE  IF err[u][k] \in Expecting
                      THEN InFlight(held[u][k], Token(u, k))'
                      ELSE Quiet(held[u][k])'
    BY <1>2 DEF SlotTraffic
  <2>1. held[u][k] \in Conns /\ Token(u, k)' = Token(u, k)
    BY <1>2, HeldFacts DEF Token
  <2>2. IF err[u][k] \in Expecting THEN InFlight(held[u][k], Token(u, k))
                                   ELSE Quiet(held[u][k])
    BY DEF ReplyInv, SlotTraffic
  <2>3. CASE held[u][k] = c
    BY <1>2, <1>3, <2>1, <2>2, <2>3 DEF InFlight, Quiet
  <2>4. CASE held[u][k] # c
    BY <1>2, <1>3, <2>1, <2>2, <2>4 DEF InFlight, Quiet
  <2> QED BY <2>3, <2>4
<1>6. ConnTraffic' /\ Once'
    BY <1>1, <1>3, ConnFrame, OnceFrame DEF ReplyInv
<1>7. UsedInv'
  <2>1. \A q \in Requests : Known(q) => Known(q)'
    BY <1>2 DEF Known
  <2>2. \A d \in Conns : req'[d] \in {req[d], <<>>} /\ resp'[d] \in {resp[d], <<>>}
    BY <1>3
  <2> QED BY <1>1, <2>1, <2>2, UsedFrame DEF ReplyInv, OwnInv, TypeOK
<1> QED BY <1>4, <1>5, <1>6, <1>7 DEF ReplyInv

LEMMA ServerReplyReply ==
    ASSUME OwnInv, ReplyInv, NEW c \in Conns, ServerReply(c)
    PROVE  ReplyInv'
<1>1. /\ req[c] # <<>> /\ UNCHANGED <<runVars, st, up>>
      /\ executed' = executed \cup {Head(req[c])}
      /\ req' = [req EXCEPT ![c] = Tail(req[c])]
      /\ resp' = [resp EXCEPT ![c] = IF SockOpen(c) THEN Append(resp[c], Head(req[c]))
                                                    ELSE resp[c]]
    BY DEF ServerReply, connVars
<1>2. UNCHANGED <<pc, jobs, held, err, reply, nrun>>
    BY <1>1 DEF runVars
<1>3. PICK q \in Requests : req[c] = <<q>> /\ resp[c] = <<>>
    BY <1>1 DEF ReplyInv, ConnTraffic
<1>4. /\ req'[c] = <<>> /\ resp'[c] = IF SockOpen(c) THEN <<q>> ELSE <<>>
      /\ executed' = executed \cup {q}
      /\ \A d \in Conns \ {c} : req'[d] = req[d] /\ resp'[d] = resp[d]
  <2>1. Head(<<q>>) = q /\ Tail(<<q>>) = <<>> /\ Append(<<>>, q) = <<q>>
    OBVIOUS
  <2> QED BY <1>1, <1>3, <2>1 DEF OwnInv, TypeOK, SockType
<1>5. st[c] \notin {"idle", "scan", "closed"} /\ (st[c] = "free" => ~SockOpen(c))
    BY <1>1 DEF ReplyInv, ConnTraffic, Quiet, SockOpen
<1>6. CallInv'
  <2>1. executed \subseteq executed'
    BY <1>4
  <2> QED BY <1>2, <2>1 DEF ReplyInv, CallInv, CallOK, Token, Njob
<1>7. SlotTraffic'
  <2> SUFFICES ASSUME NEW u \in Threads, NEW k \in Slots, held[u][k] # NoConn
               PROVE  IF err[u][k] \in Expecting
                      THEN InFlight(held[u][k], Token(u, k))'
                      ELSE Quiet(held[u][k])'
    BY <1>2 DEF SlotTraffic
  <2>1. held[u][k] \in Conns /\ Token(u, k)' = Token(u, k)
    BY <1>2, HeldFacts DEF Token
  <2>2. IF err[u][k] \in Expecting THEN InFlight(held[u][k], Token(u, k))
                                   ELSE Quiet(held[u][k])
    BY DEF ReplyInv, SlotTraffic
  <2>3. CASE held[u][k] = c
    <3>1. err[u][k] \in Expecting /\ Token(u, k) = q
      BY <1>1, <1>3, <2>2, <2>3 DEF InFlight, Quiet
    <3> QED BY <1>2, <1>4, <2>1, <2>3, <3>1 DEF InFlight, Quiet
  <2>4. CASE held[u][k] # c
    BY <1>2, <1>4, <2>1, <2>2, <2>4 DEF InFlight, Quiet
  <2> QED BY <2>3, <2>4
<1>8. ConnTraffic'
  <2> SUFFICES ASSUME NEW d \in Conns
               PROVE  /\ st[d] \in {"idle", "scan", "closed"} => Quiet(d)'
                      /\ st[d] = "free" => resp'[d] = <<>>
                      /\ ~up[d] => req'[d] = <<>>
                      /\ req'[d] # <<>> => /\ resp'[d] = <<>>
                                           /\ \E x \in Requests : req'[d] = <<x>>
    BY <1>1 DEF ConnTraffic
  <2>1. CASE d = c
    BY <1>4, <1>5, <2>1
  <2>2. CASE d # c
    BY <1>4, <2>2 DEF ReplyInv, ConnTraffic, Quiet
  <2> QED BY <2>1, <2>2
<1>9. \A d \in Conns : req'[d] \in {req[d], <<>>}
    BY <1>4
<1>10. Once'
    BY <1>9, OnceFrame DEF ReplyInv
<1>11. UsedInv'
  <2>1. \A x \in Requests : Known(x) => Known(x)'
    BY <1>2 DEF Known
  <2>2. Known(q)
    BY <1>3 DEF ReplyInv, UsedInv
  <2>3. \A x \in executed : x \in Requests /\ Known(x)
    BY DEF ReplyInv, UsedInv, OwnInv, TypeOK, SockType
  <2>4. \A x \in executed' : Known(x)'
    BY <1>4, <2>1, <2>2, <2>3
  <2>5. ASSUME NEW d \in Conns, NEW x \in Requests
        PROVE  /\ req'[d] = <<x>> => Known(x)'
               /\ resp'[d] = <<x>> => x \in executed'
    <3>1. <<x>> # <<>>
      OBVIOUS
    <3>2. CASE d = c
      BY <1>4, <3>1, <3>2
    <3>3. CASE d # c
      BY <1>4, <2>1, <3>3 DEF ReplyInv, UsedInv
    <3> QED BY <3>2, <3>3
  <2> QED BY <2>4, <2>5 DEF UsedInv
<1> QED BY <1>6, <1>7, <1>8, <1>10, <1>11 DEF ReplyInv

-----------------------------------------------------------------------------
LEMMA StepReplyInv == OwnInv /\ ReplyInv /\ [Next]_vars => ReplyInv'
<1> SUFFICES ASSUME OwnInv, ReplyInv, [Next]_vars PROVE ReplyInv'
    OBVIOUS
<1>1. CASE UNCHANGED vars
    BY <1>1, ScanReply
<1>2. ASSUME NEW t \in Threads, RunStart(t) PROVE ReplyInv'
    BY <1>2, RunStartReply
<1>3. ASSUME NEW t \in Threads, ThreadStep(t) PROVE ReplyInv'
    BY <1>3, PopReply, GetReply, CheckDropReply, DroppedReply, ConnectReply,
       FinishReply, PutIdleReply, CloseConnReply, ReturnReply DEF ThreadStep
<1>4. ASSUME NEW t \in Threads, NEW j \in Slots, JobStep(t, j) PROVE ReplyInv'
    BY <1>4, SendReply, RecvReply DEF JobStep
<1>5. ASSUME NEW c \in Conns, NEW r \in Rpcs, Accept(c, r) PROVE ReplyInv'
    BY <1>5, AcceptReply
<1>6. ASSUME NEW c \in Conns, ServerReply(c) \/ ServerDrop(c) PROVE ReplyInv'
    BY <1>6, ServerReplyReply, ServerDropReply
<1>7. CASE StopListener \/ ListenStep
    BY <1>7, ScanReply, ScanCloseReply, RelistReply, DrainReply DEF ListenStep
<1> QED BY <1>1, <1>2, <1>3, <1>4, <1>5, <1>6, <1>7 DEF Next

LEMMA ReplyInvariant == Spec => []ReplyInv
BY InitReply, OwnInvariant, StepReplyInv, PTL DEF Spec

\* A job that ends with RPC_OK has the response to its own request, for every
\* number of threads, connections and calls, although a call that gives up
\* leaves its request in a server's socket and connections are used again.
THEOREM OwnReplyAlways == Spec => []OwnReply
<1>1. ReplyInv => OwnReply
    BY DEF ReplyInv, CallInv, CallOK, OwnReply
<1> QED BY <1>1, ReplyInvariant, PTL

\* When one job of a call ends with RPC_ENOCONN, all do, and no server has or
\* will get a request of the call.
THEOREM AllOrNothingAlways == Spec => []AllOrNothing
<1>1. OwnInv /\ ReplyInv => AllOrNothing
  <2> SUFFICES ASSUME OwnInv, ReplyInv, NEW t \in Threads, Results(t),
                      NEW j \in 1..Njob(t), NEW k \in 1..Njob(t),
                      err[t][j] = "ENOCONN"
               PROVE  /\ err[t][k] = "ENOCONN" /\ Token(t, k) \notin executed
                      /\ \A c \in Conns : Token(t, k) \notin Range(req[c])
    BY DEF AllOrNothing
  <2>1. pc[t] = "finish"
    BY DEF Results
  <2>2. err[t][k] = "ENOCONN"
    BY <2>1 DEF ReplyInv, CallInv, CallOK
  <2>3. ~Known(Token(t, k))
    BY <2>1, <2>2 DEF Known, Token, AfterSend
  <2>4. Token(t, k) \notin executed
    BY <2>3 DEF ReplyInv, UsedInv
  <2>5. ASSUME NEW c \in Conns PROVE Token(t, k) \notin Range(req[c])
    <3>1. CASE req[c] = <<>>
      BY <3>1, EmptyList
    <3>2. CASE req[c] # <<>>
      <4>1. PICK q \in Requests : req[c] = <<q>>
        BY <3>2 DEF ReplyInv, ConnTraffic
      <4>2. Known(q)
        BY <4>1 DEF ReplyInv, UsedInv
      <4>3. Range(<<q>>) = {q}
        BY DEF Range
      <4> QED BY <2>3, <4>1, <4>2, <4>3
    <3> QED BY <3>1, <3>2
  <2> QED BY <2>2, <2>4, <2>5
<1> QED BY <1>1, OwnInvariant, ReplyInvariant, PTL

-----------------------------------------------------------------------------
(* The pool implements the service: the mapped variables.                  *)

SvcPhase   == [t \in Threads |-> Phase(t)]
SvcNjob    == [t \in Threads |-> Njob(t)]
SvcOutcome == [t \in Threads |-> [j \in Slots |->
                 IF Results(t) /\ j <= Njob(t) THEN Meaning(err[t][j])
                                               ELSE "none"]]
SvcPending == UNION {Range(req[c]) : c \in Conns}

LEMMA MapsToCall ==
    ASSUME NEW t \in Threads, SvcPhase[t] = "idle", nrun[t] < MaxRuns,
           SvcPhase' = [SvcPhase EXCEPT ![t] = "running"],
           nrun' = [nrun EXCEPT ![t] = @ + 1],
           NEW n \in Slots, SvcNjob' = [SvcNjob EXCEPT ![t] = n],
           UNCHANGED <<SvcOutcome, SentRequests, SvcPending, executed>>
    PROVE  Service!ServiceNext
<1>1. Service!Call(t)
    BY DEF Service!Call, Service!Jobs, Slots, SvcPhase, SvcNjob, SvcOutcome,
           SvcPending
<1> QED BY <1>1 DEF Service!ServiceNext

LEMMA MapsToSend ==
    ASSUME NEW t \in Threads, NEW j \in Slots, SvcPhase[t] = "running",
           j <= SvcNjob[t], Token(t, j) \notin SentRequests,
           SentRequests' = SentRequests \cup {Token(t, j)},
           NEW S \in {{}, {Token(t, j)}}, SvcPending' = SvcPending \cup S,
           UNCHANGED <<SvcPhase, nrun, SvcNjob, SvcOutcome, executed>>
    PROVE  Service!ServiceNext
<1>1. Service!Send(t, j)
    BY DEF Service!Send, Service!Request, Token, SvcPhase, SvcNjob, SvcOutcome,
           SvcPending
<1>2. j \in Service!Jobs
    BY DEF Slots, Service!Jobs
<1> QED BY <1>1, <1>2 DEF Service!ServiceNext

LEMMA MapsToExecute ==
    ASSUME NEW q \in SvcPending, SvcPending' = SvcPending \ {q},
           executed' = executed \cup {q},
           UNCHANGED <<SvcPhase, nrun, SvcNjob, SvcOutcome, SentRequests>>
    PROVE  Service!ServiceNext
BY DEF Service!Execute, Service!ServiceNext, SvcPhase, SvcNjob, SvcOutcome,
       SvcPending

LEMMA MapsToLose ==
    ASSUME SvcPending' \subseteq SvcPending,
           UNCHANGED <<SvcPhase, nrun, SvcNjob, SvcOutcome, SentRequests, executed>>
    PROVE  Service!ServiceNext
<1>1. Service!Lose
    BY DEF Service!Lose, SvcPhase, SvcNjob, SvcOutcome, SvcPending
<1> QED BY <1>1 DEF Service!ServiceNext

LEMMA MapsToFinish ==
    ASSUME NEW t \in Threads, SvcPhase[t] = "running",
           NEW o \in [Slots -> {"none", "done", "notsent", "noconn", "unknown"}],
           SvcOutcome' = [SvcOutcome EXCEPT ![t] = o],
           SvcPhase' = [SvcPhase EXCEPT ![t] = "returned"],
           \A j \in Slots : (o[j] = "none") <=> (j > SvcNjob[t]),
           \A j \in 1..SvcNjob[t] :
              /\ o[j] = "done" => Token(t, j) \in executed
              /\ o[j] \in {"notsent", "noconn"} => Token(t, j) \notin SentRequests
              /\ o[j] = "noconn" => \A k \in 1..SvcNjob[t] : o[k] = "noconn",
           UNCHANGED <<nrun, SvcNjob, SentRequests, SvcPending, executed>>
    PROVE  Service!ServiceNext
<1>1. Service!Truthful(t, o)
    BY DEF Service!Truthful, Service!Request, Service!Jobs, Slots, Token, SvcNjob
<1>2. o \in [Service!Jobs -> Service!Outcomes]
    BY DEF Service!Jobs, Service!Outcomes, Slots
<1>3. Service!Finish(t)
    BY <1>1, <1>2 DEF Service!Finish, SvcPhase, SvcNjob, SvcOutcome, SvcPending
<1> QED BY <1>3 DEF Service!ServiceNext

LEMMA MapsToReturn ==
    ASSUME NEW t \in Threads, SvcPhase[t] = "returned",
           SvcPhase' = [SvcPhase EXCEPT ![t] = "idle"],
           SvcNjob' = [SvcNjob EXCEPT ![t] = 0],
           SvcOutcome' = [SvcOutcome EXCEPT ![t] = [j \in Slots |-> "none"]],
           SentRequests' = {q \in SentRequests : q[1] # t},
           UNCHANGED <<nrun, SvcPending, executed>>
    PROVE  Service!ServiceNext
<1>1. Service!Return(t)
    BY DEF Service!Return, Service!Jobs, Slots, SvcPhase, SvcNjob, SvcOutcome,
           SvcPending
<1> QED BY <1>1 DEF Service!ServiceNext

\* A step that moves no call from one phase to another, and sends nothing.
LEMMA SameCalls ==
    ASSUME jobs' = jobs,
           \A u \in Threads :
              /\ pc[u] = "idle" <=> pc'[u] = "idle"
              /\ Results(u)' = Results(u)
              /\ Results(u) => err'[u] = err[u],
           \A u \in Threads, k \in Slots :
              err[u][k] \in AfterSend <=> err'[u][k] \in AfterSend,
           nrun' = nrun
    PROVE  UNCHANGED <<SvcPhase, SvcNjob, SvcOutcome, SentRequests>>
<1>1. \A u \in Threads : Njob(u)' = Njob(u)
    BY DEF Njob
<1>2. SvcPhase' = SvcPhase
    BY DEF SvcPhase, Phase
<1>3. SvcNjob' = SvcNjob
    BY <1>1 DEF SvcNjob
<1>4. SvcOutcome' = SvcOutcome
  <2>1. ASSUME NEW u \in Threads
        PROVE  [j \in Slots |-> IF Results(u) /\ j <= Njob(u)
                                THEN Meaning(err[u][j]) ELSE "none"]'
             = [j \in Slots |-> IF Results(u) /\ j <= Njob(u)
                                THEN Meaning(err[u][j]) ELSE "none"]
    <3>1. \A j \in Slots : Results(u) => Meaning(err[u][j])' = Meaning(err[u][j])
      BY DEF Meaning
    <3> QED BY <1>1, <3>1
  <2> QED BY <2>1 DEF SvcOutcome
<1>5. SentRequests' = SentRequests
    BY DEF SentRequests, Token
<1> QED BY <1>2, <1>3, <1>4, <1>5

\* The requests on the connections.
LEMMA SamePending ==
    ASSUME \A c \in Conns : req'[c] \in {req[c], <<>>}
    PROVE  SvcPending' \subseteq SvcPending
<1>1. Range(<<>>) = {}
    BY EmptyList
<1> QED BY <1>1 DEF SvcPending

LEMMA PendingMember ==
    ASSUME ReplyInv, NEW q
    PROVE  q \in SvcPending <=> q \in Requests /\ \E c \in Conns : req[c] = <<q>>
<1>1. ASSUME NEW c \in Conns, q \in Range(req[c])
      PROVE  q \in Requests /\ req[c] = <<q>>
  <2>1. req[c] # <<>>
    BY <1>1, EmptyList
  <2>2. PICK x \in Requests : req[c] = <<x>>
    BY <2>1 DEF ReplyInv, ConnTraffic
  <2>3. Range(<<x>>) = {x}
    BY DEF Range
  <2> QED BY <1>1, <2>2, <2>3
<1>2. Range(<<q>>) = {q}
    BY DEF Range
<1> QED BY <1>1, <1>2 DEF SvcPending

\* The same after a step.
LEMMA PendingMemberNext ==
    ASSUME ReplyInv', NEW q
    PROVE  q \in SvcPending' <=> q \in Requests /\ \E c \in Conns : req'[c] = <<q>>
<1>1. ASSUME NEW c \in Conns, q \in Range(req'[c])
      PROVE  q \in Requests /\ req'[c] = <<q>>
  <2>1. req'[c] # <<>>
    BY <1>1, EmptyList
  <2>2. PICK x \in Requests : req'[c] = <<x>>
    BY <2>1 DEF ReplyInv, ConnTraffic
  <2>3. Range(<<x>>) = {x}
    BY DEF Range
  <2> QED BY <1>1, <2>2, <2>3
<1>2. Range(<<q>>) = {q}
    BY DEF Range
<1> QED BY <1>1, <1>2 DEF SvcPending

LEMMA SentMember ==
    ASSUME NEW t \in Threads, NEW j \in Slots
    PROVE  Token(t, j) \in SentRequests <=> err[t][j] \in AfterSend
BY DEF SentRequests, Token

\* Steps that are nothing but the loss of requests, or nothing at all.
LEMMA LoseStep ==
    ASSUME UNCHANGED <<runVars, executed>>,
           \A c \in Conns : req'[c] \in {req[c], <<>>}
    PROVE  Service!ServiceNext
<1>1. UNCHANGED <<pc, jobs, i, err, nrun>>
    BY DEF runVars
<1>2. UNCHANGED <<SvcPhase, SvcNjob, SvcOutcome, SentRequests>>
  <2>1. \A u \in Threads : Results(u)' = Results(u)
    BY <1>1 DEF Results, Njob
  <2> QED BY <1>1, <2>1, SameCalls
<1> QED BY <1>1, <1>2, SamePending, MapsToLose

\* A step of a call that stays in progress and sends nothing.
LEMMA InProgress ==
    ASSUME NEW t \in Threads, jobs' = jobs, nrun' = nrun, executed' = executed,
           \A u \in Threads \ {t} : /\ pc'[u] = pc[u] /\ i'[u] = i[u]
                                    /\ err'[u] = err[u],
           pc[t] # "idle", pc'[t] # "idle", ~Results(t), ~Results(t)',
           \A k \in Slots : err[t][k] \in AfterSend <=> err'[t][k] \in AfterSend,
           \A c \in Conns : req'[c] \in {req[c], <<>>}
    PROVE  Service!ServiceNext
<1>1. UNCHANGED <<SvcPhase, SvcNjob, SvcOutcome, SentRequests>>
  <2>1. \A u \in Threads : Results(u)' = Results(u)
    BY DEF Results, Njob
  <2> QED BY <2>1, SameCalls
<1> QED BY <1>1, SamePending, MapsToLose

-----------------------------------------------------------------------------
(* Every step of the pool is a step of the service.                        *)

LEMMA NextJobMaps ==
    ASSUME OwnInv, ReplyInv, NEW t \in Threads, pc[t] \in Acquiring,
           NEW e \in {"ESENDWAIT", "ENOCONN"}, NextJob(t, e), executed' = executed,
           \A c \in Conns : req'[c] \in {req[c], <<>>}
    PROVE  Service!ServiceNext
<1>1. Unsent
    BY NextJobUnsent
<1>2. /\ pc \in [Threads -> {"idle", "get", "check", "dropped", "connect",
                              "run", "finish", "close"}]
      /\ err \in [Threads -> [Slots -> Errors]]
      /\ i \in [Threads -> 1..(MaxJobs + 1)]
    BY DEF OwnInv, TypeOK, RunType
<1>3. jobs' = jobs /\ nrun' = nrun
    BY DEF NextJob
<1>4. \A u \in Threads \ {t} : pc'[u] = pc[u] /\ i'[u] = i[u] /\ err'[u] = err[u]
    BY <1>2 DEF NextJob
<1>5. pc'[t] \in {"get", "run", "finish"} /\ (pc'[t] = "finish" => i'[t] = 1)
    BY <1>2 DEF NextJob
<1>6. Njob(t)' = Njob(t) /\ Njob(t) \in Slots
    BY <1>3, AcquiringFacts DEF Njob
<1>7. ~Results(t) /\ ~Results(t)'
  <2>1. ~(1 > Njob(t))
    BY <1>6 DEF Slots
  <2> QED BY <1>5, <1>6, <2>1 DEF Results, Acquiring
<1>8. \A k \in Slots : err[t][k] \in AfterSend <=> err'[t][k] \in AfterSend
    BY <1>1 DEF Unsent
<1>9. pc[t] # "idle" /\ pc'[t] # "idle"
    BY <1>5 DEF Acquiring
<1> QED BY <1>3, <1>4, <1>7, <1>8, <1>9, InProgress

\* The acquiring loop stays at its job.
LEMMA MoveMaps ==
    ASSUME OwnInv, NEW t \in Threads, pc[t] \in Acquiring,
           NEW p \in Acquiring, pc' = [pc EXCEPT ![t] = p],
           UNCHANGED <<jobs, i, err, nrun, executed, req>>
    PROVE  Service!ServiceNext
<1>1. pc'[t] = p /\ \A u \in Threads \ {t} : pc'[u] = pc[u]
    BY DEF OwnInv, TypeOK, RunType
<1>2. ~Results(t) /\ ~Results(t)' /\ pc[t] # "idle" /\ pc'[t] # "idle"
    BY <1>1 DEF Results, Acquiring
<1> QED BY <1>1, <1>2, InProgress

LEMMA GiveUpMaps ==
    ASSUME OwnInv, ReplyInv, NEW t \in Threads, pc[t] \in Acquiring, GiveUp(t),
           UNCHANGED <<executed, req>>
    PROVE  Service!ServiceNext
<1>1. CASE R(t) \in HttpRpcs
  <2>1. "connect" \in Acquiring
    BY DEF Acquiring
  <2> QED BY <1>1, <2>1, MoveMaps DEF GiveUp
<1>2. CASE R(t) \notin HttpRpcs
    BY <1>2, NextJobMaps DEF GiveUp
<1> QED BY <1>1, <1>2

LEMMA AcquireMaps ==
    ASSUME OwnInv, ReplyInv, NEW t \in Threads,
           \/ GetPop(t) \/ GetWait(t) \/ GetNone(t) \/ CheckOk(t) \/ CheckDrop(t)
           \/ Dropped(t) \/ ConnectOk(t) \/ ConnectFail(t) \/ GetTimeout(t)
    PROVE  Service!ServiceNext
<1>0. {"get", "check", "dropped", "connect"} \subseteq Acquiring
    BY DEF Acquiring
<1>1. CASE GetPop(t)
  <2>1. /\ pc[t] = "get" /\ pc' = [pc EXCEPT ![t] = "check"]
        /\ UNCHANGED <<jobs, i, err, nrun, executed, req>>
    BY <1>1 DEF GetPop, InGet, sockVars
  <2> QED BY <1>0, <2>1, MoveMaps
<1>2. CASE GetWait(t) \/ GetTimeout(t)
  <2>1. /\ pc[t] = "get" /\ pc' = pc
        /\ UNCHANGED <<jobs, i, err, nrun, executed, req>>
    BY <1>2 DEF GetWait, GetTimeout, InGet, runVars, sockVars
  <2>2. pc' = [pc EXCEPT ![t] = "get"]
    BY <2>1 DEF OwnInv, TypeOK, RunType
  <2> QED BY <1>0, <2>1, <2>2, MoveMaps
<1>3. CASE GetNone(t)
  <2>1. pc[t] = "get" /\ GiveUp(t) /\ UNCHANGED <<executed, req>>
    BY <1>3 DEF GetNone, InGet, sockVars
  <2> QED BY <1>0, <2>1, GiveUpMaps
<1>4. CASE CheckOk(t)
  <2>1. pc[t] = "check" /\ NextJob(t, "ESENDWAIT") /\ UNCHANGED <<executed, req>>
    BY <1>4 DEF CheckOk, sockVars
  <2> QED BY <1>0, <2>1, NextJobMaps
<1>5. CASE CheckDrop(t)
  <2>1. /\ pc[t] = "check" /\ pc' = [pc EXCEPT ![t] = "dropped"]
        /\ UNCHANGED <<jobs, i, err, nrun, executed, req>>
    BY <1>5 DEF CheckDrop
  <2> QED BY <1>0, <2>1, MoveMaps
<1>6. CASE Dropped(t)
  <2>1. /\ pc[t] = "dropped" /\ UNCHANGED <<executed, req>>
        /\ \/ /\ pc' = [pc EXCEPT ![t] = "get"]
              /\ UNCHANGED <<jobs, i, err, nrun>>
           \/ GiveUp(t)
    BY <1>6 DEF Dropped, sockVars
  <2> QED BY <1>0, <2>1, MoveMaps, GiveUpMaps
<1>7. CASE ConnectOk(t)
  <2>1. /\ pc[t] = "connect" /\ NextJob(t, "ESENDWAIT") /\ executed' = executed
        /\ \E c \in Conns : req' = [req EXCEPT ![c] = <<>>]
    BY <1>7 DEF ConnectOk, NewConn
  <2>2. \A c \in Conns : req'[c] \in {req[c], <<>>}
    BY <2>1 DEF OwnInv, TypeOK, SockType
  <2> QED BY <1>0, <2>1, <2>2, NextJobMaps
<1>8. CASE ConnectFail(t)
  <2>1. pc[t] = "connect" /\ NextJob(t, "ENOCONN") /\ UNCHANGED <<executed, req>>
    BY <1>8 DEF ConnectFail, sockVars
  <2> QED BY <1>0, <2>1, NextJobMaps
<1> QED BY <1>1, <1>2, <1>3, <1>4, <1>5, <1>6, <1>7, <1>8

LEMMA RunStartMaps ==
    ASSUME OwnInv, ReplyInv, NEW t \in Threads, RunStart(t)
    PROVE  Service!ServiceNext
<1>1. PICK js \in JobLists : jobs' = [jobs EXCEPT ![t] = js]
    BY DEF RunStart
<1>2. /\ pc[t] = "idle" /\ nrun[t] < MaxRuns
      /\ pc' = [pc EXCEPT ![t] = "get"] /\ nrun' = [nrun EXCEPT ![t] = @ + 1]
      /\ UNCHANGED <<i, err, req, executed>>
    BY DEF RunStart, sockVars
<1>3. /\ pc \in [Threads -> {"idle", "get", "check", "dropped", "connect",
                              "run", "finish", "close"}]
      /\ jobs \in [Threads -> JobLists \cup {<<>>}]
      /\ nrun \in [Threads -> 0..MaxRuns]
    BY DEF OwnInv, TypeOK, RunType
<1>4. /\ pc'[t] = "get" /\ Njob(t)' = Len(js) /\ Len(js) \in Slots
      /\ \A u \in Threads \ {t} : /\ pc'[u] = pc[u] /\ Njob(u)' = Njob(u)
                                  /\ nrun'[u] = nrun[u]
    BY <1>1, <1>2, <1>3, JobListType DEF Njob
<1>5. ~Results(t) /\ ~Results(t)' /\ \A u \in Threads \ {t} : Results(u)' = Results(u)
    BY <1>2, <1>4 DEF Results
<1>6. SvcPhase[t] = "idle" /\ SvcPhase' = [SvcPhase EXCEPT ![t] = "running"]
    BY <1>2, <1>4, <1>5 DEF SvcPhase, Phase
<1>7. SvcNjob' = [SvcNjob EXCEPT ![t] = Len(js)]
    BY <1>4 DEF SvcNjob
<1>8. SvcOutcome' = SvcOutcome
  <2>1. ASSUME NEW u \in Threads
        PROVE  [j \in Slots |-> IF Results(u) /\ j <= Njob(u)
                                THEN Meaning(err[u][j]) ELSE "none"]'
             = [j \in Slots |-> IF Results(u) /\ j <= Njob(u)
                                THEN Meaning(err[u][j]) ELSE "none"]
    <3>1. CASE u = t
      BY <1>5, <3>1
    <3>2. CASE u # t
      BY <1>2, <1>4, <1>5, <3>2
    <3> QED BY <3>1, <3>2
  <2> QED BY <2>1 DEF SvcOutcome
<1>9. SentRequests' = SentRequests
  <2>1. \A k \in Slots : err[t][k] \notin AfterSend
    <3>1. \A k \in Slots : err[t][k] = "NONE"
      BY <1>2 DEF OwnInv, ErrInv, ErrOK, ThreadInv, ThreadOK, Slots, Acquiring
    <3> QED BY <3>1 DEF AfterSend
  <2>2. \A u \in Threads, k \in Slots : u # t => Token(u, k)' = Token(u, k)
    BY <1>4 DEF Token
  <2>3. \A x : x \in SentRequests <=>
          \E u \in Threads, k \in Slots : err[u][k] \in AfterSend /\ x = Token(u, k)
    BY DEF SentRequests
  <2>4. \A x : x \in SentRequests' <=>
          \E u \in Threads, k \in Slots : err'[u][k] \in AfterSend /\ x = Token(u, k)'
    BY DEF SentRequests
  <2>5. \A u \in Threads, k \in Slots : err'[u][k] \in AfterSend =>
          err[u][k] \in AfterSend /\ Token(u, k)' = Token(u, k)
    BY <1>2, <2>1, <2>2
  <2>6. \A u \in Threads, k \in Slots : err[u][k] \in AfterSend =>
          err'[u][k] \in AfterSend /\ Token(u, k)' = Token(u, k)
    BY <1>2, <2>1, <2>2
  <2>7. \A x : x \in SentRequests' <=> x \in SentRequests
    BY <2>3, <2>4, <2>5, <2>6
  <2> QED BY <2>7
<1>10. SvcPending' = SvcPending
    BY <1>2 DEF SvcPending
<1> QED BY <1>2, <1>4, <1>6, <1>7, <1>8, <1>9, <1>10, MapsToCall

\* Send: the request is on the connection, or lost with it.
LEMMA SendMaps ==
    ASSUME OwnInv, ReplyInv, ReplyInv', NEW t \in Threads, NEW j \in Slots,
           Send(t, j)
    PROVE  Service!ServiceNext
<1> DEFINE c == held[t][j]
           q == Token(t, j)
<1>1. /\ pc[t] = "run" /\ err[t][j] = "ESENDWAIT"
      /\ UNCHANGED <<pc, jobs, i, held, nrun, up, executed>>
      /\ err' = [err EXCEPT ![t][j] = "ETIMEOUT"]
      /\ req' = [req EXCEPT ![c] = IF up[c] THEN Append(req[c], q) ELSE req[c]]
    BY DEF Send, JobDone, connVars
<1>2. c \in Conns
    BY <1>1 DEF OwnInv, ErrInv, ErrOK, Busy
<1>3. Quiet(c)
  <2>1. c # NoConn
    BY <1>2, PoolAssumption
  <2> QED BY <1>1, <2>1 DEF ReplyInv, SlotTraffic, Expecting
<1>4. q \in Requests /\ q' = q
  <2>1. nrun[t] \in 1..MaxRuns
    BY <1>1, PoolAssumption DEF OwnInv, ErrInv, ErrOK, TypeOK, RunType
  <2> QED BY <1>1, <2>1 DEF Token, Requests
<1>5. /\ req'[c] = IF up[c] THEN <<q>> ELSE <<>>
      /\ \A d \in Conns \ {c} : req'[d] = req[d]
  <2>1. Append(<<>>, q) = <<q>>
    BY <1>4
  <2> QED BY <1>1, <1>2, <1>3, <2>1 DEF Quiet, OwnInv, TypeOK, SockType
<1>6. /\ err'[t][j] = "ETIMEOUT"
      /\ \A u \in Threads, k \in Slots : ~(u = t /\ k = j) => err'[u][k] = err[u][k]
      /\ \A u \in Threads \ {t} : err'[u] = err[u]
    BY <1>1 DEF OwnInv, TypeOK, RunType
<1>7. \A u \in Threads : /\ Results(u)' = Results(u) /\ Njob(u)' = Njob(u)
                         /\ Results(u) => err'[u] = err[u]
    BY <1>1, <1>6 DEF Results, Njob
<1>8. UNCHANGED <<SvcPhase, SvcNjob, SvcOutcome>>
  <2>1. SvcPhase' = SvcPhase /\ SvcNjob' = SvcNjob
    BY <1>1, <1>7 DEF SvcPhase, SvcNjob, Phase
  <2>2. SvcOutcome' = SvcOutcome
    <3>1. ASSUME NEW u \in Threads
          PROVE  [k \in Slots |-> IF Results(u) /\ k <= Njob(u)
                                  THEN Meaning(err[u][k]) ELSE "none"]'
               = [k \in Slots |-> IF Results(u) /\ k <= Njob(u)
                                  THEN Meaning(err[u][k]) ELSE "none"]
      <4>1. \A k \in Slots : Results(u) => Meaning(err[u][k])' = Meaning(err[u][k])
        BY <1>7 DEF Meaning
      <4> QED BY <1>7, <4>1
    <3> QED BY <3>1 DEF SvcOutcome
  <2> QED BY <2>1, <2>2
<1>9. q \notin SentRequests
    BY <1>1, SentMember DEF AfterSend
<1>10. SentRequests' = SentRequests \cup {q}
  <2>1. \A u \in Threads, k \in Slots :
          Token(u, k)' = Token(u, k) /\ Token(u, k) = <<u, nrun[u], k>>
    BY <1>1 DEF Token
  <2>2. \A u \in Threads, k \in Slots :
          err'[u][k] \in AfterSend <=> err[u][k] \in AfterSend \/ (u = t /\ k = j)
    BY <1>6 DEF AfterSend
  <2>3. \A x : x \in SentRequests <=>
          \E u \in Threads, k \in Slots : err[u][k] \in AfterSend /\ x = Token(u, k)
    BY DEF SentRequests
  <2>4. \A x : x \in SentRequests' <=>
          \E u \in Threads, k \in Slots : err'[u][k] \in AfterSend /\ x = Token(u, k)'
    BY DEF SentRequests
  <2> QED BY <2>1, <2>2, <2>3, <2>4
<1>11. SvcPending' = SvcPending \cup (IF up[c] THEN {q} ELSE {})
  <2>1. \A x : x \in SvcPending <=> x \in Requests /\ \E d \in Conns : req[d] = <<x>>
    BY PendingMember
  <2>2. \A x : x \in SvcPending' <=> x \in Requests /\ \E d \in Conns : req'[d] = <<x>>
    BY PendingMemberNext
  <2>3. \A x : <<x>> # <<>> /\ (<<x>> = <<q>> => x = q)
    OBVIOUS
  <2>4. req[c] = <<>>
    BY <1>3 DEF Quiet
  <2> HIDE DEF q, c
  <2>5. CASE up[c]
    <3>1. req'[c] = <<q>>
      BY <1>5, <2>5
    <3>2. \A x : x \in SvcPending' <=> x \in SvcPending \/ x = q
      BY <1>2, <1>4, <1>5, <2>1, <2>2, <2>3, <2>4, <3>1
    <3> QED BY <2>5, <3>2
  <2>6. CASE ~up[c]
    <3>1. \A d \in Conns : req'[d] = req[d]
      BY <1>5, <2>4, <2>6
    <3>2. \A x : x \in SvcPending' <=> x \in SvcPending
      BY <2>1, <2>2, <3>1
    <3> QED BY <2>6, <3>2
  <2> QED BY <2>5, <2>6
<1>12. SvcPhase[t] = "running" /\ j <= SvcNjob[t]
  <2>1. ~Results(t)
    BY <1>1 DEF Results
  <2>2. SvcPhase[t] = "running"
    BY <1>1, <2>1 DEF SvcPhase, Phase
  <2>3. ~(j > Njob(t))
    BY <1>1 DEF ReplyInv, CallInv, CallOK
  <2>4. Njob(t) \in Nat /\ j \in Nat
    BY <1>1, JobListType DEF OwnInv, ThreadInv, ThreadOK, Njob, Slots
  <2> QED BY <2>2, <2>3, <2>4 DEF SvcNjob
<1>13. \E S \in {{}, {q}} : SvcPending' = SvcPending \cup S
    BY <1>11
<1> HIDE DEF q, c
<1>14. PICK S \in {{}, {q}} : SvcPending' = SvcPending \cup S
    BY <1>13
<1> QED BY <1>1, <1>8, <1>9, <1>10, <1>12, <1>14, MapsToSend DEF q

\* The other steps of a job keep it before or after its send.
LEMMA JobMaps ==
    ASSUME OwnInv, NEW t \in Threads, NEW j \in Slots,
           \/ SendFail(t, j) \/ RecvPart(t, j) \/ RecvDone(t, j)
           \/ RecvBad(t, j) \/ RecvFail(t, j)
    PROVE  Service!ServiceNext
<1>1. PICK e \in {"ESEND", "ERECVWAIT", "OK", "EHTTP", "ERECV"} :
         /\ pc[t] = "run" /\ JobDone(t, j, e) /\ UNCHANGED <<req, executed>>
         /\ err[t][j] \in AfterSend <=> e \in AfterSend
  <2>1. CASE SendFail(t, j)
    <3>1. /\ pc[t] = "run" /\ JobDone(t, j, "ESEND") /\ UNCHANGED <<req, executed>>
          /\ err[t][j] = "ESENDWAIT"
      BY <2>1 DEF SendFail, sockVars
    <3> QED BY <3>1 DEF AfterSend
  <2>2. CASE RecvPart(t, j)
    <3>1. /\ pc[t] = "run" /\ JobDone(t, j, "ERECVWAIT") /\ UNCHANGED <<req, executed>>
          /\ err[t][j] = "ETIMEOUT"
      BY <2>2 DEF RecvPart, sockVars
    <3> QED BY <3>1 DEF AfterSend
  <2>3. CASE RecvDone(t, j)
    <3>1. /\ pc[t] = "run" /\ JobDone(t, j, "OK") /\ UNCHANGED <<req, executed>>
          /\ err[t][j] \in {"ETIMEOUT", "ERECVWAIT"}
      BY <2>3 DEF RecvDone
    <3> QED BY <3>1 DEF AfterSend
  <2>4. CASE RecvBad(t, j)
    <3>1. /\ pc[t] = "run" /\ JobDone(t, j, "EHTTP") /\ UNCHANGED <<req, executed>>
          /\ err[t][j] \in {"ETIMEOUT", "ERECVWAIT"}
      BY <2>4 DEF RecvBad
    <3> QED BY <3>1 DEF AfterSend
  <2>5. CASE RecvFail(t, j)
    <3>1. /\ pc[t] = "run" /\ JobDone(t, j, "ERECV") /\ UNCHANGED <<req, executed>>
          /\ err[t][j] \in {"ETIMEOUT", "ERECVWAIT"}
      BY <2>5 DEF RecvFail, sockVars
    <3> QED BY <3>1 DEF AfterSend
  <2> QED BY <2>1, <2>2, <2>3, <2>4, <2>5
<1>2. /\ err' = [err EXCEPT ![t][j] = e]
      /\ UNCHANGED <<pc, jobs, i, nrun, req, executed>>
    BY <1>1 DEF JobDone
<1>3. /\ \A u \in Threads \ {t} : err'[u] = err[u]
      /\ err'[t][j] = e /\ \A k \in Slots \ {j} : err'[t][k] = err[t][k]
    BY <1>2 DEF OwnInv, TypeOK, RunType
<1>4. \A k \in Slots : err[t][k] \in AfterSend <=> err'[t][k] \in AfterSend
    BY <1>1, <1>3
<1>5. ~Results(t) /\ ~Results(t)' /\ pc[t] # "idle" /\ pc'[t] # "idle"
    BY <1>1, <1>2 DEF Results
<1> QED BY <1>1, <1>2, <1>3, <1>4, <1>5, InProgress

LEMMA StopRunMaps ==
    ASSUME OwnInv, NEW t \in Threads, RunEnd(t) \/ RunTimeout(t)
    PROVE  Service!ServiceNext
<1>1. /\ pc[t] = "run" /\ pc' = [pc EXCEPT ![t] = "finish"]
      /\ UNCHANGED <<jobs, i, err, nrun, req, executed>>
    BY DEF RunEnd, RunTimeout, StopRun, sockVars
<1>2. pc'[t] = "finish" /\ \A u \in Threads \ {t} : pc'[u] = pc[u]
    BY <1>1 DEF OwnInv, TypeOK, RunType
<1>3. i[t] = 1 /\ Njob(t) \in Slots
    BY <1>1, JobListType DEF OwnInv, ThreadInv, ThreadOK, Njob
<1>4. ~(i[t] > Njob(t))
    BY <1>3 DEF Slots
<1>5. ~Results(t) /\ ~Results(t)' /\ pc[t] # "idle" /\ pc'[t] # "idle"
    BY <1>1, <1>2, <1>4 DEF Results, Njob
<1> QED BY <1>1, <1>2, <1>5, InProgress

LEMMA RetireMaps ==
    ASSUME OwnInv, NEW t \in Threads, PutClose(t) \/ JobFail(t)
    PROVE  Service!ServiceNext
<1>1. /\ Finishing(t) /\ pc' = [pc EXCEPT ![t] = "close"]
      /\ UNCHANGED <<jobs, i, err, nrun, req, executed>>
    BY DEF PutClose, JobFail, IsPut, Retire, sockVars
<1>2. pc'[t] = "close" /\ \A u \in Threads \ {t} : pc'[u] = pc[u]
    BY <1>1 DEF OwnInv, TypeOK, RunType
<1>3. i[t] \in Nat /\ Njob(t) \in Nat
    BY <1>1, JobListType
    DEF Finishing, OwnInv, ThreadInv, ThreadOK, TypeOK, RunType, Njob
<1>4. ~Results(t) /\ ~Results(t)' /\ pc[t] # "idle" /\ pc'[t] # "idle"
    BY <1>1, <1>2, <1>3 DEF Results, Finishing
<1> QED BY <1>1, <1>2, <1>4, InProgress

\* The finishing loop goes on; after the last job the call has its results.
LEMMA FinishMaps ==
    ASSUME OwnInv, ReplyInv, NEW t \in Threads, pc[t] \in {"finish", "close"},
           i[t] <= Njob(t), pc' = [pc EXCEPT ![t] = "finish"],
           i' = [i EXCEPT ![t] = @ + 1],
           UNCHANGED <<jobs, err, nrun, req, executed>>
    PROVE  Service!ServiceNext
<1>1. /\ pc'[t] = "finish" /\ \A u \in Threads \ {t} : pc'[u] = pc[u]
      /\ i'[t] = i[t] + 1 /\ \A u \in Threads \ {t} : i'[u] = i[u]
      /\ i[t] \in Nat
    BY DEF OwnInv, TypeOK, RunType
<1>2. Njob(t) \in Slots /\ \A u \in Threads : Njob(u)' = Njob(u)
    BY JobListType DEF OwnInv, ThreadInv, ThreadOK, Njob
<1>3. Njob(t) \in Nat /\ ~Results(t)
    BY <1>1, <1>2 DEF Results, Slots
<1>4. \A u \in Threads \ {t} : Results(u)' = Results(u)
    BY <1>1, <1>2 DEF Results
<1>5. CASE ~Results(t)'
    BY <1>1, <1>3, <1>5, InProgress
<1>6. CASE Results(t)'
  <2> DEFINE o == [j \in Slots |-> IF j <= Njob(t) THEN Meaning(err[t][j])
                                                   ELSE "none"]
  <2>1. o \in [Slots -> {"none", "done", "notsent", "noconn", "unknown"}]
    BY DEF Meaning
  <2>2. SvcPhase[t] = "running" /\ SvcPhase' = [SvcPhase EXCEPT ![t] = "returned"]
    BY <1>1, <1>3, <1>4, <1>6 DEF SvcPhase, Phase
  <2>3. SvcOutcome' = [SvcOutcome EXCEPT ![t] = o]
    BY <1>2, <1>4, <1>6 DEF SvcOutcome, o
  <2>4. UNCHANGED <<SvcNjob, SentRequests, SvcPending>> /\ SvcNjob[t] = Njob(t)
    BY <1>2 DEF SvcNjob, SentRequests, SvcPending, Token
  <2>5. \A j \in Slots : err[t][j] \in Errors
    BY DEF OwnInv, TypeOK, RunType
  <2>6. \A j \in Slots : (o[j] = "none") <=> (j > Njob(t))
    <3>1. \A j \in Slots : (j > Njob(t)) <=> ~(j <= Njob(t))
      BY <1>3 DEF Slots
    <3>2. \A j \in Slots : Meaning(err[t][j]) # "none"
      BY DEF Meaning
    <3> QED BY <3>1, <3>2
  <2>7. 1..Njob(t) \subseteq Slots /\ \A j \in 1..Njob(t) : j <= Njob(t)
    BY <1>2, PoolAssumption DEF Slots
  <2>8. ASSUME NEW j \in 1..Njob(t)
        PROVE  /\ o[j] = "done" => Token(t, j) \in executed
               /\ o[j] \in {"notsent", "noconn"} => Token(t, j) \notin SentRequests
               /\ o[j] = "noconn" => \A k \in 1..Njob(t) : o[k] = "noconn"
    <3>1. \A k \in 1..Njob(t) : k \in Slots /\ o[k] = Meaning(err[t][k])
      BY <2>7
    <3> HIDE DEF o
    <3>2. o[j] = "done" => Token(t, j) \in executed
      <4>1. o[j] = "done" => err[t][j] = "OK"
        BY <3>1 DEF Meaning
      <4> QED BY <3>1, <4>1 DEF ReplyInv, CallInv, CallOK
    <3>3. o[j] \in {"notsent", "noconn"} => Token(t, j) \notin SentRequests
      <4>1. o[j] \in {"notsent", "noconn"} => err[t][j] \notin AfterSend
        BY <3>1 DEF Meaning, AfterSend
      <4> QED BY <3>1, <4>1, SentMember
    <3>4. ASSUME o[j] = "noconn", NEW k \in 1..Njob(t) PROVE o[k] = "noconn"
      <4>1. err[t][j] = "ENOCONN"
        BY <3>1, <3>4 DEF Meaning
      <4>2. err[t][k] = "ENOCONN"
        BY <4>1 DEF ReplyInv, CallInv, CallOK
      <4> QED BY <3>1, <4>2 DEF Meaning
    <3> QED BY <3>2, <3>3, <3>4
  <2> HIDE DEF o
  <2> QED BY <2>1, <2>2, <2>3, <2>4, <2>6, <2>8, MapsToFinish
<1> QED BY <1>5, <1>6

LEMMA ReleaseMaps ==
    ASSUME OwnInv, ReplyInv, NEW t \in Threads,
           FinishSkip(t) \/ PutIdle(t) \/ CloseConn(t)
    PROVE  Service!ServiceNext
<1>1. pc \in [Threads -> {"idle", "get", "check", "dropped", "connect",
                           "run", "finish", "close"}]
    BY DEF OwnInv, TypeOK, RunType
<1>2. CASE FinishSkip(t) \/ PutIdle(t)
  <2>1. /\ pc[t] = "finish" /\ i[t] <= Njob(t) /\ pc' = pc
        /\ i' = [i EXCEPT ![t] = @ + 1]
        /\ UNCHANGED <<jobs, err, nrun, req, executed>>
    BY <1>2 DEF FinishSkip, PutIdle, IsPut, Finishing, sockVars
  <2>2. pc' = [pc EXCEPT ![t] = "finish"]
    BY <1>1, <2>1
  <2> QED BY <2>1, <2>2, FinishMaps
<1>3. CASE CloseConn(t)
  <2>1. /\ pc[t] = "close" /\ pc' = [pc EXCEPT ![t] = "finish"]
        /\ i' = [i EXCEPT ![t] = @ + 1]
        /\ UNCHANGED <<jobs, err, nrun, req, executed>>
    BY <1>3 DEF CloseConn, AfterClose
  <2>2. i[t] <= Njob(t)
    BY <2>1 DEF OwnInv, ThreadInv, ThreadOK
  <2> QED BY <2>1, <2>2, FinishMaps
<1> QED BY <1>2, <1>3

LEMMA ReturnMaps ==
    ASSUME OwnInv, NEW t \in Threads, Return(t)
    PROVE  Service!ServiceNext
<1>1. /\ Results(t) /\ pc' = [pc EXCEPT ![t] = "idle"]
      /\ jobs' = [jobs EXCEPT ![t] = <<>>] /\ i' = [i EXCEPT ![t] = 1]
      /\ err' = [err EXCEPT ![t] = [j \in Slots |-> "NONE"]]
      /\ UNCHANGED <<nrun, req, executed>>
    BY DEF Return, sockVars
<1>2. /\ pc'[t] = "idle" /\ jobs'[t] = <<>> /\ err'[t] = [j \in Slots |-> "NONE"]
      /\ \A u \in Threads \ {t} : /\ pc'[u] = pc[u] /\ jobs'[u] = jobs[u]
                                  /\ i'[u] = i[u] /\ err'[u] = err[u]
    BY <1>1 DEF OwnInv, TypeOK, RunType
<1>3. Njob(t)' = 0 /\ \A u \in Threads \ {t} : Njob(u)' = Njob(u)
    BY <1>2 DEF Njob
<1>4. ~Results(t)' /\ \A u \in Threads \ {t} : Results(u)' = Results(u)
    BY <1>2, <1>3 DEF Results
<1>5. SvcPhase[t] = "returned" /\ SvcPhase' = [SvcPhase EXCEPT ![t] = "idle"]
  <2>1. Phase(t) = "returned" /\ Phase(t)' = "idle"
    BY <1>1, <1>2 DEF Phase, Results
  <2>2. \A u \in Threads \ {t} : Phase(u)' = Phase(u)
    BY <1>2, <1>4 DEF Phase
  <2> QED BY <2>1, <2>2 DEF SvcPhase
<1>6. SvcNjob' = [SvcNjob EXCEPT ![t] = 0]
    BY <1>3 DEF SvcNjob
<1>7. SvcOutcome' = [SvcOutcome EXCEPT ![t] = [j \in Slots |-> "none"]]
  <2>1. \A u \in Threads \ {t} :
          [j \in Slots |-> IF Results(u) /\ j <= Njob(u)
                          THEN Meaning(err[u][j]) ELSE "none"]'
        = [j \in Slots |-> IF Results(u) /\ j <= Njob(u)
                          THEN Meaning(err[u][j]) ELSE "none"]
    BY <1>2, <1>3, <1>4
  <2>2. [j \in Slots |-> IF Results(t) /\ j <= Njob(t)
                         THEN Meaning(err[t][j]) ELSE "none"]'
        = [j \in Slots |-> "none"]
    BY <1>4
  <2> QED BY <2>1, <2>2 DEF SvcOutcome
<1>8. SentRequests' = {q \in SentRequests : q[1] # t}
  <2>1. \A u \in Threads, k \in Slots :
          Token(u, k)' = Token(u, k) /\ Token(u, k)[1] = u
    BY <1>1 DEF Token
  <2>2. \A x : x \in SentRequests <=>
          \E u \in Threads, k \in Slots : err[u][k] \in AfterSend /\ x = Token(u, k)
    BY DEF SentRequests
  <2>3. \A x : x \in SentRequests' <=>
          \E u \in Threads, k \in Slots : err'[u][k] \in AfterSend /\ x = Token(u, k)'
    BY DEF SentRequests
  <2>4. \A k \in Slots : err'[t][k] \notin AfterSend
    BY <1>2 DEF AfterSend
  <2>5. \A x : x \in SentRequests' <=> x \in SentRequests /\ x[1] # t
    BY <1>2, <2>1, <2>2, <2>3, <2>4
  <2> QED BY <2>5
<1>9. SvcPending' = SvcPending
    BY <1>1 DEF SvcPending
<1> QED BY <1>1, <1>5, <1>6, <1>7, <1>8, <1>9, MapsToReturn

LEMMA ListenMaps ==
    ASSUME OwnInv,
           \/ StopListener \/ ListenStep
           \/ \E c \in Conns : ServerDrop(c) \/ \E r \in Rpcs : Accept(c, r)
    PROVE  Service!ServiceNext
<1>1. CASE StopListener \/ ListenStep
  <2>1. UNCHANGED <<runVars, executed, req>>
    BY <1>1 DEF StopListener, ListenStep, ScanPoll, ScanClose, ScanKeep, Relist,
                ListenExit, Drain, sockVars
  <2> QED BY <2>1, LoseStep
<1>2. CASE \E c \in Conns : ServerDrop(c) \/ \E r \in Rpcs : Accept(c, r)
  <2>1. /\ UNCHANGED <<runVars, executed>>
        /\ \E c \in Conns : req' = [req EXCEPT ![c] = <<>>]
    BY <1>2 DEF ServerDrop, Accept
  <2>2. \A c \in Conns : req'[c] \in {req[c], <<>>}
    BY <2>1 DEF OwnInv, TypeOK, SockType
  <2> QED BY <2>1, <2>2, LoseStep
<1> QED BY <1>1, <1>2

LEMMA ServerReplyMaps ==
    ASSUME OwnInv, ReplyInv, ReplyInv', NEW c \in Conns, ServerReply(c)
    PROVE  Service!ServiceNext
<1>1. /\ req[c] # <<>> /\ UNCHANGED runVars
      /\ executed' = executed \cup {Head(req[c])}
      /\ req' = [req EXCEPT ![c] = Tail(req[c])]
    BY DEF ServerReply
<1>2. UNCHANGED <<pc, jobs, i, err, nrun>>
    BY <1>1 DEF runVars
<1>3. PICK q \in Requests : req[c] = <<q>>
    BY <1>1 DEF ReplyInv, ConnTraffic
<1>4. /\ req'[c] = <<>> /\ executed' = executed \cup {q}
      /\ \A d \in Conns \ {c} : req'[d] = req[d]
  <2>1. Head(<<q>>) = q /\ Tail(<<q>>) = <<>>
    OBVIOUS
  <2> QED BY <1>1, <1>3, <2>1 DEF OwnInv, TypeOK, SockType
<1>5. \A d \in Conns \ {c} : req[d] # <<q>>
    BY <1>1, <1>3 DEF ReplyInv, Once
<1>6. q \in SvcPending
    BY <1>3, PendingMember
<1>7. SvcPending' = SvcPending \ {q}
  <2>1. \A x : x \in SvcPending <=> x \in Requests /\ \E d \in Conns : req[d] = <<x>>
    BY PendingMember
  <2>2. \A x : x \in SvcPending' <=> x \in Requests /\ \E d \in Conns : req'[d] = <<x>>
    BY PendingMemberNext
  <2>3. \A x : <<x>> # <<>> /\ (<<x>> = <<q>> => x = q)
    OBVIOUS
  <2>4. \A x : x \in SvcPending' <=> x \in SvcPending /\ x # q
    BY <1>3, <1>4, <1>5, <2>1, <2>2, <2>3
  <2> QED BY <2>4
<1>8. UNCHANGED <<SvcPhase, SvcNjob, SvcOutcome, SentRequests>>
  <2>1. \A u \in Threads : Results(u)' = Results(u)
    BY <1>2 DEF Results, Njob
  <2> QED BY <1>2, <2>1, SameCalls
<1> QED BY <1>2, <1>4, <1>6, <1>7, <1>8, MapsToExecute

LEMMA InitMaps == Init => Service!ServiceInit
<1> SUFFICES ASSUME Init PROVE Service!ServiceInit
    OBVIOUS
<1> USE DEF Init
<1>1. \A t \in Threads : Phase(t) = "idle" /\ Njob(t) = 0 /\ ~Results(t)
    BY DEF Phase, Njob, Results
<1>2. /\ SvcPhase = [t \in Threads |-> "idle"] /\ SvcNjob = [t \in Threads |-> 0]
      /\ SvcOutcome = [t \in Threads |-> [j \in Service!Jobs |-> "none"]]
    BY <1>1 DEF SvcPhase, SvcNjob, SvcOutcome, Service!Jobs, Slots
<1>3. SentRequests = {}
    BY DEF SentRequests, AfterSend
<1>4. SvcPending = {}
    BY EmptyList DEF SvcPending
<1> QED BY <1>2, <1>3, <1>4
    DEF Service!ServiceInit, SvcPhase, SvcNjob, SvcOutcome, SvcPending

LEMMA StepMaps ==
    OwnInv /\ ReplyInv /\ ReplyInv' /\ [Next]_vars
        => [Service!ServiceNext]_(Service!serviceVars)
<1> SUFFICES ASSUME OwnInv, ReplyInv, ReplyInv', [Next]_vars
             PROVE  Service!ServiceNext
    OBVIOUS
<1>1. CASE UNCHANGED vars
    BY <1>1, LoseStep DEF vars, sockVars
<1>2. ASSUME NEW t \in Threads, RunStart(t) PROVE Service!ServiceNext
    BY <1>2, RunStartMaps
<1>3. ASSUME NEW t \in Threads, ThreadStep(t) PROVE Service!ServiceNext
    BY <1>3, AcquireMaps, StopRunMaps, RetireMaps, ReleaseMaps, ReturnMaps
    DEF ThreadStep
<1>4. ASSUME NEW t \in Threads, NEW j \in Slots, JobStep(t, j)
      PROVE  Service!ServiceNext
    BY <1>4, SendMaps, JobMaps DEF JobStep
<1>5. ASSUME NEW c \in Conns, ServerReply(c) PROVE Service!ServiceNext
    BY <1>5, ServerReplyMaps
<1>6. CASE \/ StopListener \/ ListenStep
           \/ \E c \in Conns : ServerDrop(c) \/ \E r \in Rpcs : Accept(c, r)
    BY <1>6, ListenMaps
<1> QED BY <1>1, <1>2, <1>3, <1>4, <1>5, <1>6 DEF Next

\* The pool implements RpcService, for every number of threads, connections,
\* end points, calls and jobs: a request reaches a server at most once, a job
\* that ends before its send was not and will not be executed, and one that
\* ends with RPC_OK was.
THEOREM PoolImplementsService == Spec => ImplementsService
<1>1. Spec => []OwnInv /\ []ReplyInv
    BY OwnInvariant, ReplyInvariant, PTL
<1> QED BY <1>1, InitMaps, StepMaps, PTL
    DEF Spec, ImplementsService, Service!ServiceSpec
=============================================================================
