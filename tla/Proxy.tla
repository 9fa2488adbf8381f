------------------------------- MODULE Proxy -------------------------------
(***************************************************************************)
(* The pools of proxy processes, dcicommon/proxy.c: proxy.start makes or   *)
(* remakes a pool, proxy.send takes a proxy from it, starts its process if *)
(* it has none, sends a script and reads the result, and puts it back.     *)
(*                                                                         *)
(* One mutex and one condition serve all pools.  A proxy is a number; the  *)
(* scripts and the init argument are left out.                             *)
(***************************************************************************)
EXTENDS Naturals, FiniteSets, Sequences, Functions

CONSTANTS
    Threads, Pools,
    Sizes,        \* numbers of proxies asked for
    MaxProxies,   \* bound on the proxies ever made
    MaxSends,     \* bound on the calls of proxy.send
    None          \* no pool, no proxy

Proxies == 1..MaxProxies

ASSUME ProxyAssumption ==
    /\ IsFiniteSet(Threads) /\ Sizes \subseteq Nat \ {0}
    /\ MaxProxies \in Nat /\ MaxSends \in Nat
    /\ None \notin Pools \cup Proxies

VARIABLES
    \* The pools.
    made,         \* the pools in the table
    list,         \* the proxies from firstPtr on
    refid,
    nproxy,       \* proxies 1..nproxy have been numbered
    run,          \* the process of a proxy: "no", "yes" or "dead"
    gone,         \* proxies freed, or dropped by proxy.start
    \* The threads.
    pc,           \* "idle", "wait", "io", "front", "end" or "start"
    pool, held,   \* the pool of the call, and its proxy
    myref,        \* refid when the proxy was taken
    old, new,     \* proxy.start: the lists taken away and to be added
    woken, nsend,
    \* What the properties need.
    stock         \* proxies the pool should have

poolVars   == <<made, list, refid, nproxy, run, gone, stock>>
threadVars == <<pc, pool, held, myref, old, new>>
vars == <<poolVars, threadVars, woken, nsend>>

Init ==
    /\ made = {} /\ list = [q \in Pools |-> <<>>] /\ refid = [q \in Pools |-> 0]
    /\ nproxy = 0 /\ run = [x \in Proxies |-> "no"] /\ gone = {}
    /\ pc = [t \in Threads |-> "idle"] /\ pool = [t \in Threads |-> None]
    /\ held = [t \in Threads |-> None] /\ myref = [t \in Threads |-> 0]
    /\ old = [t \in Threads |-> <<>>] /\ new = [t \in Threads |-> <<>>]
    /\ woken = [t \in Threads |-> FALSE] /\ nsend = 0
    /\ stock = [q \in Pools |-> 0]

Waiting == {t \in Threads : pc[t] = "wait" /\ ~woken[t]}

\* Mutant: a proxy that was stopped is put back in silence.
SignalFront(t) ==
    IF Waiting = {} \/ pc[t] = "end" THEN UNCHANGED woken
    ELSE \E u \in Waiting : woken' = [woken EXCEPT ![u] = TRUE]

\* Ns_CondSignal: one thread that waits is woken, whatever its pool.
Signal(t) ==
    IF Waiting = {} THEN UNCHANGED woken
    ELSE \E u \in Waiting : woken' = [woken EXCEPT ![u] = TRUE]

\* The call returns.
Return(t) ==
    /\ pc' = [pc EXCEPT ![t] = "idle"] /\ pool' = [pool EXCEPT ![t] = None]
    /\ held' = [held EXCEPT ![t] = None] /\ myref' = [myref EXCEPT ![t] = 0]
    /\ old' = [old EXCEPT ![t] = <<>>] /\ new' = [new EXCEPT ![t] = <<>>]

-----------------------------------------------------------------------------
(* proxy.start: StartCmd.                                                  *)

\* Mutant: the proxies stay in the list while they are stopped.
DetachCopy(q) == list[q]

\* What remains in the list when StartCmd has taken the proxies.
Detach(q) == <<>>

\* The pool is made, or gets a new refid, and its idle proxies are taken
\* away.  The n proxies the thread will allocate get their numbers.
StartTake(t, q, n) ==
    /\ pc[t] = "idle" /\ n \in Sizes
    /\ nproxy + n <= MaxProxies
    /\ nproxy' = nproxy + n
    /\ made' = made \cup {q}
    /\ refid' = [refid EXCEPT ![q] = IF q \in made THEN @ + 1 ELSE @]
    /\ old' = [old EXCEPT ![t] = list[q]]
    /\ list' = [list EXCEPT ![q] = Detach(q)]
    /\ stock' = [stock EXCEPT ![q] = 0]
    /\ pc' = [pc EXCEPT ![t] = "start"]
    /\ pool' = [pool EXCEPT ![t] = q]
    /\ new' = [new EXCEPT ![t] = [j \in 1..n |-> nproxy + j]]
    /\ UNCHANGED <<run, gone, held, myref, woken, nsend>>

\* The old proxies are stopped and dropped, new ones without a process are
\* added and every thread that waits is woken.
StartAdd(t) ==
    LET q == pool[t] IN
    /\ pc[t] = "start"
    /\ run' = [x \in Proxies |-> IF x \in Range(old[t]) THEN "no" ELSE run[x]]
    /\ gone' = gone \cup Range(old[t])
    /\ list' = [list EXCEPT ![q] = new[t] \o @]
    /\ stock' = [stock EXCEPT ![q] = @ + Len(new[t])]
    /\ woken' = [u \in Threads |-> woken[u] \/ pc[u] = "wait"]
    /\ Return(t)
    /\ UNCHANGED <<made, refid, nproxy, nsend>>

-----------------------------------------------------------------------------
(* proxy.send: SendCmd.                                                    *)

\* Take the first proxy of the pool.
Take(t, q) ==
    /\ pc' = [pc EXCEPT ![t] = "io"]
    /\ pool' = [pool EXCEPT ![t] = q]
    /\ held' = [held EXCEPT ![t] = Head(list[q])]
    /\ myref' = [myref EXCEPT ![t] = refid[q]]
    /\ list' = [list EXCEPT ![q] = Tail(@)]
    /\ woken' = [woken EXCEPT ![t] = FALSE]
    /\ UNCHANGED <<made, refid, nproxy, run, gone, stock, old, new>>

Wait(t, q) ==
    /\ pc' = [pc EXCEPT ![t] = "wait"]
    /\ pool' = [pool EXCEPT ![t] = q]
    /\ woken' = [woken EXCEPT ![t] = FALSE]
    /\ UNCHANGED <<poolVars, held, myref, old, new>>

Send(t, q) ==
    /\ pc[t] = "idle" /\ q \in made /\ nsend < MaxSends
    /\ nsend' = nsend + 1
    /\ IF list[q] # <<>> THEN Take(t, q) ELSE Wait(t, q)

\* A thread that is woken looks again.
Wake(t) ==
    /\ pc[t] = "wait" /\ woken[t]
    /\ IF list[pool[t]] # <<>> THEN Take(t, pool[t]) ELSE Wait(t, pool[t])
    /\ UNCHANGED nsend

\* The deadline passes; a proxy that is there now is taken all the same.
Timeout(t) ==
    /\ pc[t] = "wait" /\ ~woken[t]
    /\ IF list[pool[t]] # <<>> THEN Take(t, pool[t])
       ELSE Return(t) /\ UNCHANGED <<poolVars, woken>>
    /\ UNCHANGED nsend

\* A process dies, or its pipe breaks.
Die(x) ==
    /\ run[x] = "yes"
    /\ run' = [run EXCEPT ![x] = "dead"]
    /\ UNCHANGED <<made, list, refid, nproxy, gone, stock, threadVars, woken, nsend>>

\* The process is started if there is none, the script written and the
\* result read, without the lock.  A failed read counts as a success: ok is
\* set to 1 after it.  A write to a process that is dead fails.  Then refid
\* is compared, still without the lock.
Io(t) ==
    LET x == held[t]  q == pool[t] IN
    /\ pc[t] = "io"
    /\ \/ /\ run[x] = "no"                                 \* start failed
          /\ pc' = [pc EXCEPT ![t] = "end"]
          /\ UNCHANGED run
       \/ /\ run[x] = "dead"                               \* write failed
          /\ pc' = [pc EXCEPT ![t] = "end"]
          /\ UNCHANGED run
       \/ /\ run[x] # "dead"                               \* read, or failed to
          /\ \E r \in {"yes", "dead"} : run' = [run EXCEPT ![x] = r]
          /\ pc' = [pc EXCEPT ![t] = IF myref[t] = refid[q] THEN "front" ELSE "end"]
    /\ UNCHANGED <<made, list, refid, nproxy, gone, stock, pool, held, myref, old,
                   new, woken, nsend>>

\* Back to the front of the list.  If the pool has been remade since refid was
\* compared, it has one proxy more.
PutFront(t) ==
    LET q == pool[t] IN
    /\ pc[t] = "front"
    /\ list' = [list EXCEPT ![q] = <<held[t]>> \o @]
    /\ stock' = [stock EXCEPT ![q] = IF myref[t] = refid[q] THEN @ ELSE @ + 1]
    /\ Signal(t)
    /\ Return(t)
    /\ UNCHANGED <<made, refid, nproxy, run, gone, nsend>>

\* Mutant: the proxy goes back to a pool that was remade.
SamePoolAlways(t) == TRUE

\* The pool has not been remade since the proxy was taken.
SamePool(t) == myref[t] = refid[pool[t]]

\* StopProxy, and to the end of the list or freed.
End(t) ==
    LET q == pool[t]  x == held[t] IN
    /\ pc[t] = "end"
    /\ run' = [run EXCEPT ![x] = "no"]
    /\ IF SamePool(t)
       THEN list' = [list EXCEPT ![q] = Append(@, x)] /\ UNCHANGED gone
       ELSE gone' = gone \cup {x} /\ UNCHANGED list
    /\ Signal(t)
    /\ Return(t)
    /\ UNCHANGED <<made, refid, nproxy, stock, nsend>>

-----------------------------------------------------------------------------
Next ==
    \/ \E t \in Threads, q \in Pools, n \in Sizes : StartTake(t, q, n)
    \/ \E t \in Threads, q \in Pools : Send(t, q)
    \/ \E t \in Threads : \/ StartAdd(t) \/ Wake(t) \/ Timeout(t)
                          \/ Io(t) \/ PutFront(t) \/ End(t)
    \/ \E x \in Proxies : Die(x)

Spec == Init /\ [][Next]_vars

\* A script ends, a process that is stopped ends, and a thread that is woken
\* runs.  Nothing is assumed of the deadline of a thread that waits.
Progress ==
    \E t \in Threads : StartAdd(t) \/ Wake(t) \/ Io(t) \/ PutFront(t) \/ End(t)

FairSpec == Spec /\ WF_vars(Progress)

-----------------------------------------------------------------------------
(* Properties.                                                             *)

\* Every proxy is in one place: once in the list of one pool, with one thread,
\* or dropped; one that is dropped has no process.
TypeOK ==
    /\ made \subseteq Pools /\ nproxy \in 0..MaxProxies
    /\ run \in [Proxies -> {"no", "yes", "dead"}]
    /\ pc \in [Threads -> {"idle", "wait", "io", "front", "end", "start"}]
    /\ \A x \in gone : run[x] = "no"
    /\ \A x \in 1..nproxy :
          Cardinality({w \in Pools \X (1..MaxProxies) :
                w[2] \in 1..Len(list[w[1]]) /\ list[w[1]][w[2]] = x})
          + Cardinality({t \in Threads : held[t] = x})
          + Cardinality({t \in Threads : x \in Range(old[t])})
          + Cardinality({t \in Threads : x \in Range(new[t])})
          + (IF x \in gone THEN 1 ELSE 0) = 1

\* The proxies in the list and those taken from the pool as it is now are the
\* ones proxy.start has put there since it last took them away: a proxy whose
\* script, write or start failed is not lost, and one of the pool before it
\* was remade does not come back, but for the threads that had compared refid
\* before.
Stock ==
    \A q \in Pools :
        Len(list[q]) + Cardinality({t \in Threads : pool[t] = q /\ held[t] # None
                                                    /\ myref[t] = refid[q]})
        = stock[q]

\* No thread waits for ever for a pool that has a proxy, although SendCmd wakes
\* one thread only and that may be one that waits for another pool, and although
\* a thread may give up at its deadline.  The signal that went astray is made up
\* for by the one of the thread that holds what the woken one waits for.
Served == []<>(\A t \in Waiting : list[pool[t]] = <<>>)
=============================================================================
