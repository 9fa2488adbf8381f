---------------------------- MODULE Proxy_proofs ----------------------------
(***************************************************************************)
(* Proofs about Proxy: every proxy is in one place, and a pool has the     *)
(* proxies proxy.start gave it, for every number of threads, pools and     *)
(* proxies.                                                                *)
(***************************************************************************)
EXTENDS Proxy, ListLemmas

\* The types of all variables, and the variables of a call.
PoolType ==
    /\ made \subseteq Pools /\ nproxy \in 0..MaxProxies
    /\ list \in [Pools -> Seq(Proxies)] /\ refid \in [Pools -> Nat]
    /\ run \in [Proxies -> {"no", "yes", "dead"}] /\ gone \subseteq Proxies
    /\ stock \in [Pools -> Nat]
    /\ \A q \in Pools : IsInjective(list[q])

ThreadType ==
    /\ pc \in [Threads -> {"idle", "wait", "io", "front", "end", "start"}]
    /\ pool \in [Threads -> Pools \cup {None}]
    /\ held \in [Threads -> Proxies \cup {None}] /\ myref \in [Threads -> Nat]
    /\ old \in [Threads -> Seq(Proxies)] /\ new \in [Threads -> Seq(Proxies)]
    /\ \A t \in Threads : IsInjective(old[t]) /\ IsInjective(new[t])

CallInv ==
    \A t \in Threads :
        /\ pc[t] # "idle" => pool[t] \in made
        /\ pc[t] \in {"io", "front", "end"} <=> held[t] # None
        /\ held[t] # None => myref[t] <= refid[pool[t]]
        /\ pc[t] # "start" => old[t] = <<>> /\ new[t] = <<>>

\* The places a proxy can be in, and the proxies in each.
Places == ({"list"} \X Pools) \cup ({"held", "old", "new"} \X Threads)
             \cup {<<"gone", None>>}

In(o, x) ==
    \/ o[1] = "list" /\ x \in Range(list[o[2]])
    \/ o[1] = "held" /\ x = held[o[2]]
    \/ o[1] = "old" /\ x \in Range(old[o[2]])
    \/ o[1] = "new" /\ x \in Range(new[o[2]])
    \/ o[1] = "gone" /\ x \in gone

\* Every proxy that has a number is in one place, the others in none.
OnePlace ==
    \A x \in Proxies :
        IF x <= nproxy
        THEN \E b \in Places : \A o \in Places : In(o, x) <=> o = b
        ELSE \A o \in Places : ~In(o, x)

GoneInv == \A x \in gone : run[x] = "no"

ProxyInv == PoolType /\ ThreadType /\ CallInv /\ OnePlace /\ GoneInv

\* The threads that have a proxy of the pool as it is now.
Holders(q) == {t \in Threads : pool[t] = q /\ held[t] # None /\ myref[t] = refid[q]}

\* A pool that was not made has no proxies.
StockInv == Stock /\ \A q \in Pools : q \notin made => list[q] = <<>> /\ stock[q] = 0

-----------------------------------------------------------------------------
(* The places.                                                             *)

LEMMA Numbers ==
    /\ MaxProxies \in Nat /\ Proxies = 1..MaxProxies /\ Proxies \subseteq Nat
    /\ None \notin Pools /\ None \notin Proxies
    /\ IsFiniteSet(Threads) /\ Sizes \subseteq Nat
BY ProxyAssumption DEF Proxies

LEMMA PlaceCases ==
    ASSUME NEW o \in Places
    PROVE  \/ \E q \in Pools : o = <<"list", q>>
           \/ \E t \in Threads : o = <<"held", t>>
           \/ \E t \in Threads : o = <<"old", t>>
           \/ \E t \in Threads : o = <<"new", t>>
           \/ o = <<"gone", None>>
BY DEF Places

LEMMA PlaceNames ==
    /\ \A q \in Pools : <<"list", q>> \in Places
    /\ \A t \in Threads : /\ <<"held", t>> \in Places /\ <<"old", t>> \in Places
                          /\ <<"new", t>> \in Places
    /\ <<"gone", None>> \in Places
BY DEF Places

\* What a place holds.
LEMMA InNames ==
    ASSUME NEW x
    PROVE  /\ \A q : In(<<"list", q>>, x) <=> x \in Range(list[q])
           /\ \A t : In(<<"held", t>>, x) <=> x = held[t]
           /\ \A t : In(<<"old", t>>, x) <=> x \in Range(old[t])
           /\ \A t : In(<<"new", t>>, x) <=> x \in Range(new[t])
           /\ In(<<"gone", None>>, x) <=> x \in gone
BY DEF In

LEMMA InNamesNext ==
    ASSUME NEW x
    PROVE  /\ \A q : In(<<"list", q>>, x)' <=> x \in Range(list'[q])
           /\ \A t : In(<<"held", t>>, x)' <=> x = held'[t]
           /\ \A t : In(<<"old", t>>, x)' <=> x \in Range(old'[t])
           /\ \A t : In(<<"new", t>>, x)' <=> x \in Range(new'[t])
           /\ In(<<"gone", None>>, x)' <=> x \in gone'
BY DEF In

\* A proxy is in one place only.
LEMMA OnlyPlace ==
    ASSUME OnePlace, NEW x \in Proxies, NEW a \in Places, NEW b \in Places,
           In(a, x), In(b, x)
    PROVE  a = b /\ x <= nproxy
BY DEF OnePlace

\* A proxy in a place is in no other.
LEMMA PlaceFacts ==
    ASSUME OnePlace, NEW x \in Proxies, NEW a \in Places, In(a, x)
    PROVE  /\ x <= nproxy
           /\ \A q \in Pools : x \in Range(list[q]) <=> a = <<"list", q>>
           /\ \A t \in Threads : x = held[t] <=> a = <<"held", t>>
           /\ \A t \in Threads : x \in Range(old[t]) <=> a = <<"old", t>>
           /\ \A t \in Threads : x \in Range(new[t]) <=> a = <<"new", t>>
           /\ x \in gone <=> a = <<"gone", None>>
<1>1. \A o \in Places : In(o, x) <=> o = a
    BY DEF OnePlace
<1>2. x <= nproxy
    BY DEF OnePlace
<1> QED BY <1>1, <1>2, InNames, PlaceNames, Zenon

\* A proxy in a thread's hand is not dropped.
LEMMA HeldNotGone ==
    ASSUME OnePlace, NEW t \in Threads, held[t] \in Proxies
    PROVE  held[t] \notin gone
<1>1. PICK x \in Proxies : x = held[t]
    OBVIOUS
<1>2. <<"held", t>> \in Places /\ <<"gone", None>> \in Places
    BY PlaceNames
<1>3. In(<<"held", t>>, x)
    BY <1>1, InNames
<1>4. ~In(<<"gone", None>>, x)
  <2>1. SUFFICES ASSUME In(<<"gone", None>>, x) PROVE FALSE
      OBVIOUS
  <2>2. <<"held", t>> = <<"gone", None>>
      BY <1>2, <1>3, <2>1, OnlyPlace, Zenon
  <2> QED BY <2>2
<1> QED BY <1>1, <1>4, InNames

\* The proxies M are each moved to the place d gives, or numbered.
LEMMA Moved ==
    ASSUME OnePlace, NEW M \in SUBSET Proxies, NEW d \in [M -> Places],
           \A x \in Proxies :
              /\ \A q \in Pools : x \in Range(list'[q]) <=>
                    IF x \in M THEN d[x] = <<"list", q>> ELSE x \in Range(list[q])
              /\ \A t \in Threads : x = held'[t] <=>
                    IF x \in M THEN d[x] = <<"held", t>> ELSE x = held[t]
              /\ \A t \in Threads : x \in Range(old'[t]) <=>
                    IF x \in M THEN d[x] = <<"old", t>> ELSE x \in Range(old[t])
              /\ \A t \in Threads : x \in Range(new'[t]) <=>
                    IF x \in M THEN d[x] = <<"new", t>> ELSE x \in Range(new[t])
              /\ x \in gone' <=> IF x \in M THEN d[x] = <<"gone", None>> ELSE x \in gone
              /\ IF x \in M THEN x <= nproxy' ELSE x <= nproxy' <=> x <= nproxy
    PROVE  OnePlace'
<1>1. ASSUME NEW x \in Proxies, NEW o \in Places
      PROVE  In(o, x)' <=> IF x \in M THEN d[x] = o ELSE In(o, x)
  <2>1. CASE \E q \in Pools : o = <<"list", q>>
    <3>1. PICK q \in Pools : o = <<"list", q>>
      BY <2>1
    <3>2. (In(o, x) <=> x \in Range(list[q])) /\ (In(o, x)' <=> x \in Range(list'[q]))
      BY <3>1 DEF In
    <3>3. x \in Range(list'[q]) <=> IF x \in M THEN d[x] = <<"list", q>> ELSE x \in Range(list[q])
      OBVIOUS
    <3> QED BY <3>1, <3>2, <3>3, Zenon
  <2>2. CASE \E t \in Threads : o = <<"held", t>>
    <3>1. PICK t \in Threads : o = <<"held", t>>
      BY <2>2
    <3>2. (In(o, x) <=> x = held[t]) /\ (In(o, x)' <=> x = held'[t])
      BY <3>1 DEF In
    <3>3. x = held'[t] <=> IF x \in M THEN d[x] = <<"held", t>> ELSE x = held[t]
      OBVIOUS
    <3> QED BY <3>1, <3>2, <3>3, Zenon
  <2>3. CASE \E t \in Threads : o = <<"old", t>>
    <3>1. PICK t \in Threads : o = <<"old", t>>
      BY <2>3
    <3>2. (In(o, x) <=> x \in Range(old[t])) /\ (In(o, x)' <=> x \in Range(old'[t]))
      BY <3>1 DEF In
    <3>3. x \in Range(old'[t]) <=> IF x \in M THEN d[x] = <<"old", t>> ELSE x \in Range(old[t])
      OBVIOUS
    <3> QED BY <3>1, <3>2, <3>3, Zenon
  <2>4. CASE \E t \in Threads : o = <<"new", t>>
    <3>1. PICK t \in Threads : o = <<"new", t>>
      BY <2>4
    <3>2. (In(o, x) <=> x \in Range(new[t])) /\ (In(o, x)' <=> x \in Range(new'[t]))
      BY <3>1 DEF In
    <3>3. x \in Range(new'[t]) <=> IF x \in M THEN d[x] = <<"new", t>> ELSE x \in Range(new[t])
      OBVIOUS
    <3> QED BY <3>1, <3>2, <3>3, Zenon
  <2>5. CASE o = <<"gone", None>>
    BY <2>5, InNames, InNamesNext, Zenon
  <2> QED BY <2>1, <2>2, <2>3, <2>4, <2>5, PlaceCases
<1>2. ASSUME NEW x \in Proxies
      PROVE  IF x <= nproxy'
             THEN \E b \in Places : \A o \in Places : In(o, x)' <=> o = b
             ELSE \A o \in Places : ~In(o, x)'
  <2>1. CASE x \in M
    <3>1. d[x] \in Places /\ x <= nproxy'
      BY <2>1
    <3>2. \A o \in Places : In(o, x)' <=> o = d[x]
      BY <1>1, <2>1, Zenon
    <3> QED BY <3>1, <3>2
  <2>2. CASE x \notin M
    <3>1. x <= nproxy' <=> x <= nproxy
      BY <2>2
    <3>2. \A o \in Places : In(o, x)' <=> In(o, x)
      BY <1>1, <2>2, Zenon
    <3>3. IF x <= nproxy
          THEN \E b \in Places : \A o \in Places : In(o, x) <=> o = b
          ELSE \A o \in Places : ~In(o, x)
      BY DEF OnePlace
    <3> QED BY <3>1, <3>2, <3>3
  <2> QED BY <2>1, <2>2
<1> QED BY <1>2 DEF OnePlace

-----------------------------------------------------------------------------
(* The steps.                                                              *)

LEMMA InitProxy == Init => ProxyInv /\ StockInv
<1> SUFFICES ASSUME Init PROVE ProxyInv /\ StockInv
    OBVIOUS
<1>1. PoolType
  <2>1. \A q \in Pools : list[q] = <<>>
    BY DEF Init
  <2>2. \A q \in Pools : IsInjective(list[q])
    BY <2>1, EmptyList
  <2>3. /\ list \in [Pools -> Seq(Proxies)] /\ refid \in [Pools -> Nat]
        /\ stock \in [Pools -> Nat]
    BY DEF Init
  <2> QED BY <2>2, <2>3, Numbers DEF Init, PoolType
<1>2. ThreadType
    BY EmptyList DEF Init, ThreadType
<1>3. CallInv
    BY DEF Init, CallInv
<1>4. OnePlace
  <2>1. ASSUME NEW x \in Proxies, NEW o \in Places PROVE ~In(o, x)
    <3>1. /\ \A q \in Pools : x \notin Range(list[q])
          /\ \A t \in Threads : x # held[t] /\ x \notin Range(old[t]) /\ x \notin Range(new[t])
          /\ x \notin gone
      BY EmptyList, Numbers DEF Init
    <3> QED BY <3>1, PlaceCases DEF In
  <2>2. \A x \in Proxies : ~(x <= nproxy)
    <3>1. \A x \in Proxies : x \in Nat /\ x > 0
      BY Numbers
    <3> QED BY <3>1 DEF Init
  <2> QED BY <2>1, <2>2 DEF OnePlace
<1>5. GoneInv
    BY DEF Init, GoneInv
<1>6. StockInv
  <2>1. ASSUME NEW q \in Pools
        PROVE  /\ Len(list[q]) + Cardinality(Holders(q)) = stock[q]
               /\ list[q] = <<>> /\ stock[q] = 0
    <3>1. Holders(q) = {}
      BY DEF Init, Holders
    <3>2. Cardinality(Holders(q)) = 0
      BY <3>1, FS_EmptySet
    <3>3. list[q] = <<>> /\ stock[q] = 0
      BY DEF Init
    <3> QED BY <3>2, <3>3
  <2> QED BY <2>1 DEF StockInv, Stock, Holders
<1> QED BY <1>1, <1>2, <1>3, <1>4, <1>5, <1>6 DEF ProxyInv

\* What is so of the other threads when one thread's call changes.
LEMMA OtherCalls ==
    ASSUME CallInv, NEW t \in Threads, made \subseteq made',
           \A q \in made : refid[q] \in Nat /\ refid'[q] \in Nat /\ refid[q] <= refid'[q],
           \A u \in Threads : myref[u] \in Nat,
           \A u \in Threads : u # t =>
              /\ pc'[u] = pc[u] /\ pool'[u] = pool[u] /\ held'[u] = held[u]
              /\ myref'[u] = myref[u] /\ old'[u] = old[u] /\ new'[u] = new[u],
           /\ pc'[t] # "idle" => pool'[t] \in made'
           /\ pc'[t] \in {"io", "front", "end"} <=> held'[t] # None
           /\ held'[t] # None => myref'[t] <= refid'[pool'[t]]
           /\ pc'[t] # "start" => old'[t] = <<>> /\ new'[t] = <<>>
    PROVE  CallInv'
<1>1. ASSUME NEW u \in Threads, u # t
      PROVE  /\ pc'[u] # "idle" => pool'[u] \in made'
             /\ pc'[u] \in {"io", "front", "end"} <=> held'[u] # None
             /\ held'[u] # None => myref'[u] <= refid'[pool'[u]]
             /\ pc'[u] # "start" => old'[u] = <<>> /\ new'[u] = <<>>
  <2>1. /\ pc'[u] = pc[u] /\ pool'[u] = pool[u] /\ held'[u] = held[u]
        /\ myref'[u] = myref[u] /\ old'[u] = old[u] /\ new'[u] = new[u]
    BY <1>1
  <2>2. /\ pc[u] # "idle" => pool[u] \in made
        /\ pc[u] \in {"io", "front", "end"} <=> held[u] # None
        /\ held[u] # None => myref[u] <= refid[pool[u]]
        /\ pc[u] # "start" => old[u] = <<>> /\ new[u] = <<>>
    BY DEF CallInv
  <2>3. held[u] # None => myref[u] <= refid'[pool[u]]
    <3>1. ASSUME held[u] # None PROVE myref[u] <= refid'[pool[u]]
      <4>1. pc[u] # "idle"
        BY <2>2, <3>1
      <4>2. pool[u] \in made
        BY <2>2, <4>1
      <4>3. /\ refid[pool[u]] \in Nat /\ refid'[pool[u]] \in Nat
            /\ refid[pool[u]] <= refid'[pool[u]]
        BY <4>2
      <4>4. myref[u] \in Nat /\ myref[u] <= refid[pool[u]]
        BY <2>2, <3>1
      <4> QED BY <4>3, <4>4
    <3> QED BY <3>1
  <2> QED BY <2>1, <2>2, <2>3
<1> QED BY <1>1 DEF CallInv

\* The call returns.
LEMMA ReturnFacts ==
    ASSUME ThreadType, NEW t \in Threads, Return(t)
    PROVE  /\ ThreadType' /\ pc'[t] = "idle" /\ held'[t] = None
           /\ old'[t] = <<>> /\ new'[t] = <<>>
           /\ \A u \in Threads : u # t =>
                 /\ pc'[u] = pc[u] /\ pool'[u] = pool[u] /\ held'[u] = held[u]
                 /\ myref'[u] = myref[u] /\ old'[u] = old[u] /\ new'[u] = new[u]
<1>1. /\ pc' \in [Threads -> {"idle", "wait", "io", "front", "end", "start"}]
      /\ pool' \in [Threads -> Pools \cup {None}]
      /\ held' \in [Threads -> Proxies \cup {None}] /\ myref' \in [Threads -> Nat]
      /\ pc'[t] = "idle" /\ held'[t] = None
      /\ \A u \in Threads : u # t =>
            /\ pc'[u] = pc[u] /\ pool'[u] = pool[u] /\ held'[u] = held[u]
            /\ myref'[u] = myref[u]
    BY DEF ThreadType, Return
<1>2. /\ old' \in [Threads -> Seq(Proxies)] /\ new' \in [Threads -> Seq(Proxies)]
      /\ old'[t] = <<>> /\ new'[t] = <<>>
      /\ \A u \in Threads : u # t => old'[u] = old[u] /\ new'[u] = new[u]
  <2>1. <<>> \in Seq(Proxies)
    OBVIOUS
  <2> QED BY <2>1 DEF ThreadType, Return
<1>3. \A u \in Threads : IsInjective(old'[u]) /\ IsInjective(new'[u])
  <2>1. \A u \in Threads : IsInjective(old[u]) /\ IsInjective(new[u])
    BY DEF ThreadType
  <2>2. IsInjective(old'[t]) /\ IsInjective(new'[t])
    BY <1>2, EmptyList
  <2> QED BY <1>2, <2>1, <2>2
<1> QED BY <1>1, <1>2, <1>3 DEF ThreadType

LEMMA ReturnCalls ==
    ASSUME ThreadType, CallInv, PoolType, NEW t \in Threads, Return(t),
           UNCHANGED <<made, refid>>
    PROVE  CallInv'
<1>1. \A q \in made : refid[q] \in Nat /\ refid'[q] \in Nat /\ refid[q] <= refid'[q]
  <2>1. \A q \in made : refid[q] \in Nat /\ refid'[q] = refid[q]
    BY DEF PoolType
  <2> QED BY <2>1
<1>2. \A u \in Threads : myref[u] \in Nat
    BY DEF ThreadType
<1> QED BY <1>1, <1>2, ReturnFacts, OtherCalls

\* The first proxy of a pool is taken.
LEMMA TakeInv ==
    ASSUME ProxyInv, NEW t \in Threads, NEW q \in Pools, q \in made, list[q] # <<>>,
           pc[t] \in {"idle", "wait"}, Take(t, q)
    PROVE  ProxyInv'
<1>0. PoolType /\ ThreadType /\ CallInv /\ OnePlace /\ GoneInv
    BY DEF ProxyInv
<1>1. PICK h \in Proxies : /\ h = Head(list[q]) /\ h \in Range(list[q])
                           /\ Tail(list[q]) \in Seq(Proxies) /\ IsInjective(Tail(list[q]))
                           /\ Range(Tail(list[q])) = Range(list[q]) \ {h}
  <2>1. list[q] \in Seq(Proxies) /\ IsInjective(list[q])
    BY <1>0 DEF PoolType
  <2> QED BY <2>1, TailList
<1>2. /\ pc' = [pc EXCEPT ![t] = "io"] /\ pool' = [pool EXCEPT ![t] = q]
      /\ held' = [held EXCEPT ![t] = h] /\ myref' = [myref EXCEPT ![t] = refid[q]]
      /\ list' = [list EXCEPT ![q] = Tail(list[q])]
      /\ UNCHANGED <<made, refid, nproxy, run, gone, stock, old, new>>
    BY <1>1 DEF Take
<1>3. /\ pc'[t] = "io" /\ pool'[t] = q /\ held'[t] = h /\ myref'[t] = refid[q]
      /\ \A u \in Threads : u # t =>
            /\ pc'[u] = pc[u] /\ pool'[u] = pool[u] /\ held'[u] = held[u]
            /\ myref'[u] = myref[u]
      /\ list'[q] = Tail(list[q])
      /\ \A r \in Pools : r # q => list'[r] = list[r]
    BY <1>0, <1>2 DEF ThreadType, PoolType
<1>4. PoolType'
  <2>1. \A r \in Pools : IsInjective(list'[r])
    BY <1>0, <1>1, <1>3 DEF PoolType
  <2>2. list' \in [Pools -> Seq(Proxies)]
    BY <1>0, <1>1, <1>2 DEF PoolType
  <2> QED BY <1>0, <1>2, <2>1, <2>2 DEF PoolType
<1>5. ThreadType'
  <2>1. refid[q] \in Nat
    BY <1>0 DEF PoolType
  <2> QED BY <1>0, <1>2, <2>1 DEF ThreadType
<1>6. CallInv'
  <2>1. \A r \in made : refid[r] \in Nat /\ refid'[r] \in Nat /\ refid[r] <= refid'[r]
    <3>1. \A r \in made : refid[r] \in Nat /\ refid'[r] = refid[r]
      BY <1>0, <1>2 DEF PoolType
    <3> QED BY <3>1
  <2>2. \A u \in Threads : myref[u] \in Nat
    BY <1>0 DEF ThreadType
  <2>3. refid'[q] = refid[q] /\ refid[q] <= refid[q] /\ h # None
    BY <1>2, <2>1, Numbers
  <2>4. old[t] = <<>> /\ new[t] = <<>>
    BY <1>0 DEF CallInv
  <2>5. made \subseteq made' /\ UNCHANGED <<old, new>> /\ q \in made'
    BY <1>2
  <2>6. \A u \in Threads : u # t =>
              /\ pc'[u] = pc[u] /\ pool'[u] = pool[u] /\ held'[u] = held[u]
              /\ myref'[u] = myref[u] /\ old'[u] = old[u] /\ new'[u] = new[u]
    BY <1>3, <2>5
  <2>7. /\ pc'[t] # "idle" => pool'[t] \in made'
        /\ pc'[t] \in {"io", "front", "end"} <=> held'[t] # None
        /\ held'[t] # None => myref'[t] <= refid'[pool'[t]]
        /\ pc'[t] # "start" => old'[t] = <<>> /\ new'[t] = <<>>
    BY <1>3, <2>3, <2>4, <2>5
  <2> QED BY <1>0, <2>1, <2>2, <2>5, <2>6, <2>7, OtherCalls
<1>7. OnePlace'
  <2>1. PICK d : d = [x \in {h} |-> <<"held", t>>]
    OBVIOUS
  <2>2. d \in [{h} -> Places] /\ d[h] = <<"held", t>>
    BY <2>1, PlaceNames
  <2>3. In(<<"list", q>>, h) /\ <<"list", q>> \in Places
    BY <1>1, InNames, PlaceNames
  <2>4. /\ h <= nproxy
        /\ \A r \in Pools : h \in Range(list[r]) <=> r = q
        /\ \A u \in Threads : h # held[u] /\ h \notin Range(old[u]) /\ h \notin Range(new[u])
        /\ h \notin gone
    BY <1>0, <2>3, PlaceFacts
  <2>5. held[t] = None
    BY <1>0 DEF CallInv
  <2>6. ASSUME NEW x \in Proxies
        PROVE /\ \A r \in Pools : x \in Range(list'[r]) <=>
                    IF x \in {h} THEN d[x] = <<"list", r>> ELSE x \in Range(list[r])
              /\ \A u \in Threads : x = held'[u] <=>
                    IF x \in {h} THEN d[x] = <<"held", u>> ELSE x = held[u]
              /\ \A u \in Threads : x \in Range(old'[u]) <=>
                    IF x \in {h} THEN d[x] = <<"old", u>> ELSE x \in Range(old[u])
              /\ \A u \in Threads : x \in Range(new'[u]) <=>
                    IF x \in {h} THEN d[x] = <<"new", u>> ELSE x \in Range(new[u])
              /\ x \in gone' <=> IF x \in {h} THEN d[x] = <<"gone", None>> ELSE x \in gone
              /\ IF x \in {h} THEN x <= nproxy' ELSE x <= nproxy' <=> x <= nproxy
    <3>1. CASE x # h
      <4>1. \A r \in Pools : x \in Range(list'[r]) <=> x \in Range(list[r])
        BY <1>1, <1>3, <3>1
      <4>2. \A u \in Threads : x = held'[u] <=> x = held[u]
        BY <1>3, <2>5, <3>1, Numbers
      <4> QED BY <1>2, <3>1, <4>1, <4>2
    <3>2. CASE x = h
      <4>1. \A r \in Pools : h \notin Range(list'[r])
        BY <1>1, <1>3, <2>4
      <4>2. \A u \in Threads : h = held'[u] <=> u = t
        BY <1>3, <2>4
      <4> QED BY <1>2, <2>2, <2>4, <3>2, <4>1, <4>2
    <3> QED BY <3>1, <3>2
  <2> QED BY <1>0, <2>2, <2>6, Moved
<1>8. GoneInv'
    BY <1>0, <1>2 DEF GoneInv
<1> QED BY <1>4, <1>5, <1>6, <1>7, <1>8 DEF ProxyInv

\* The steps that move no proxy.
LEMMA Unmoved ==
    ASSUME OnePlace, UNCHANGED <<list, held, old, new, gone, nproxy>>
    PROVE  OnePlace'
<1>1. \A o, x : In(o, x)' <=> In(o, x)
    BY DEF In
<1> QED BY <1>1 DEF OnePlace

\* A thread waits.
LEMMA WaitInv ==
    ASSUME ProxyInv, NEW t \in Threads, NEW q \in Pools, q \in made,
           pc[t] \in {"idle", "wait"}, Wait(t, q)
    PROVE  ProxyInv'
<1>0. PoolType /\ ThreadType /\ CallInv /\ OnePlace /\ GoneInv
    BY DEF ProxyInv
<1>1. /\ pc' = [pc EXCEPT ![t] = "wait"] /\ pool' = [pool EXCEPT ![t] = q]
      /\ UNCHANGED <<made, list, refid, nproxy, run, gone, stock, held, myref, old, new>>
    BY DEF Wait, poolVars
<1>2. PoolType' /\ GoneInv' /\ OnePlace'
    BY <1>0, <1>1, Unmoved DEF PoolType, GoneInv
<1>3. ThreadType'
    BY <1>0, <1>1 DEF ThreadType
<1>4. CallInv'
    BY <1>0, <1>1 DEF CallInv, ThreadType
<1> QED BY <1>2, <1>3, <1>4 DEF ProxyInv

\* A thread that waited returns.
LEMMA TimeoutInv ==
    ASSUME ProxyInv, NEW t \in Threads, pc[t] = "wait", Return(t), UNCHANGED poolVars
    PROVE  ProxyInv' /\ UNCHANGED <<held, old, new>>
<1>0. PoolType /\ ThreadType /\ CallInv /\ OnePlace /\ GoneInv
    BY DEF ProxyInv
<1>1. UNCHANGED <<made, list, refid, nproxy, run, gone, stock>>
    BY DEF poolVars
<1>2. UNCHANGED <<held, old, new>>
  <2>1. held[t] = None /\ old[t] = <<>> /\ new[t] = <<>>
    BY <1>0 DEF CallInv
  <2> QED BY <1>0, <2>1 DEF Return, ThreadType
<1>3. PoolType' /\ GoneInv' /\ OnePlace'
    BY <1>0, <1>1, <1>2, Unmoved DEF PoolType, GoneInv
<1>4. ThreadType' /\ CallInv'
    BY <1>0, <1>1, ReturnFacts, ReturnCalls
<1> QED BY <1>2, <1>3, <1>4 DEF ProxyInv

\* A script is run, or a process dies.
LEMMA RunInv ==
    ASSUME ProxyInv, NEW x \in Proxies, x \notin gone,
           NEW r \in {"no", "yes", "dead"}, run' = [run EXCEPT ![x] = r],
           UNCHANGED <<made, list, refid, nproxy, gone, stock, pool, held, myref, old, new>>,
           UNCHANGED pc \/ \E t \in Threads : /\ pc[t] = "io"
                              /\ \E s \in {"front", "end"} : pc' = [pc EXCEPT ![t] = s]
    PROVE  ProxyInv'
<1>0. PoolType /\ ThreadType /\ CallInv /\ OnePlace /\ GoneInv
    BY DEF ProxyInv
<1>1. PoolType' /\ GoneInv' /\ OnePlace'
    BY <1>0, Unmoved DEF PoolType, GoneInv
<1>2. ThreadType' /\ CallInv'
    BY <1>0 DEF ThreadType, CallInv
<1> QED BY <1>1, <1>2 DEF ProxyInv

LEMMA IoInv ==
    ASSUME ProxyInv, NEW t \in Threads, Io(t)
    PROVE  ProxyInv'
<1>0. PoolType /\ ThreadType /\ CallInv /\ OnePlace
    BY DEF ProxyInv
<1>1. PICK x \in Proxies : x = held[t]
  <2>1. held[t] # None
    BY <1>0 DEF CallInv, Io
  <2> QED BY <1>0, <2>1 DEF ThreadType
<1>2. x \notin gone
    BY <1>0, <1>1, HeldNotGone
<1>3. /\ \E r \in {"no", "yes", "dead"} : run' = [run EXCEPT ![x] = r]
      /\ pc[t] = "io" /\ \E s \in {"front", "end"} : pc' = [pc EXCEPT ![t] = s]
      /\ UNCHANGED <<made, list, refid, nproxy, gone, stock, pool, held, myref, old, new>>
  <2>1. CASE UNCHANGED run
    <3>1. run' = [run EXCEPT ![x] = run[x]] /\ run[x] \in {"no", "yes", "dead"}
      BY <1>0, <2>1 DEF PoolType
    <3> QED BY <1>1, <3>1 DEF Io
  <2>2. CASE \E r \in {"yes", "dead"} : run' = [run EXCEPT ![x] = r]
    BY <1>1, <2>2 DEF Io
  <2> QED BY <1>1, <2>1, <2>2 DEF Io
<1> QED BY <1>2, <1>3, RunInv

LEMMA DieInv ==
    ASSUME ProxyInv, NEW x \in Proxies, Die(x)
    PROVE  ProxyInv'
<1>1. x \notin gone
    BY DEF ProxyInv, GoneInv, Die
<1>2. /\ run' = [run EXCEPT ![x] = "dead"]
      /\ UNCHANGED <<made, list, refid, nproxy, gone, stock, pc, pool, held, myref, old, new>>
    BY DEF Die, threadVars
<1> QED BY <1>1, <1>2, RunInv

\* A proxy before a list.
LEMMA OneList ==
    ASSUME NEW x \in Proxies
    PROVE  /\ <<x>> \in Seq(Proxies) /\ IsInjective(<<x>>)
           /\ Range(<<x>>) = {x} /\ Len(<<x>>) = 1
BY DEF IsInjective, Range

LEMMA FrontList ==
    ASSUME NEW s \in Seq(Proxies), NEW x \in Proxies, IsInjective(s), x \notin Range(s)
    PROVE  /\ <<x>> \o s \in Seq(Proxies) /\ IsInjective(<<x>> \o s)
           /\ Range(<<x>> \o s) = Range(s) \cup {x}
           /\ Len(<<x>> \o s) = Len(s) + 1
<1>1. PICK w \in Seq(Proxies) : w = <<x>> /\ IsInjective(w) /\ Range(w) = {x} /\ Len(w) = 1
    BY OneList
<1>2. Range(w) \cap Range(s) = {}
    BY <1>1
<1>3. w \o s \in Seq(Proxies) /\ IsInjective(w \o s) /\ Range(w \o s) = Range(w) \cup Range(s)
    BY <1>2, <1>1, ConcatList, ZenonT(40)
<1>4. Len(w \o s) = Len(s) + 1
    BY <1>1
<1> QED BY <1>1, <1>3, <1>4

\* A proxy is put back, to either end of the list.
LEMMA PutInv ==
    ASSUME ProxyInv, NEW t \in Threads, NEW q \in Pools, q = pool[t], held[t] # None,
           \/ list' = [list EXCEPT ![q] = <<held[t]>> \o @]
           \/ list' = [list EXCEPT ![q] = Append(@, held[t])],
           Return(t), UNCHANGED <<made, refid, nproxy, gone>>,
           run' \in [Proxies -> {"no", "yes", "dead"}], \A x \in gone : run'[x] = run[x],
           stock' \in [Pools -> Nat]
    PROVE  /\ ProxyInv' /\ Len(list'[q]) = Len(list[q]) + 1
           /\ \A r \in Pools : r # q => list'[r] = list[r]
<1>0. PoolType /\ ThreadType /\ CallInv /\ OnePlace /\ GoneInv
    BY DEF ProxyInv
<1>1. PICK x \in Proxies : x = held[t]
    BY <1>0 DEF ThreadType
<1>2. In(<<"held", t>>, x) /\ <<"held", t>> \in Places
    BY <1>1, InNames, PlaceNames
<1>3. /\ x <= nproxy
      /\ \A r \in Pools : x \notin Range(list[r])
      /\ \A u \in Threads : x = held[u] <=> u = t
      /\ \A u \in Threads : x \notin Range(old[u]) /\ x \notin Range(new[u])
      /\ x \notin gone
    BY <1>0, <1>2, PlaceFacts
<1>4. PICK s \in Seq(Proxies) : /\ s = list'[q] /\ list' = [list EXCEPT ![q] = s]
                                /\ IsInjective(s) /\ Len(s) = Len(list[q]) + 1
                                /\ Range(s) = Range(list[q]) \cup {x}
  <2>1. list[q] \in Seq(Proxies) /\ IsInjective(list[q]) /\ x \notin Range(list[q])
    BY <1>0, <1>3 DEF PoolType
  <2>2. /\ Append(list[q], x) \in Seq(Proxies) /\ IsInjective(Append(list[q], x))
        /\ Range(Append(list[q], x)) = Range(list[q]) \cup {x}
        /\ Len(Append(list[q], x)) = Len(list[q]) + 1
    BY <2>1, AppendList
  <2>3. /\ <<x>> \o list[q] \in Seq(Proxies) /\ IsInjective(<<x>> \o list[q])
        /\ Range(<<x>> \o list[q]) = Range(list[q]) \cup {x}
        /\ Len(<<x>> \o list[q]) = Len(list[q]) + 1
    BY <2>1, FrontList
  <2>6. CASE list' = [list EXCEPT ![q] = <<held[t]>> \o @]
    BY <1>0, <1>1, <2>3, <2>6 DEF PoolType
  <2>7. CASE list' = [list EXCEPT ![q] = Append(@, held[t])]
    BY <1>0, <1>1, <2>2, <2>7 DEF PoolType
  <2> QED BY <2>6, <2>7
<1>5. \A r \in Pools : r # q => list'[r] = list[r]
    BY <1>0, <1>4 DEF PoolType
<1>6. PoolType'
  <2>1. \A r \in Pools : IsInjective(list'[r])
    BY <1>0, <1>4, <1>5 DEF PoolType
  <2>2. list' \in [Pools -> Seq(Proxies)]
    BY <1>0, <1>4 DEF PoolType
  <2> QED BY <1>0, <2>1, <2>2 DEF PoolType
<1>7. ThreadType' /\ CallInv'
    BY <1>0, ReturnFacts, ReturnCalls
<1>8. OnePlace'
  <2>1. PICK d : d = [y \in {x} |-> <<"list", q>>]
    OBVIOUS
  <2>2. d \in [{x} -> Places] /\ d[x] = <<"list", q>>
    BY <2>1, PlaceNames
  <2>3. /\ held'[t] = None
        /\ \A u \in Threads : u # t =>
              held'[u] = held[u] /\ old'[u] = old[u] /\ new'[u] = new[u]
        /\ \A u \in Threads : Range(old'[u]) = Range(old[u]) /\ Range(new'[u]) = Range(new[u])
    <3>1. old[t] = <<>> /\ new[t] = <<>>
      BY <1>0 DEF CallInv
    <3>2. old'[t] = <<>> /\ new'[t] = <<>> /\ held'[t] = None
      BY <1>0, ReturnFacts
    <3>3. \A u \in Threads : u # t =>
              held'[u] = held[u] /\ old'[u] = old[u] /\ new'[u] = new[u]
      BY <1>0, ReturnFacts
    <3> QED BY <3>1, <3>2, <3>3
  <2>4. ASSUME NEW y \in Proxies
        PROVE /\ \A r \in Pools : y \in Range(list'[r]) <=>
                    IF y \in {x} THEN d[y] = <<"list", r>> ELSE y \in Range(list[r])
              /\ \A u \in Threads : y = held'[u] <=>
                    IF y \in {x} THEN d[y] = <<"held", u>> ELSE y = held[u]
              /\ \A u \in Threads : y \in Range(old'[u]) <=>
                    IF y \in {x} THEN d[y] = <<"old", u>> ELSE y \in Range(old[u])
              /\ \A u \in Threads : y \in Range(new'[u]) <=>
                    IF y \in {x} THEN d[y] = <<"new", u>> ELSE y \in Range(new[u])
              /\ y \in gone' <=> IF y \in {x} THEN d[y] = <<"gone", None>> ELSE y \in gone
              /\ IF y \in {x} THEN y <= nproxy' ELSE y <= nproxy' <=> y <= nproxy
    <3>1. CASE y # x
      <4>1. \A r \in Pools : y \in Range(list'[r]) <=> y \in Range(list[r])
        BY <1>4, <1>5, <3>1
      <4>2. \A u \in Threads : y = held'[u] <=> y = held[u]
        BY <1>1, <2>3, <3>1, Numbers
      <4>3. y \notin {x}
        BY <3>1
      <4> QED BY <2>3, <4>1, <4>2, <4>3, Zenon
    <3>2. CASE y = x
      <4>1. \A r \in Pools : x \in Range(list'[r]) <=> r = q
        BY <1>3, <1>4, <1>5
      <4>2. \A u \in Threads : x # held'[u]
        BY <1>3, <2>3, Numbers
      <4>3. /\ y \in {x} /\ d[y] = <<"list", q>> /\ <<"list", q>> # <<"gone", None>>
            /\ \A r \in Pools : <<"list", q>> = <<"list", r>> <=> r = q
            /\ \A u \in Threads : /\ <<"list", q>> # <<"held", u>>
                                  /\ <<"list", q>> # <<"old", u>> /\ <<"list", q>> # <<"new", u>>
        BY <2>2, <3>2
      <4>4. y \notin gone' /\ y <= nproxy'
        BY <1>3, <3>2
      <4>5. \A u \in Threads : y \notin Range(old'[u]) /\ y \notin Range(new'[u])
        BY <1>3, <2>3, <3>2
      <4>6. \A r \in Pools : y \in Range(list'[r]) <=> d[y] = <<"list", r>>
        BY <3>2, <4>1, <4>3
      <4>7. /\ \A u \in Threads : y = held'[u] <=> d[y] = <<"held", u>>
            /\ \A u \in Threads : y \in Range(old'[u]) <=> d[y] = <<"old", u>>
            /\ \A u \in Threads : y \in Range(new'[u]) <=> d[y] = <<"new", u>>
            /\ y \in gone' <=> d[y] = <<"gone", None>>
        BY <3>2, <4>2, <4>3, <4>4, <4>5, Zenon
      <4> QED BY <4>3, <4>4, <4>6, <4>7, Zenon
    <3> QED BY <3>1, <3>2
  <2>5. {x} \in SUBSET Proxies
    OBVIOUS
  <2>6. OnePlace
    BY <1>0
  <2> QED BY ONLY <2>2, <2>4, <2>5, <2>6, Moved, SMTT(30)
<1>9. GoneInv'
    BY <1>0 DEF GoneInv
<1> QED BY <1>4, <1>5, <1>6, <1>7, <1>8, <1>9 DEF ProxyInv

-----------------------------------------------------------------------------
(* The stock of a pool.                                                    *)

\* The variables of the other threads' calls.
LEMMA HoldersOther ==
    ASSUME NEW t \in Threads, NEW r \in Pools, refid'[r] = refid[r],
           \A u \in Threads : u # t =>
              pool'[u] = pool[u] /\ held'[u] = held[u] /\ myref'[u] = myref[u]
    PROVE  /\ \A u \in Threads : u # t => (u \in Holders(r)' <=> u \in Holders(r))
           /\ Holders(r) \subseteq Threads /\ Holders(r)' \subseteq Threads
BY DEF Holders

LEMMA HoldersFinite ==
    ASSUME NEW r \in Pools
    PROVE  /\ IsFiniteSet(Holders(r)) /\ Cardinality(Holders(r)) \in Nat
           /\ IsFiniteSet(Holders(r)') /\ Cardinality(Holders(r)') \in Nat
<1>1. Holders(r) \subseteq Threads /\ Holders(r)' \subseteq Threads
    BY DEF Holders
<1>2. IsFiniteSet(Holders(r)) /\ IsFiniteSet(Holders(r)')
    BY <1>1, Numbers, FS_Subset
<1> QED BY <1>2, FS_CardinalityType

\* One thread more, or one less.
LEMMA HoldersMore ==
    ASSUME NEW t \in Threads, NEW r \in Pools, t \notin Holders(r),
           Holders(r)' = Holders(r) \cup {t}
    PROVE  Cardinality(Holders(r)') = Cardinality(Holders(r)) + 1
BY HoldersFinite, FS_AddElement

LEMMA HoldersLess ==
    ASSUME NEW t \in Threads, NEW r \in Pools, t \in Holders(r),
           Holders(r)' = Holders(r) \ {t}
    PROVE  Cardinality(Holders(r)) = Cardinality(Holders(r)') + 1
<1>1. Cardinality(Holders(r)') = Cardinality(Holders(r)) - 1
    BY HoldersFinite, FS_RemoveElement
<1> QED BY <1>1, HoldersFinite

\* Only the pool q changes.
LEMMA StockChanged ==
    ASSUME StockInv, NEW q \in Pools, q \in made', made' \subseteq made \cup {q},
           made \subseteq made',
           \A r \in Pools : r # q => /\ list'[r] = list[r] /\ stock'[r] = stock[r]
                                     /\ Holders(r)' = Holders(r),
           Len(list'[q]) + Cardinality(Holders(q)') = stock'[q]
    PROVE  StockInv'
<1>1. ASSUME NEW r \in Pools
      PROVE  /\ Len(list'[r]) + Cardinality(Holders(r)') = stock'[r]
             /\ r \notin made' => list'[r] = <<>> /\ stock'[r] = 0
  <2>1. CASE r = q
    BY <2>1
  <2>2. CASE r # q
    <3>1. /\ Len(list[r]) + Cardinality(Holders(r)) = stock[r]
          /\ r \notin made => list[r] = <<>> /\ stock[r] = 0
      BY DEF StockInv, Stock, Holders
    <3>2. list'[r] = list[r] /\ stock'[r] = stock[r] /\ Holders(r)' = Holders(r)
      BY <2>2
    <3> QED BY <3>1, <3>2
  <2> QED BY <2>1, <2>2
<1> QED BY <1>1 DEF StockInv, Stock, Holders

\* No pool changes.
LEMMA StockKept ==
    ASSUME StockInv, UNCHANGED <<made, list, stock>>,
           \A r \in Pools : Holders(r)' = Holders(r)
    PROVE  StockInv'
<1>1. ASSUME NEW r \in Pools
      PROVE  /\ Len(list'[r]) + Cardinality(Holders(r)') = stock'[r]
             /\ r \notin made' => list'[r] = <<>> /\ stock'[r] = 0
  <2>1. /\ Len(list[r]) + Cardinality(Holders(r)) = stock[r]
        /\ r \notin made => list[r] = <<>> /\ stock[r] = 0
    BY DEF StockInv, Stock, Holders
  <2> QED BY <2>1
<1> QED BY <1>1 DEF StockInv, Stock, Holders

\* The threads with a proxy of the pool stay.
LEMMA HoldersSame ==
    ASSUME NEW t \in Threads, NEW r \in Pools, refid'[r] = refid[r],
           t \in Holders(r)' <=> t \in Holders(r),
           \A u \in Threads : u # t =>
              pool'[u] = pool[u] /\ held'[u] = held[u] /\ myref'[u] = myref[u]
    PROVE  Holders(r)' = Holders(r)
<1>1. ASSUME NEW u \in Threads
      PROVE  u \in Holders(r)' <=> u \in Holders(r)
  <2>1. CASE u = t
    BY <2>1
  <2>2. CASE u # t
    BY <2>2 DEF Holders
  <2> QED BY <2>1, <2>2
<1>2. Holders(r) \subseteq Threads /\ Holders(r)' \subseteq Threads
    BY DEF Holders
<1> QED BY <1>1, <1>2

\* A thread without a proxy neither gets nor had one.
LEMMA HoldersKept ==
    ASSUME NEW t \in Threads, held[t] = None, held'[t] = None, NEW r \in Pools,
           refid'[r] = refid[r],
           \A u \in Threads : u # t =>
              pool'[u] = pool[u] /\ held'[u] = held[u] /\ myref'[u] = myref[u]
    PROVE  Holders(r)' = Holders(r)
<1>1. t \notin Holders(r) /\ t \notin Holders(r)'
    BY DEF Holders
<1> QED BY <1>1, HoldersSame

\* Take moves a proxy from the list to the threads.
LEMMA TakeStock ==
    ASSUME ProxyInv, StockInv, NEW t \in Threads, NEW q \in Pools, q \in made,
           list[q] # <<>>, pc[t] \in {"idle", "wait"}, Take(t, q)
    PROVE  StockInv'
<1>0. PoolType /\ ThreadType /\ CallInv
    BY DEF ProxyInv
<1>1. /\ list[q] \in Seq(Proxies) /\ IsInjective(list[q])
      /\ Head(list[q]) \in Proxies /\ Len(Tail(list[q])) = Len(list[q]) - 1
      /\ Len(list[q]) \in Nat /\ Len(list[q]) # 0
  <2>1. list[q] \in Seq(Proxies) /\ IsInjective(list[q])
    BY <1>0 DEF PoolType
  <2> QED BY <2>1, TailList
<1>2. /\ pool'[t] = q /\ held'[t] = Head(list[q]) /\ myref'[t] = refid[q]
      /\ \A u \in Threads : u # t =>
            pool'[u] = pool[u] /\ held'[u] = held[u] /\ myref'[u] = myref[u]
      /\ list'[q] = Tail(list[q]) /\ \A r \in Pools : r # q => list'[r] = list[r]
      /\ UNCHANGED <<made, refid, stock>>
    BY <1>0 DEF Take, ThreadType, PoolType
<1>3. held[t] = None /\ held'[t] # None
  <2>1. held[t] = None
    BY <1>0 DEF CallInv
  <2> QED BY <1>1, <1>2, <2>1, Numbers
<1>4. \A r \in Pools : t \notin Holders(r)
    BY <1>3 DEF Holders
<1>5. \A r \in Pools : t \in Holders(r)' <=> r = q
    BY <1>2, <1>3 DEF Holders
<1>6. \A r \in Pools : r # q => Holders(r)' = Holders(r)
    BY <1>2, <1>4, <1>5, HoldersSame
<1>7. Holders(q)' = Holders(q) \cup {t}
    BY <1>2, <1>4, <1>5, HoldersOther
<1>8. Cardinality(Holders(q)') = Cardinality(Holders(q)) + 1
    BY <1>4, <1>7, HoldersMore
<1>9. Len(list[q]) + Cardinality(Holders(q)) = stock[q]
    BY DEF StockInv, Stock, Holders
<1>10. Len(list'[q]) + Cardinality(Holders(q)') = stock'[q]
  <2>1. Len(list'[q]) = Len(list[q]) - 1 /\ stock'[q] = stock[q]
    BY <1>1, <1>2
  <2> QED BY <1>1, <1>8, <1>9, <2>1, HoldersFinite, SMTT(30)
<1> QED BY <1>2, <1>6, <1>10, StockChanged

\* The steps that change neither a pool nor a proxy a thread has.
LEMMA SameStock ==
    ASSUME ProxyInv, StockInv, UNCHANGED <<made, list, refid, stock>>,
           NEW t \in Threads, held'[t] = held[t],
           held[t] # None => pool'[t] = pool[t] /\ myref'[t] = myref[t],
           \A u \in Threads : u # t =>
              pool'[u] = pool[u] /\ held'[u] = held[u] /\ myref'[u] = myref[u]
    PROVE  StockInv'
<1>1. ASSUME NEW r \in Pools PROVE Holders(r)' = Holders(r)
  <2>1. t \in Holders(r)' <=> t \in Holders(r)
    BY DEF Holders
  <2> QED BY <2>1, HoldersSame
<1> QED BY <1>1, StockKept

\* PutFront takes the proxy from the thread to the list.
LEMMA PutFrontInv ==
    ASSUME ProxyInv, StockInv, NEW t \in Threads, PutFront(t)
    PROVE  ProxyInv' /\ StockInv'
<1>0. PoolType /\ ThreadType /\ CallInv
    BY DEF ProxyInv
<1>1. PICK q \in Pools : q = pool[t] /\ q \in made
    BY <1>0 DEF CallInv, PutFront, PoolType
<1>2. /\ held[t] # None /\ Return(t) /\ UNCHANGED <<made, refid, nproxy, run, gone>>
      /\ list' = [list EXCEPT ![q] = <<held[t]>> \o @]
      /\ stock' = [stock EXCEPT ![q] = IF myref[t] = refid[q] THEN @ ELSE @ + 1]
    BY <1>0, <1>1 DEF CallInv, PutFront
<1>3. /\ stock' \in [Pools -> Nat] /\ \A r \in Pools : r # q => stock'[r] = stock[r]
      /\ stock'[q] = IF myref[t] = refid[q] THEN stock[q] ELSE stock[q] + 1
    BY <1>0, <1>2 DEF PoolType
<1>4. ProxyInv' /\ Len(list'[q]) = Len(list[q]) + 1
      /\ \A r \in Pools : r # q => list'[r] = list[r]
  <2>1. run' \in [Proxies -> {"no", "yes", "dead"}] /\ \A x \in gone : run'[x] = run[x]
    BY <1>0, <1>2 DEF PoolType
  <2> QED BY <1>1, <1>2, <1>3, <2>1, PutInv, ZenonT(40)
<1>5. /\ held'[t] = None
      /\ \A u \in Threads : u # t =>
            pool'[u] = pool[u] /\ held'[u] = held[u] /\ myref'[u] = myref[u]
    BY <1>0, <1>2, ReturnFacts
<1>6. \A r \in Pools : t \notin Holders(r)'
    BY <1>5 DEF Holders
<1>7. \A r \in Pools : r # q => Holders(r)' = Holders(r)
  <2>1. \A r \in Pools : r # q => t \notin Holders(r)
    BY <1>1 DEF Holders
  <2> QED BY <1>2, <1>5, <1>6, <2>1, HoldersSame
<1>8. Len(list[q]) + Cardinality(Holders(q)) = stock[q] /\ Len(list[q]) \in Nat
    BY <1>0 DEF StockInv, Stock, Holders, PoolType
<1>9. Len(list'[q]) + Cardinality(Holders(q)') = stock'[q]
  <2>1. CASE myref[t] = refid[q]
    <3>1. t \in Holders(q)
      BY <1>1, <1>2, <2>1 DEF Holders
    <3>2. Holders(q)' = Holders(q) \ {t}
      BY <1>2, <1>5, <1>6, HoldersOther
    <3>3. Cardinality(Holders(q)) = Cardinality(Holders(q)') + 1
      BY <3>1, <3>2, HoldersLess
    <3>4. stock'[q] = stock[q] /\ Len(list'[q]) = Len(list[q]) + 1
      BY <1>3, <1>4, <2>1
    <3>5. Cardinality(Holders(q)) \in Nat /\ Cardinality(Holders(q)') \in Nat
      BY HoldersFinite
    <3> QED BY <1>8, <3>3, <3>4, <3>5
  <2>2. CASE myref[t] # refid[q]
    <3>1. t \notin Holders(q)
      BY <2>2 DEF Holders
    <3>2. Holders(q)' = Holders(q)
      BY <1>2, <1>5, <1>6, <3>1, HoldersSame
    <3> QED BY <1>3, <1>4, <1>8, <2>2, <3>2, HoldersFinite
  <2> QED BY <2>1, <2>2
<1> QED BY <1>1, <1>2, <1>3, <1>4, <1>7, <1>9, StockChanged

\* A proxy that was stopped goes back to the pool it is of.
LEMMA EndBackInv ==
    ASSUME ProxyInv, StockInv, NEW t \in Threads, End(t), SamePool(t)
    PROVE  ProxyInv' /\ StockInv'
<1>0. PoolType /\ ThreadType /\ CallInv /\ OnePlace
    BY DEF ProxyInv
<1>1. PICK q \in Pools : q = pool[t] /\ q \in made
    BY <1>0 DEF CallInv, End, PoolType
<1>2. /\ held[t] # None /\ Return(t) /\ UNCHANGED <<made, refid, nproxy, gone, stock>>
      /\ list' = [list EXCEPT ![q] = Append(@, held[t])]
      /\ run' = [run EXCEPT ![held[t]] = "no"]
    BY <1>0, <1>1 DEF CallInv, End
<1>3. ProxyInv' /\ Len(list'[q]) = Len(list[q]) + 1
      /\ \A r \in Pools : r # q => list'[r] = list[r]
  <2>1. /\ run' \in [Proxies -> {"no", "yes", "dead"}]
        /\ \A x \in Proxies : x # held[t] => run'[x] = run[x]
    BY <1>0, <1>2 DEF PoolType
  <2>2. held[t] \in Proxies
    BY <1>0, <1>2 DEF ThreadType
  <2>3. held[t] \notin gone
    BY <1>0, <2>2, HeldNotGone
  <2>4. \A x \in gone : run'[x] = run[x]
    BY <1>0, <2>1, <2>3 DEF PoolType
  <2>5. stock' \in [Pools -> Nat]
    BY <1>0, <1>2 DEF PoolType
  <2> QED BY <1>1, <1>2, <2>1, <2>4, <2>5, PutInv
<1>4. /\ held'[t] = None
      /\ \A u \in Threads : u # t =>
            pool'[u] = pool[u] /\ held'[u] = held[u] /\ myref'[u] = myref[u]
    BY <1>0, <1>2, ReturnFacts
<1>5. \A r \in Pools : t \notin Holders(r)'
    BY <1>4 DEF Holders
<1>6. \A r \in Pools : r # q => Holders(r)' = Holders(r)
  <2>1. \A r \in Pools : r # q => t \notin Holders(r)
    BY <1>1 DEF Holders
  <2> QED BY <1>2, <1>4, <1>5, <2>1, HoldersSame
<1>7. Len(list[q]) + Cardinality(Holders(q)) = stock[q] /\ Len(list[q]) \in Nat
    BY <1>0 DEF StockInv, Stock, Holders, PoolType
<1>8. Len(list'[q]) + Cardinality(Holders(q)') = stock'[q]
  <2>1. t \in Holders(q)
    BY <1>1, <1>2 DEF Holders, SamePool
  <2>2. Holders(q)' = Holders(q) \ {t}
    BY <1>2, <1>4, <1>5, HoldersOther
  <2>3. Cardinality(Holders(q)) = Cardinality(Holders(q)') + 1
    BY <2>1, <2>2, HoldersLess
  <2> QED BY <1>2, <1>3, <1>7, <2>3, HoldersFinite
<1> QED BY <1>1, <1>2, <1>3, <1>6, <1>8, StockChanged

\* A proxy of a pool that was remade is freed.
LEMMA EndFreeInv ==
    ASSUME ProxyInv, StockInv, NEW t \in Threads, End(t), ~SamePool(t)
    PROVE  ProxyInv' /\ StockInv'
<1>0. PoolType /\ ThreadType /\ CallInv /\ OnePlace /\ GoneInv
    BY DEF ProxyInv
<1>1. PICK x \in Proxies : x = held[t]
    BY <1>0 DEF CallInv, End, ThreadType
<1>2. /\ Return(t) /\ UNCHANGED <<made, list, refid, nproxy, stock>>
      /\ gone' = gone \cup {x} /\ run' = [run EXCEPT ![x] = "no"]
    BY <1>1 DEF End
<1>3. PoolType' /\ GoneInv'
    BY <1>0, <1>2 DEF PoolType, GoneInv
<1>4. ThreadType' /\ CallInv'
    BY <1>0, <1>2, ReturnFacts, ReturnCalls
<1>5. /\ held'[t] = None
      /\ \A u \in Threads : u # t =>
            pool'[u] = pool[u] /\ held'[u] = held[u] /\ myref'[u] = myref[u]
      /\ \A u \in Threads : Range(old'[u]) = Range(old[u]) /\ Range(new'[u]) = Range(new[u])
  <2>1. old[t] = <<>> /\ new[t] = <<>>
    BY <1>0 DEF CallInv, End
  <2>2. /\ held'[t] = None /\ old'[t] = <<>> /\ new'[t] = <<>>
        /\ \A u \in Threads : u # t =>
              /\ pool'[u] = pool[u] /\ held'[u] = held[u] /\ myref'[u] = myref[u]
              /\ old'[u] = old[u] /\ new'[u] = new[u]
    BY <1>0, <1>2, ReturnFacts
  <2> QED BY <2>1, <2>2
<1>6. OnePlace'
  <2>1. PICK d : d = [y \in {x} |-> <<"gone", None>>]
    OBVIOUS
  <2>2. d \in [{x} -> Places] /\ d[x] = <<"gone", None>>
    BY <2>1, PlaceNames
  <2>3. /\ x <= nproxy /\ \A r \in Pools : x \notin Range(list[r])
        /\ \A u \in Threads : x = held[u] <=> u = t
        /\ \A u \in Threads : x \notin Range(old[u]) /\ x \notin Range(new[u])
    <3>1. In(<<"held", t>>, x) /\ <<"held", t>> \in Places
      BY <1>1, InNames, PlaceNames
    <3> QED BY <1>0, <3>1, PlaceFacts
  <2>4. ASSUME NEW y \in Proxies
        PROVE /\ \A r \in Pools : y \in Range(list'[r]) <=>
                    IF y \in {x} THEN d[y] = <<"list", r>> ELSE y \in Range(list[r])
              /\ \A u \in Threads : y = held'[u] <=>
                    IF y \in {x} THEN d[y] = <<"held", u>> ELSE y = held[u]
              /\ \A u \in Threads : y \in Range(old'[u]) <=>
                    IF y \in {x} THEN d[y] = <<"old", u>> ELSE y \in Range(old[u])
              /\ \A u \in Threads : y \in Range(new'[u]) <=>
                    IF y \in {x} THEN d[y] = <<"new", u>> ELSE y \in Range(new[u])
              /\ y \in gone' <=> IF y \in {x} THEN d[y] = <<"gone", None>> ELSE y \in gone
              /\ IF y \in {x} THEN y <= nproxy' ELSE y <= nproxy' <=> y <= nproxy
    <3>1. CASE y # x
      <4>1. \A u \in Threads : y = held'[u] <=> y = held[u]
        BY <1>1, <1>5, <3>1, Numbers
      <4>2. y \notin {x} /\ (y \in gone' <=> y \in gone)
        BY <1>2, <3>1
      <4> QED BY <1>2, <1>5, <4>1, <4>2, Zenon
    <3>2. CASE y = x
      <4>1. \A u \in Threads : x # held'[u]
        BY <1>5, <2>3, Numbers
      <4>2. /\ y \in {x} /\ d[y] = <<"gone", None>>
            /\ \A r \in Pools : <<"gone", None>> # <<"list", r>>
            /\ \A u \in Threads : /\ <<"gone", None>> # <<"held", u>>
                                  /\ <<"gone", None>> # <<"old", u>>
                                  /\ <<"gone", None>> # <<"new", u>>
        BY <2>2, <3>2
      <4>3. y \in gone' /\ y <= nproxy' /\ \A r \in Pools : y \notin Range(list'[r])
        BY <1>2, <2>3, <3>2
      <4>4. \A u \in Threads : y \notin Range(old'[u]) /\ y \notin Range(new'[u])
        BY <1>5, <2>3, <3>2
      <4> QED BY <3>2, <4>1, <4>2, <4>3, <4>4, Zenon
    <3> QED BY <3>1, <3>2
  <2>5. {x} \in SUBSET Proxies /\ OnePlace
    BY <1>0
  <2> QED BY ONLY <2>2, <2>4, <2>5, Moved, SMTT(30)
<1>7. StockInv'
  <2>1. ASSUME NEW r \in Pools PROVE t \notin Holders(r) /\ t \notin Holders(r)'
    BY <1>5 DEF Holders, SamePool
  <2>2. \A r \in Pools : Holders(r)' = Holders(r)
    BY <1>2, <1>5, <2>1, HoldersSame
  <2> QED BY <1>2, <2>2, StockKept
<1> QED BY <1>3, <1>4, <1>6, <1>7 DEF ProxyInv

\* The proxies that get the next n numbers.
Fresh(m, n) == [j \in 1..n |-> m + j]

LEMMA FreshList ==
    ASSUME NEW m \in Nat, NEW n \in Nat, m + n <= MaxProxies,
           NEW s, s = Fresh(m, n)
    PROVE  /\ s \in Seq(Proxies) /\ IsInjective(s) /\ Len(s) = n
           /\ \A x \in Proxies : x \in Range(s) <=> m < x /\ x <= m + n
<1>0. s = [j \in 1..n |-> m + j]
    BY DEF Fresh
<1>1. \A j \in 1..n : m + j \in Proxies
    BY Numbers
<1>2. s \in Seq(Proxies) /\ Len(s) = n /\ DOMAIN s = 1..n
    BY <1>0, <1>1
<1>3. IsInjective(s)
  <2>1. \A i, j \in 1..n : s[i] = s[j] => i = j
    BY <1>0
  <2> QED BY <1>2, <2>1 DEF IsInjective
<1>4. ASSUME NEW x \in Proxies PROVE x \in Range(s) <=> m < x /\ x <= m + n
  <2>1. x \in Nat
    BY Numbers
  <2>2. ASSUME x \in Range(s) PROVE m < x /\ x <= m + n
    <3>1. PICK j \in 1..n : x = m + j
      BY <1>0, <1>2, <2>2 DEF Range
    <3> QED BY <3>1
  <2>3. ASSUME m < x, x <= m + n PROVE x \in Range(s)
    <3>1. x - m \in 1..n /\ m + (x - m) = x
      BY <2>1, <2>3
    <3>2. s[x - m] = x
      BY <1>0, <3>1
    <3> QED BY <1>2, <3>1, <3>2 DEF Range
  <2> QED BY <2>2, <2>3
<1> QED BY <1>2, <1>3, <1>4

\* A pool is made or remade.
LEMMA StartTakeInv ==
    ASSUME ProxyInv, NEW t \in Threads, NEW q \in Pools, NEW n \in Sizes, StartTake(t, q, n)
    PROVE  ProxyInv'
<1>0. PoolType /\ ThreadType /\ CallInv /\ OnePlace /\ GoneInv
    BY DEF ProxyInv
<1>1. PICK m \in Nat : m = nproxy
    BY <1>0, Numbers DEF PoolType
<1>2. n \in Nat /\ m + n <= MaxProxies /\ MaxProxies \in Nat
    BY <1>1, Numbers DEF StartTake
<1>3. PICK s \in Seq(Proxies) :
         /\ s = [j \in 1..n |-> nproxy + j] /\ IsInjective(s) /\ Len(s) = n
         /\ \A x \in Proxies : x \in Range(s) <=> m < x /\ x <= m + n
  <2>1. PICK s : s = Fresh(m, n)
    OBVIOUS
  <2>2. /\ s \in Seq(Proxies) /\ IsInjective(s) /\ Len(s) = n
        /\ \A x \in Proxies : x \in Range(s) <=> m < x /\ x <= m + n
    BY <1>2, <2>1, FreshList, Zenon
  <2>3. s = [j \in 1..n |-> nproxy + j]
    BY <1>1, <2>1 DEF Fresh
  <2> QED BY <2>2, <2>3, Zenon
<1>4. PICK l \in Seq(Proxies) : l = list[q] /\ IsInjective(l)
    BY <1>0 DEF PoolType
<1>5. /\ pc[t] = "idle" /\ nproxy' = m + n /\ made' = made \cup {q}
      /\ refid' = [refid EXCEPT ![q] = IF q \in made THEN @ + 1 ELSE @]
      /\ old' = [old EXCEPT ![t] = l] /\ list' = [list EXCEPT ![q] = <<>>]
      /\ stock' = [stock EXCEPT ![q] = 0] /\ pc' = [pc EXCEPT ![t] = "start"]
      /\ pool' = [pool EXCEPT ![t] = q] /\ new' = [new EXCEPT ![t] = s]
      /\ UNCHANGED <<run, gone, held, myref>>
    BY <1>1, <1>3, <1>4 DEF StartTake, Detach
<1>6. /\ pc'[t] = "start" /\ pool'[t] = q /\ old'[t] = l /\ new'[t] = s
      /\ \A u \in Threads : u # t =>
            pc'[u] = pc[u] /\ pool'[u] = pool[u] /\ old'[u] = old[u] /\ new'[u] = new[u]
      /\ list'[q] = <<>> /\ \A r \in Pools : r # q => list'[r] = list[r]
    BY <1>0, <1>5 DEF ThreadType, PoolType
<1>7. held[t] = None /\ old[t] = <<>> /\ new[t] = <<>>
    BY <1>0, <1>5 DEF CallInv
<1>8. PoolType'
  <2>1. \A r \in Pools : IsInjective(list'[r])
    BY <1>0, <1>6, EmptyList DEF PoolType
  <2>2. list' \in [Pools -> Seq(Proxies)]
    <3>1. <<>> \in Seq(Proxies)
      OBVIOUS
    <3> QED BY <1>0, <1>5, <3>1 DEF PoolType
  <2>3. nproxy' \in 0..MaxProxies
    BY <1>2, <1>5
  <2>4. refid' \in [Pools -> Nat] /\ stock' \in [Pools -> Nat] /\ made' \subseteq Pools
    BY <1>0, <1>5 DEF PoolType
  <2> QED BY <1>0, <1>5, <2>1, <2>2, <2>3, <2>4 DEF PoolType
<1>9. ThreadType'
  <2>1. \A u \in Threads : IsInjective(old'[u]) /\ IsInjective(new'[u])
    BY <1>0, <1>3, <1>4, <1>6 DEF ThreadType
  <2> QED BY <1>0, <1>5, <2>1 DEF ThreadType
<1>10. CallInv'
  <2>1. \A r \in made : refid[r] \in Nat /\ refid'[r] \in Nat /\ refid[r] <= refid'[r]
    <3>1. \A r \in made : refid[r] \in Nat /\ (refid'[r] = refid[r] \/ refid'[r] = refid[r] + 1)
      BY <1>0, <1>5 DEF PoolType
    <3> QED BY <3>1
  <2>2. \A u \in Threads : myref[u] \in Nat
    BY <1>0 DEF ThreadType
  <2>3. \A u \in Threads : u # t =>
              /\ pc'[u] = pc[u] /\ pool'[u] = pool[u] /\ held'[u] = held[u]
              /\ myref'[u] = myref[u] /\ old'[u] = old[u] /\ new'[u] = new[u]
    BY <1>5, <1>6
  <2>4. /\ pc'[t] # "idle" => pool'[t] \in made'
        /\ pc'[t] \in {"io", "front", "end"} <=> held'[t] # None
        /\ held'[t] # None => myref'[t] <= refid'[pool'[t]]
        /\ pc'[t] # "start" => old'[t] = <<>> /\ new'[t] = <<>>
    BY <1>5, <1>6, <1>7
  <2>5. made \subseteq made'
    BY <1>5
  <2> QED BY <1>0, <2>1, <2>2, <2>3, <2>4, <2>5, OtherCalls
<1>11. OnePlace'
  <2>1. PICK M \in SUBSET Proxies : M = Range(l) \cup Range(s)
    <3>1. Range(l) \subseteq Proxies /\ Range(s) \subseteq Proxies
      BY DEF Range
    <3> QED BY <3>1
  <2>2. PICK d : d = [x \in M |-> IF x \in Range(l) THEN <<"old", t>> ELSE <<"new", t>>]
    OBVIOUS
  <2>3. /\ d \in [M -> Places]
        /\ \A x \in M : d[x] = IF x \in Range(l) THEN <<"old", t>> ELSE <<"new", t>>
    BY <2>2, PlaceNames
  <2>4. ASSUME NEW x \in Proxies
        PROVE /\ \A r \in Pools : x \in Range(list'[r]) <=>
                    IF x \in M THEN d[x] = <<"list", r>> ELSE x \in Range(list[r])
              /\ \A u \in Threads : x = held'[u] <=>
                    IF x \in M THEN d[x] = <<"held", u>> ELSE x = held[u]
              /\ \A u \in Threads : x \in Range(old'[u]) <=>
                    IF x \in M THEN d[x] = <<"old", u>> ELSE x \in Range(old[u])
              /\ \A u \in Threads : x \in Range(new'[u]) <=>
                    IF x \in M THEN d[x] = <<"new", u>> ELSE x \in Range(new[u])
              /\ x \in gone' <=> IF x \in M THEN d[x] = <<"gone", None>> ELSE x \in gone
              /\ IF x \in M THEN x <= nproxy' ELSE x <= nproxy' <=> x <= nproxy
    <3>0. x \in Nat
      BY Numbers
    <3>1. CASE x \in Range(l)
      <4>1. In(<<"list", q>>, x) /\ <<"list", q>> \in Places
        BY <1>4, <3>1, InNames, PlaceNames
      <4>2. /\ x <= nproxy /\ \A r \in Pools : x \in Range(list[r]) <=> r = q
            /\ \A u \in Threads : x # held[u] /\ x \notin Range(old[u]) /\ x \notin Range(new[u])
            /\ x \notin gone
        BY <1>0, <4>1, PlaceFacts
      <4>3. x \in M /\ d[x] = <<"old", t>>
        BY <2>1, <2>3, <3>1
      <4>4. \A r \in Pools : x \notin Range(list'[r])
        BY <1>6, <4>2, EmptyList
      <4>5. x \notin Range(s)
        BY <1>1, <1>3, <3>0, <4>2
      <4>6. /\ \A u \in Threads : x \in Range(old'[u]) <=> u = t
            /\ \A u \in Threads : x \notin Range(new'[u])
        BY <1>6, <3>1, <4>2, <4>5
      <4>7. x <= nproxy'
        BY <1>1, <1>2, <1>5, <3>0, <4>2
      <4>8. /\ \A r \in Pools : d[x] # <<"list", r>>
            /\ \A u \in Threads : d[x] # <<"held", u>> /\ d[x] # <<"new", u>>
            /\ \A u \in Threads : d[x] = <<"old", u>> <=> u = t
            /\ d[x] # <<"gone", None>>
        BY <4>3
      <4>9. (\A u \in Threads : x # held'[u]) /\ x \notin gone'
        BY <1>5, <4>2
      <4> QED BY <4>3, <4>4, <4>6, <4>7, <4>8, <4>9, Zenon
    <3>2. CASE x \in Range(s) /\ x \notin Range(l)
      <4>1. m < x /\ x <= m + n
        BY <1>3, <3>2
      <4>2. ~(x <= nproxy)
        BY <1>1, <3>0, <4>1
      <4>3. /\ \A r \in Pools : x \notin Range(list[r])
            /\ \A u \in Threads : x # held[u] /\ x \notin Range(old[u]) /\ x \notin Range(new[u])
            /\ x \notin gone
        <5>1. \A o \in Places : ~In(o, x)
          BY <1>0, <4>2 DEF OnePlace
        <5> QED BY <5>1, InNames, PlaceNames
      <4>4. x \in M /\ d[x] = <<"new", t>>
        BY <2>1, <2>3, <3>2
      <4>5. \A r \in Pools : x \notin Range(list'[r])
        BY <1>6, <4>3, EmptyList
      <4>6. /\ \A u \in Threads : x \in Range(new'[u]) <=> u = t
            /\ \A u \in Threads : x \notin Range(old'[u])
        BY <1>6, <3>2, <4>3
      <4>7. x <= nproxy'
        BY <1>5, <4>1
      <4>8. /\ \A r \in Pools : d[x] # <<"list", r>>
            /\ \A u \in Threads : d[x] # <<"held", u>> /\ d[x] # <<"old", u>>
            /\ \A u \in Threads : d[x] = <<"new", u>> <=> u = t
            /\ d[x] # <<"gone", None>>
        BY <4>4
      <4>9. (\A u \in Threads : x # held'[u]) /\ x \notin gone'
        BY <1>5, <4>3
      <4> QED BY <4>4, <4>5, <4>6, <4>7, <4>8, <4>9, Zenon
    <3>3. CASE x \notin Range(s) /\ x \notin Range(l)
      <4>1. x \notin M
        BY <2>1, <3>3
      <4>2. \A r \in Pools : x \in Range(list'[r]) <=> x \in Range(list[r])
        BY <1>4, <1>6, <3>3, EmptyList
      <4>3. /\ \A u \in Threads : x \in Range(old'[u]) <=> x \in Range(old[u])
            /\ \A u \in Threads : x \in Range(new'[u]) <=> x \in Range(new[u])
        BY <1>6, <1>7, <3>3, EmptyList
      <4>4. x <= nproxy' <=> x <= nproxy
        <5>1. ~(m < x /\ x <= m + n)
          BY <1>3, <3>3
        <5> QED BY <1>1, <1>2, <1>5, <3>0, <5>1
      <4>5. UNCHANGED <<held, gone>>
        BY <1>5
      <4> QED BY <4>1, <4>2, <4>3, <4>4, <4>5
    <3> QED BY <3>1, <3>2, <3>3
  <2>5. OnePlace /\ M \in SUBSET Proxies
    BY <1>0
  <2>6. d \in [M -> Places]
    BY <2>3
  <2> QED BY ONLY <2>4, <2>5, <2>6, Moved, ZenonT(120)
<1>12. GoneInv'
    BY <1>0, <1>5 DEF GoneInv
<1> QED BY <1>8, <1>9, <1>10, <1>11, <1>12 DEF ProxyInv

\* The pool is empty, and no thread has a proxy of it as it is then.
LEMMA StartTakeStock ==
    ASSUME ProxyInv, StockInv, NEW t \in Threads, NEW q \in Pools, NEW n \in Sizes,
           StartTake(t, q, n)
    PROVE  StockInv'
<1>0. PoolType /\ ThreadType /\ CallInv
    BY DEF ProxyInv
<1>1. /\ made' = made \cup {q} /\ held[t] = None /\ held' = held /\ myref' = myref
      /\ list'[q] = <<>> /\ stock'[q] = 0
      /\ refid'[q] = IF q \in made THEN refid[q] + 1 ELSE refid[q]
      /\ \A r \in Pools : r # q =>
            list'[r] = list[r] /\ stock'[r] = stock[r] /\ refid'[r] = refid[r]
      /\ \A u \in Threads : u # t => pool'[u] = pool[u]
    BY <1>0 DEF StartTake, Detach, CallInv, PoolType, ThreadType
<1>2. \A r \in Pools : r # q => Holders(r)' = Holders(r)
    BY <1>1, HoldersKept
<1>3. Holders(q)' = {}
  <2>1. ASSUME NEW u \in Threads, u \in Holders(q)' PROVE FALSE
    <3>1. u # t /\ pool[u] = q /\ held[u] # None /\ myref[u] = refid'[q]
      BY <1>1, <2>1 DEF Holders
    <3>2. q \in made /\ myref[u] <= refid[q]
      BY <1>0, <3>1 DEF CallInv
    <3>3. refid[q] \in Nat /\ refid'[q] = refid[q] + 1
      BY <1>0, <1>1, <3>2 DEF PoolType
    <3> QED BY <3>1, <3>2, <3>3
  <2>2. Holders(q)' \subseteq Threads
    BY DEF Holders
  <2> QED BY <2>1, <2>2
<1>4. Cardinality(Holders(q)') = 0
    BY <1>3, FS_EmptySet
<1>5. Len(list'[q]) + Cardinality(Holders(q)') = stock'[q]
    BY <1>1, <1>4
<1> QED BY <1>1, <1>2, <1>5, StockChanged

\* The old proxies are dropped and the new ones added.
LEMMA StartAddInv ==
    ASSUME ProxyInv, StockInv, NEW t \in Threads, StartAdd(t)
    PROVE  ProxyInv' /\ StockInv'
<1>0. PoolType /\ ThreadType /\ CallInv /\ OnePlace /\ GoneInv
    BY DEF ProxyInv
<1>1. PICK q \in Pools : q = pool[t] /\ q \in made
    BY <1>0 DEF CallInv, StartAdd, PoolType
<1>2. PICK l \in Seq(Proxies) : l = old[t] /\ IsInjective(l)
    BY <1>0 DEF ThreadType
<1>3. PICK s \in Seq(Proxies) : s = new[t] /\ IsInjective(s)
    BY <1>0 DEF ThreadType
<1>4. PICK k \in Seq(Proxies) : k = list[q] /\ IsInjective(k)
    BY <1>0 DEF PoolType
<1>5. /\ \A x \in Range(l) : /\ x \in Proxies /\ x <= nproxy
                             /\ \A r \in Pools : x \notin Range(list[r])
                             /\ \A u \in Threads : x \in Range(old[u]) <=> u = t
                             /\ \A u \in Threads : x # held[u] /\ x \notin Range(new[u])
                             /\ x \notin gone
      /\ \A x \in Range(s) : /\ x \in Proxies /\ x <= nproxy
                             /\ \A r \in Pools : x \notin Range(list[r])
                             /\ \A u \in Threads : x \in Range(new[u]) <=> u = t
                             /\ \A u \in Threads : x # held[u] /\ x \notin Range(old[u])
                             /\ x \notin gone
  <2>1. ASSUME NEW x \in Range(l)
        PROVE  /\ x \in Proxies /\ x <= nproxy
               /\ \A r \in Pools : x \notin Range(list[r])
               /\ \A u \in Threads : x \in Range(old[u]) <=> u = t
               /\ \A u \in Threads : x # held[u] /\ x \notin Range(new[u])
               /\ x \notin gone
    <3>1. x \in Proxies
      BY DEF Range
    <3>2. In(<<"old", t>>, x) /\ <<"old", t>> \in Places
      BY <1>2, InNames, PlaceNames
    <3> QED BY <1>0, <3>1, <3>2, PlaceFacts
  <2>2. ASSUME NEW x \in Range(s)
        PROVE  /\ x \in Proxies /\ x <= nproxy
               /\ \A r \in Pools : x \notin Range(list[r])
               /\ \A u \in Threads : x \in Range(new[u]) <=> u = t
               /\ \A u \in Threads : x # held[u] /\ x \notin Range(old[u])
               /\ x \notin gone
    <3>1. x \in Proxies
      BY DEF Range
    <3>2. In(<<"new", t>>, x) /\ <<"new", t>> \in Places
      BY <1>3, InNames, PlaceNames
    <3> QED BY <1>0, <3>1, <3>2, PlaceFacts
  <2> QED BY <2>1, <2>2, Zenon
<1>6. PICK w \in Seq(Proxies) : /\ w = s \o k /\ IsInjective(w)
                                /\ Range(w) = Range(s) \cup Range(k)
                                /\ Len(w) = Len(s) + Len(k)
  <2>1. Range(s) \cap Range(k) = {}
    BY <1>1, <1>4, <1>5
  <2>2. /\ s \o k \in Seq(Proxies) /\ IsInjective(s \o k)
        /\ Range(s \o k) = Range(s) \cup Range(k)
    BY <1>3, <1>4, <2>1, ConcatList
  <2>3. Len(s \o k) = Len(s) + Len(k)
    OBVIOUS
  <2> QED BY <2>2, <2>3
<1>7. /\ pc[t] = "start" /\ Return(t) /\ UNCHANGED <<made, refid, nproxy>>
      /\ run' = [x \in Proxies |-> IF x \in Range(l) THEN "no" ELSE run[x]]
      /\ gone' = gone \cup Range(l) /\ list' = [list EXCEPT ![q] = w]
      /\ stock' = [stock EXCEPT ![q] = @ + Len(s)]
    BY <1>0, <1>1, <1>2, <1>3, <1>4, <1>6 DEF StartAdd, PoolType
<1>8. /\ list'[q] = w /\ stock'[q] = stock[q] + Len(s)
      /\ \A r \in Pools : r # q => list'[r] = list[r] /\ stock'[r] = stock[r]
    BY <1>0, <1>7 DEF PoolType
<1>9. PoolType'
  <2>1. \A r \in Pools : IsInjective(list'[r])
    BY <1>0, <1>6, <1>8 DEF PoolType
  <2>2. list' \in [Pools -> Seq(Proxies)]
    BY <1>0, <1>7 DEF PoolType
  <2>3. stock' \in [Pools -> Nat]
    <3>1. Len(s) \in Nat
      OBVIOUS
    <3> QED BY <1>0, <1>7, <3>1 DEF PoolType
  <2>4. run' \in [Proxies -> {"no", "yes", "dead"}] /\ gone' \subseteq Proxies
    BY <1>0, <1>5, <1>7 DEF PoolType
  <2> QED BY <1>0, <1>7, <2>1, <2>2, <2>3, <2>4 DEF PoolType
<1>10. ThreadType' /\ CallInv'
    BY <1>0, <1>7, ReturnFacts, ReturnCalls
<1>11. /\ held[t] = None /\ held'[t] = None /\ old'[t] = <<>> /\ new'[t] = <<>>
       /\ \A u \in Threads : u # t =>
            /\ pool'[u] = pool[u] /\ held'[u] = held[u] /\ myref'[u] = myref[u]
            /\ old'[u] = old[u] /\ new'[u] = new[u]
  <2>1. held[t] = None
    BY <1>0, <1>7 DEF CallInv
  <2> QED BY <1>0, <1>7, <2>1, ReturnFacts
<1>12. OnePlace'
  <2>1. PICK M \in SUBSET Proxies : M = Range(l) \cup Range(s)
    BY <1>5
  <2>2. PICK d : d = [x \in M |-> IF x \in Range(l) THEN <<"gone", None>> ELSE <<"list", q>>]
    OBVIOUS
  <2>3. /\ d \in [M -> Places]
        /\ \A x \in M : d[x] = IF x \in Range(l) THEN <<"gone", None>> ELSE <<"list", q>>
    BY <2>2, PlaceNames
  <2>4. ASSUME NEW x \in Proxies
        PROVE /\ \A r \in Pools : x \in Range(list'[r]) <=>
                    IF x \in M THEN d[x] = <<"list", r>> ELSE x \in Range(list[r])
              /\ \A u \in Threads : x = held'[u] <=>
                    IF x \in M THEN d[x] = <<"held", u>> ELSE x = held[u]
              /\ \A u \in Threads : x \in Range(old'[u]) <=>
                    IF x \in M THEN d[x] = <<"old", u>> ELSE x \in Range(old[u])
              /\ \A u \in Threads : x \in Range(new'[u]) <=>
                    IF x \in M THEN d[x] = <<"new", u>> ELSE x \in Range(new[u])
              /\ x \in gone' <=> IF x \in M THEN d[x] = <<"gone", None>> ELSE x \in gone
              /\ IF x \in M THEN x <= nproxy' ELSE x <= nproxy' <=> x <= nproxy
    <3>1. CASE x \in Range(l)
      <4>1. x \in M /\ d[x] = <<"gone", None>>
        BY <2>1, <2>3, <3>1
      <4>2. \A r \in Pools : x \notin Range(list'[r])
        <5>1. x \notin Range(s) /\ x \notin Range(k) /\ \A r \in Pools : x \notin Range(list[r])
          BY <1>1, <1>3, <1>4, <1>5, <3>1
        <5> QED BY <1>6, <1>8, <5>1
      <4>3. \A u \in Threads : x \notin Range(old'[u]) /\ x \notin Range(new'[u])
        BY <1>5, <1>11, <3>1, EmptyList
      <4>4. /\ \A r \in Pools : d[x] # <<"list", r>>
            /\ \A u \in Threads : /\ d[x] # <<"held", u>> /\ d[x] # <<"new", u>>
                                  /\ d[x] # <<"old", u>>
        BY <4>1
      <4>5. (\A u \in Threads : x # held'[u]) /\ x \in gone' /\ x <= nproxy'
        BY <1>5, <1>7, <1>11, <3>1
      <4> QED BY <4>1, <4>2, <4>3, <4>4, <4>5, Zenon
    <3>2. CASE x \in Range(s) /\ x \notin Range(l)
      <4>1. x \in M /\ d[x] = <<"list", q>>
        BY <2>1, <2>3, <3>2
      <4>2. \A r \in Pools : x \in Range(list'[r]) <=> r = q
        BY <1>5, <1>6, <1>8, <3>2
      <4>3. \A u \in Threads : x \notin Range(old'[u]) /\ x \notin Range(new'[u])
        BY <1>5, <1>11, <3>2, EmptyList
      <4>4. /\ \A r \in Pools : d[x] = <<"list", r>> <=> r = q
            /\ \A u \in Threads : /\ d[x] # <<"held", u>> /\ d[x] # <<"new", u>>
                                  /\ d[x] # <<"old", u>>
            /\ d[x] # <<"gone", None>>
        BY <4>1
      <4>5. (\A u \in Threads : x # held'[u]) /\ x \notin gone' /\ x <= nproxy'
        BY <1>5, <1>7, <1>11, <3>2
      <4> QED BY <4>1, <4>2, <4>3, <4>4, <4>5, Zenon
    <3>3. CASE x \notin Range(s) /\ x \notin Range(l)
      <4>1. x \notin M
        BY <2>1, <3>3
      <4>2. \A r \in Pools : x \in Range(list'[r]) <=> x \in Range(list[r])
        BY <1>4, <1>6, <1>8, <3>3
      <4>3. /\ \A u \in Threads : x \in Range(old'[u]) <=> x \in Range(old[u])
            /\ \A u \in Threads : x \in Range(new'[u]) <=> x \in Range(new[u])
        BY <1>2, <1>3, <1>11, <3>3, EmptyList
      <4>4. /\ \A u \in Threads : x = held'[u] <=> x = held[u]
            /\ x \in gone' <=> x \in gone
        BY <1>7, <1>11, <3>3
      <4>5. nproxy' = nproxy
        BY <1>7
      <4> QED BY <4>1, <4>2, <4>3, <4>4, <4>5, Zenon
    <3> QED BY <3>1, <3>2, <3>3
  <2>5. OnePlace /\ M \in SUBSET Proxies
    BY <1>0
  <2>6. d \in [M -> Places]
    BY <2>3
  <2> QED BY ONLY <2>4, <2>5, <2>6, Moved, ZenonT(120)
<1>13. GoneInv'
    BY <1>0, <1>5, <1>7 DEF GoneInv, PoolType
<1>14. StockInv'
  <2>1. \A r \in Pools : Holders(r)' = Holders(r)
    BY <1>7, <1>11, HoldersKept
  <2>2. /\ Len(list[q]) + Cardinality(Holders(q)) = stock[q]
        /\ Len(s) \in Nat /\ Len(k) \in Nat /\ Cardinality(Holders(q)) \in Nat
    <3>1. Len(list[q]) + Cardinality(Holders(q)) = stock[q]
      BY DEF StockInv, Stock, Holders
    <3>2. Len(s) \in Nat /\ Len(k) \in Nat
      OBVIOUS
    <3> QED BY <3>1, <3>2, HoldersFinite
  <2>3. Len(list'[q]) + Cardinality(Holders(q)') = stock'[q]
    <3>1. Holders(q)' = Holders(q)
      BY <2>1
    <3>2. Len(list'[q]) = Len(s) + Len(list[q]) /\ stock'[q] = stock[q] + Len(s)
      BY <1>4, <1>6, <1>8
    <3>3. Len(list[q]) \in Nat
      BY <1>4, <2>2
    <3> QED BY <2>2, <3>1, <3>2, <3>3
  <2> QED BY <1>1, <1>7, <1>8, <2>1, <2>3, StockChanged
<1> QED BY <1>9, <1>10, <1>12, <1>13, <1>14 DEF ProxyInv

LEMMA StepInv ==
    ASSUME ProxyInv, StockInv, [Next]_vars
    PROVE  ProxyInv' /\ StockInv'
<1>0. PoolType /\ ThreadType /\ CallInv /\ OnePlace /\ GoneInv
    BY DEF ProxyInv
<1>1. ASSUME NEW t \in Threads, NEW q \in Pools, NEW n \in Sizes, StartTake(t, q, n)
      PROVE  ProxyInv' /\ StockInv'
    BY <1>1, StartTakeInv, StartTakeStock
<1>2. ASSUME NEW t \in Threads, StartAdd(t)
      PROVE  ProxyInv' /\ StockInv'
    BY <1>2, StartAddInv
<1>3. ASSUME NEW t \in Threads, NEW q \in Pools, q \in made, pc[t] \in {"idle", "wait"},
             list[q] # <<>>, Take(t, q)
      PROVE  ProxyInv' /\ StockInv'
    BY <1>3, TakeInv, TakeStock
<1>4. ASSUME NEW t \in Threads, NEW q \in Pools, q \in made, pc[t] \in {"idle", "wait"},
             Wait(t, q)
      PROVE  ProxyInv' /\ StockInv'
  <2>1. held[t] = None
    BY <1>0, <1>4 DEF CallInv
  <2>2. /\ UNCHANGED <<made, list, refid, stock, held, myref>>
        /\ \A u \in Threads : u # t =>
              pool'[u] = pool[u] /\ held'[u] = held[u] /\ myref'[u] = myref[u]
    BY <1>0, <1>4 DEF Wait, poolVars, ThreadType
  <2> QED BY <1>4, <2>1, <2>2, WaitInv, SameStock
<1>5. ASSUME NEW t \in Threads, NEW q \in Pools, Send(t, q)
      PROVE  ProxyInv' /\ StockInv'
  <2>1. q \in made /\ pc[t] \in {"idle", "wait"}
    BY <1>5 DEF Send
  <2>2. (list[q] # <<>> /\ Take(t, q)) \/ Wait(t, q)
    BY <1>5 DEF Send
  <2> QED BY <1>3, <1>4, <2>1, <2>2
<1>6. ASSUME NEW t \in Threads, Wake(t)
      PROVE  ProxyInv' /\ StockInv'
  <2>1. PICK q \in Pools : q = pool[t] /\ q \in made
    BY <1>0, <1>6 DEF Wake, CallInv, PoolType
  <2>2. pc[t] \in {"idle", "wait"} /\ ((list[q] # <<>> /\ Take(t, q)) \/ Wait(t, q))
    BY <1>6, <2>1 DEF Wake
  <2> QED BY <1>3, <1>4, <2>1, <2>2
<1>7. ASSUME NEW t \in Threads, Timeout(t)
      PROVE  ProxyInv' /\ StockInv'
  <2>1. PICK q \in Pools : q = pool[t] /\ q \in made
    BY <1>0, <1>7 DEF Timeout, CallInv, PoolType
  <2>2. CASE list[q] # <<>>
    <3>1. pc[t] \in {"idle", "wait"} /\ Take(t, q)
      BY <1>7, <2>1, <2>2 DEF Timeout
    <3> QED BY <1>3, <2>1, <2>2, <3>1
  <2>3. CASE list[q] = <<>>
    <3>1. pc[t] = "wait" /\ Return(t) /\ UNCHANGED poolVars
      BY <1>7, <2>1, <2>3 DEF Timeout
    <3>2. ProxyInv' /\ UNCHANGED <<held, old, new>>
      BY <3>1, TimeoutInv
    <3>3. held[t] = None /\ held'[t] = held[t] /\ UNCHANGED <<made, list, refid, stock>>
      BY <1>0, <3>1, <3>2 DEF CallInv, poolVars
    <3>4. \A u \in Threads : u # t =>
              pool'[u] = pool[u] /\ held'[u] = held[u] /\ myref'[u] = myref[u]
      BY <1>0, <3>1, ReturnFacts
    <3> QED BY <3>2, <3>3, <3>4, SameStock
  <2> QED BY <2>2, <2>3
<1>8. ASSUME NEW t \in Threads, Io(t)
      PROVE  ProxyInv' /\ StockInv'
  <2>1. UNCHANGED <<made, list, refid, stock, pool, held, myref>>
    BY <1>8 DEF Io
  <2> QED BY <1>8, <2>1, IoInv, SameStock
<1>9. ASSUME NEW t \in Threads, PutFront(t)
      PROVE  ProxyInv' /\ StockInv'
    BY <1>9, PutFrontInv
<1>10. ASSUME NEW t \in Threads, End(t)
       PROVE  ProxyInv' /\ StockInv'
    BY <1>10, EndBackInv, EndFreeInv
<1>11. ASSUME NEW x \in Proxies, Die(x)
       PROVE  ProxyInv' /\ StockInv'
  <2>1. /\ UNCHANGED <<made, list, refid, stock, pool, held, myref>>
        /\ \A r \in Pools : Holders(r)' = Holders(r)
    BY <1>11 DEF Die, threadVars, Holders
  <2> QED BY <1>11, <2>1, DieInv, StockKept
<1>12. CASE UNCHANGED vars
  <2>1. /\ UNCHANGED <<made, list, refid, nproxy, run, gone, stock>>
        /\ UNCHANGED <<pc, pool, held, myref, old, new>>
    BY <1>12 DEF vars, poolVars, threadVars
  <2>2. PoolType' /\ ThreadType' /\ CallInv' /\ GoneInv'
    BY <1>0, <2>1 DEF PoolType, ThreadType, CallInv, GoneInv
  <2>3. OnePlace'
    BY <1>0, <2>1, Unmoved
  <2>4. StockInv'
    BY <2>1, StockKept DEF Holders
  <2> QED BY <2>2, <2>3, <2>4 DEF ProxyInv
<1>13. CASE Next
    BY <1>1, <1>2, <1>5, <1>6, <1>7, <1>8, <1>9, <1>10, <1>11, <1>13 DEF Next
<1> QED BY <1>12, <1>13

-----------------------------------------------------------------------------
(* What the invariant says.                                                *)

\* A list has room for every proxy once.
LEMMA ListRoom ==
    ASSUME PoolType, NEW q \in Pools
    PROVE  /\ Len(list[q]) \in Nat /\ Len(list[q]) <= MaxProxies
           /\ \A x : x \in Range(list[q]) <=> \E i \in 1..Len(list[q]) : list[q][i] = x
<1>1. PICK l \in Seq(Proxies) : l = list[q] /\ IsInjective(l)
    BY DEF PoolType
<1>2. Len(l) \in Nat /\ DOMAIN l = 1..Len(l)
    BY LenProperties
<1>3. Cardinality(Range(l)) = Len(l)
    BY <1>1, ListLength
<1>4. Range(l) \subseteq Proxies
    BY DEF Range
<1>5. IsFiniteSet(Proxies) /\ Cardinality(Proxies) = MaxProxies
  <2>1. IsFiniteSet(1..MaxProxies) /\ Cardinality(1..MaxProxies) = MaxProxies
    BY Numbers, FS_Interval
  <2> QED BY <2>1, Numbers
<1>6. Cardinality(Range(l)) <= Cardinality(Proxies)
    BY <1>4, <1>5, FS_Subset
<1>7. \A x : x \in Range(l) <=> \E i \in 1..Len(l) : l[i] = x
    BY <1>2 DEF Range
<1> QED BY <1>1, <1>2, <1>3, <1>5, <1>6, <1>7

\* Of a condition that holds for one thread, or for none.
LEMMA Count ==
    /\ Cardinality({}) = 0
    /\ \A e : Cardinality({e}) = 1
BY FS_EmptySet, FS_Singleton

\* A proxy that has a number is counted once.
LEMMA PlaceCount ==
    ASSUME ProxyInv, NEW x \in Proxies, x <= nproxy
    PROVE  Cardinality({w \in Pools \X (1..MaxProxies) :
                w[2] \in 1..Len(list[w[1]]) /\ list[w[1]][w[2]] = x})
           + Cardinality({t \in Threads : held[t] = x})
           + Cardinality({t \in Threads : x \in Range(old[t])})
           + Cardinality({t \in Threads : x \in Range(new[t])})
           + (IF x \in gone THEN 1 ELSE 0) = 1
<1> DEFINE A == {w \in Pools \X (1..MaxProxies) :
                   w[2] \in 1..Len(list[w[1]]) /\ list[w[1]][w[2]] = x}
           B == {t \in Threads : held[t] = x}
           C == {t \in Threads : x \in Range(old[t])}
           D == {t \in Threads : x \in Range(new[t])}
<1>0. PoolType /\ OnePlace
    BY DEF ProxyInv
<1>1. PICK b \in Places : In(b, x)
    BY <1>0 DEF OnePlace
<1>2. /\ \A q \in Pools : x \in Range(list[q]) <=> b = <<"list", q>>
      /\ \A t \in Threads : x = held[t] <=> b = <<"held", t>>
      /\ \A t \in Threads : x \in Range(old[t]) <=> b = <<"old", t>>
      /\ \A t \in Threads : x \in Range(new[t]) <=> b = <<"new", t>>
      /\ x \in gone <=> b = <<"gone", None>>
    BY <1>0, <1>1, PlaceFacts
<1>3. (\A q \in Pools : b # <<"list", q>>) => A = {}
  <2>1. ASSUME NEW w \in A PROVE b = <<"list", w[1]>> /\ w[1] \in Pools
    <3>1. w[1] \in Pools /\ w[2] \in 1..Len(list[w[1]]) /\ list[w[1]][w[2]] = x
      OBVIOUS
    <3>2. x \in Range(list[w[1]])
      BY <1>0, <3>1, ListRoom
    <3> QED BY <1>2, <3>1, <3>2
  <2> QED BY <2>1
<1>4. /\ (\A t \in Threads : b # <<"held", t>>) => B = {}
      /\ (\A t \in Threads : b # <<"old", t>>) => C = {}
      /\ (\A t \in Threads : b # <<"new", t>>) => D = {}
    BY <1>2
<1>5. CASE \E q \in Pools : b = <<"list", q>>
  <2>1. PICK q \in Pools : b = <<"list", q>>
    BY <1>5
  <2>2. B = {} /\ C = {} /\ D = {} /\ x \notin gone
    BY <1>2, <1>4, <2>1
  <2>3. PICK i \in 1..Len(list[q]) : list[q][i] = x
    BY <1>0, <1>2, <2>1, ListRoom
  <2>4. i \in 1..MaxProxies
    BY <1>0, Numbers, ListRoom
  <2>5. A = {<<q, i>>}
    <3>1. <<q, i>> \in A
      BY <2>3, <2>4
    <3>2. ASSUME NEW w \in A PROVE w = <<q, i>>
      <4>1. /\ w[1] \in Pools /\ w[2] \in 1..Len(list[w[1]]) /\ list[w[1]][w[2]] = x
            /\ w = <<w[1], w[2]>>
        OBVIOUS
      <4>2. w[1] = q
        <5>1. x \in Range(list[w[1]])
          BY <1>0, <4>1, ListRoom
        <5> QED BY <1>2, <2>1, <4>1, <5>1
      <4>3. \A j, k \in 1..Len(list[q]) : list[q][j] = list[q][k] => j = k
        <5>1. IsInjective(list[q]) /\ list[q] \in Seq(Proxies)
          BY <1>0 DEF PoolType
        <5>2. DOMAIN list[q] = 1..Len(list[q])
          BY <5>1, LenProperties
        <5> QED BY <5>1, <5>2 DEF IsInjective
      <4>4. w[2] = i
        BY <2>3, <4>1, <4>2, <4>3
      <4> QED BY <4>1, <4>2, <4>4
    <3> QED BY <3>1, <3>2
  <2>6. Cardinality(A) = 1 /\ Cardinality(B) = 0 /\ Cardinality(C) = 0 /\ Cardinality(D) = 0
    BY <2>2, <2>5, Count
  <2> QED BY <2>2, <2>6
<1>6. CASE \E t \in Threads : b = <<"held", t>>
  <2>1. PICK t \in Threads : b = <<"held", t>>
    BY <1>6
  <2>2. A = {} /\ C = {} /\ D = {} /\ x \notin gone
    BY <1>2, <1>3, <1>4, <2>1
  <2>3. B = {t}
    BY <1>2, <2>1
  <2>4. Cardinality(A) = 0 /\ Cardinality(B) = 1 /\ Cardinality(C) = 0 /\ Cardinality(D) = 0
    BY <2>2, <2>3, Count
  <2> QED BY <2>2, <2>4
<1>7. CASE \E t \in Threads : b = <<"old", t>>
  <2>1. PICK t \in Threads : b = <<"old", t>>
    BY <1>7
  <2>2. A = {} /\ B = {} /\ D = {} /\ x \notin gone
    BY <1>2, <1>3, <1>4, <2>1
  <2>3. C = {t}
    BY <1>2, <2>1
  <2>4. Cardinality(A) = 0 /\ Cardinality(B) = 0 /\ Cardinality(C) = 1 /\ Cardinality(D) = 0
    BY <2>2, <2>3, Count
  <2> QED BY <2>2, <2>4
<1>8. CASE \E t \in Threads : b = <<"new", t>>
  <2>1. PICK t \in Threads : b = <<"new", t>>
    BY <1>8
  <2>2. A = {} /\ B = {} /\ C = {} /\ x \notin gone
    BY <1>2, <1>3, <1>4, <2>1
  <2>3. D = {t}
    BY <1>2, <2>1
  <2>4. Cardinality(A) = 0 /\ Cardinality(B) = 0 /\ Cardinality(C) = 0 /\ Cardinality(D) = 1
    BY <2>2, <2>3, Count
  <2> QED BY <2>2, <2>4
<1>9. CASE b = <<"gone", None>>
  <2>1. A = {} /\ B = {} /\ C = {} /\ D = {} /\ x \in gone
    BY <1>2, <1>3, <1>4, <1>9
  <2>2. Cardinality(A) = 0 /\ Cardinality(B) = 0 /\ Cardinality(C) = 0 /\ Cardinality(D) = 0
    BY <2>1, Count
  <2> QED BY <2>1, <2>2
<1> QED BY <1>5, <1>6, <1>7, <1>8, <1>9, PlaceCases

-----------------------------------------------------------------------------
(* The theorems.                                                           *)

\* Every proxy that proxy.start has made is in the list of one pool, with one
\* thread, or dropped, and the process of one that is dropped was stopped:
\* StartCmd and SendCmd neither lose a proxy nor give it to two threads.
THEOREM ProxyTypeCorrect == Spec => []TypeOK
<1>1. Init => ProxyInv /\ StockInv
    BY InitProxy
<1>2. ProxyInv /\ StockInv /\ [Next]_vars => (ProxyInv /\ StockInv)'
    BY StepInv
<1>3. ProxyInv => TypeOK
  <2> SUFFICES ASSUME ProxyInv PROVE TypeOK
    OBVIOUS
  <2>1. PoolType /\ ThreadType /\ GoneInv
    BY DEF ProxyInv
  <2>2. \A x \in 1..nproxy : x \in Proxies /\ x <= nproxy
    BY <2>1, Numbers DEF PoolType
  <2>3. \A x \in 1..nproxy :
           Cardinality({w \in Pools \X (1..MaxProxies) :
                 w[2] \in 1..Len(list[w[1]]) /\ list[w[1]][w[2]] = x})
           + Cardinality({t \in Threads : held[t] = x})
           + Cardinality({t \in Threads : x \in Range(old[t])})
           + Cardinality({t \in Threads : x \in Range(new[t])})
           + (IF x \in gone THEN 1 ELSE 0) = 1
    BY <2>2, PlaceCount
  <2> QED BY <2>1, <2>3, Zenon DEF TypeOK, PoolType, ThreadType, GoneInv
<1> QED BY <1>1, <1>2, <1>3, PTL DEF Spec

\* The list of a pool and the threads that took a proxy from it as it is now
\* have what proxy.start put there: SendCmd returns a proxy whatever fails, and
\* frees one that is of the pool before it was remade.
THEOREM StockAlways == Spec => []Stock
<1>1. Init => ProxyInv /\ StockInv
    BY InitProxy
<1>2. ProxyInv /\ StockInv /\ [Next]_vars => (ProxyInv /\ StockInv)'
    BY StepInv
<1>3. StockInv => Stock
    BY DEF StockInv
<1> QED BY <1>1, <1>2, <1>3, PTL DEF Spec
=============================================================================
