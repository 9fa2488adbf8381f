------------------------------ MODULE Nv_proofs ------------------------------
(***************************************************************************)
(* Proofs about Nv: its types, and that a replica is the server's arrays   *)
(* as of the last message it has got, for every number of threads, arrays, *)
(* keys, values, messages, clients and connections.                        *)
(***************************************************************************)
EXTENDS Nv, ListLemmas

\* The rows of an array, the arrays, and the commands that change one.
Cells == Values \cup {Unset}
Rows  == [Keys -> Cells]
Reps  == [Names -> Rows]
Cmds  == {Flush} \cup {Set(k, v) : k \in Keys, v \in Values} \cup {Uns(k) : k \in Keys}

AllCmds == Cmds \cup {Array(a) : a \in Names}

\* The types of all variables.
MasterType ==
    /\ vars \in Reps /\ log \in [Names -> Seq(Cmds)] /\ dirty \in [Names -> BOOLEAN]
    /\ owner \in [Names -> Threads \cup {Nobody, Bcast}]
    /\ pc \in [Threads -> {"idle", "update"}] /\ init \in Seq(AllCmds)

BcastType ==
    /\ blk \in {"free", "init"} /\ nlocked \in 0..Len(Arrays) /\ who \in Clients
    /\ stats \in {"idle", "wait"} /\ nstats \in 0..MaxStats

ClientType ==
    /\ conn \in [Clients -> 0..MaxConns] /\ dead \in [Clients -> 0..MaxConns]
    /\ lost \in [Clients -> BOOLEAN] /\ replica \in [Clients -> Reps]
    /\ nfault \in 0..MaxFaults

MsgType ==
    /\ length \in 0..MaxMsgs /\ snap \in [Conns -> 0..NoSnap]
    /\ given \in [Conns -> Seq(Msgs \cup {InitMsg})]
    /\ body \in Seq(Seq(AllCmds)) /\ Len(body) = length
    /\ first \in [Conns -> Seq(AllCmds)]
    /\ hist \in Seq(Reps) /\ Len(hist) = length + 1

\* A thread in BroadcastUpdates has the lock of one array, and the broadcaster
\* those of the first nlocked arrays.
LockInv ==
    /\ \A t \in Threads : pc[t] = "update" <=> \E a \in Names : owner[a] = t
    /\ \A a, b \in Names : owner[a] \in Threads /\ owner[b] = owner[a] => a = b
    /\ \A j \in 1..nlocked : owner[Arrays[j]] = Bcast

TypeInv == MasterType /\ BcastType /\ ClientType /\ MsgType /\ LockInv

\* A message makes the arrays as of it from those as of the message before, and
\* an array is the one as of the last message with what is in its log.
Updates(m) ==
    \E a \in Names, xs \in Seq(Cmds) :
        /\ body[m] = <<Array(a)>> \o xs
        /\ hist[m + 1] = [hist[m] EXCEPT ![a] = ApplyAll(hist[m][a], xs)]
HistInv ==
    /\ \A m \in 1..length : Updates(m)
    /\ \A a \in Names :
          IF owner[a] \in Threads THEN vars[a] = ApplyAll(hist[length + 1][a], log[a])
          ELSE log[a] = <<>> /\ vars[a] = hist[length + 1][a]

\* A message makes the replica of any client equal to v, whatever it was.
Fresh(r) == [arr |-> Nobody, ok |-> TRUE, rep |-> r]
Brings(xs, v) == \A c \in Clients, r \in Reps : /\ RecvAll(c, Fresh(r), xs).ok
                                                /\ RecvAll(c, Fresh(r), xs).rep = v

\* The initial message is up to date when no array has changed since, and the
\* one sent over a connection is that of its snapshot.
InitInv ==
    /\ (\A a \in Names : ~dirty[a]) => Brings(init, vars)
    /\ \A k \in Conns : snap[k] # NoSnap =>
          snap[k] <= length /\ Brings(first[k], hist[snap[k] + 1])

\* The last message a connection has given, and the last connection read.
Reached(k) == IF Last(given[k]) = InitMsg THEN snap[k] ELSE Last(given[k])
GivenInv ==
    /\ \A k \in Conns : given[k] # <<>> => snap[k] # NoSnap /\ Reached(k) \in 0..length
    /\ \A k \in Conns : k[2] > conn[k[1]] => given[k] = <<>>
Latest(c, j) == /\ given[<<c, j>>] # <<>>
                /\ \A i \in j+1..MaxConns : given[<<c, i>>] = <<>>

\* Every cell of a replica is as of message n, or still as of the snapshot s
\* while older updates come again.
Between(r, n, s) ==
    \A a \in Names, q \in Keys : \/ r[a][q] = hist[n + 1][a][q]
                                 \/ n < s /\ r[a][q] = hist[s + 1][a][q]
ReadInv ==
    \A c \in Clients : \A j \in dead[c]+1..MaxConns :
        Latest(c, j) => Between(replica[c], Reached(<<c, j>>), snap[<<c, j>>])

NvInv == TypeInv /\ HistInv /\ InitInv /\ GivenInv /\ ReadInv

-----------------------------------------------------------------------------
\* SetToSeq lists the members of a set.
LEMMA Listed ==
    ASSUME NEW S, IsFiniteSet(S)
    PROVE  /\ Cardinality(S) \in Nat
           /\ SetToSeq(S) \in [1..Cardinality(S) -> S] /\ SetToSeq(S) \in Seq(S)
           /\ Len(SetToSeq(S)) = Cardinality(S)
           /\ \A x \in S : \E j \in 1..Cardinality(S) : SetToSeq(S)[j] = x
<1>1. Cardinality(S) \in Nat /\ ExistsBijection(1..Cardinality(S), S)
    BY FS_CardinalityType
<1>2. PICK n \in Nat : n = Cardinality(S)
    BY <1>1
<1>3. \E f \in [1..n -> S] : IsInjective(f)
  <2>1. PICK f \in Bijection(1..n, S) : TRUE
    BY <1>1, <1>2 DEF ExistsBijection
  <2>2. f \in [1..n -> S] /\ IsInjective(f)
    BY <2>1 DEF Bijection, Injection, IsInjective
  <2> QED BY <2>2
<1>4. PICK s : s = SetToSeq(S) /\ s \in [1..n -> S] /\ IsInjective(s)
    BY <1>2, <1>3 DEF SetToSeq
<1>5. s \in Seq(S) /\ Len(s) = n
    BY <1>4
<1>6. Range(s) = S
  <2>1. Range(s) \subseteq S
    BY <1>4 DEF Range
  <2>2. Cardinality(Range(s)) = n
    BY <1>4, <1>5, ListLength
  <2> QED BY <1>2, <2>1, <2>2, FS_Subset
<1>7. \A x \in S : \E j \in 1..n : s[j] = x
    BY <1>4, <1>6 DEF Range
<1> QED BY <1>1, <1>2, <1>4, <1>5, <1>7

-----------------------------------------------------------------------------
(* What ApplyAll and RecvAll do.                                           *)

\* A function that applies the commands one after the other.
ApplyRun(f, v, xs) ==
    f = [n \in 0..Len(xs) |-> IF n = 0 THEN v ELSE Apply(f[n-1], xs[n])]

ApplyVals(f, v, xs) == f[0] = v /\ \A n \in 1..Len(xs) : f[n] = Apply(f[n-1], xs[n])

LEMMA ApplySteps ==
    ASSUME NEW v, NEW S, NEW xs \in Seq(S), NEW f, ApplyRun(f, v, xs)
    PROVE  ApplyVals(f, v, xs)
<1> DEFINE R(n) == IF n = 0 THEN v ELSE Apply(f[n-1], xs[n])
<1>1. f = [n \in 0..Len(xs) |-> R(n)]
    BY DEF ApplyRun
<1>2. R(0) = v /\ \A n \in 1..Len(xs) : R(n) = Apply(f[n-1], xs[n])
    OBVIOUS
<1>3. Len(xs) \in Nat
    OBVIOUS
<1> HIDE DEF R
<1>4. \A n \in 0..Len(xs) : f[n] = R(n)
    BY <1>1
<1>5. 0 \in 0..Len(xs) /\ \A n \in 1..Len(xs) : n \in 0..Len(xs)
    BY <1>3
<1> QED BY <1>2, <1>4, <1>5 DEF ApplyVals, Chain

LEMMA ApplyIs ==
    ASSUME NEW v, NEW S, NEW xs \in Seq(S), NEW f, ApplyRun(f, v, xs)
    PROVE  ApplyAll(v, xs) = f[Len(xs)]
<1> DEFINE h == CHOOSE e : ApplyRun(e, v, xs)
<1>1. ApplyRun(h, v, xs)
    OBVIOUS
<1>2. ApplyAll(v, xs) = h[Len(xs)]
    BY DEF ApplyAll, ApplyRun
<1> HIDE DEF h
<1>3. Len(xs) \in Nat
    OBVIOUS
<1>4. ApplyVals(h, v, xs)
    BY ONLY xs \in Seq(S), <1>1, ApplySteps, ZenonT(60)
<1>5. ApplyVals(f, v, xs)
    BY ApplySteps
<1>6. \A n \in 1..Len(xs) : h[n-1] = f[n-1] => h[n] = f[n]
    BY <1>4, <1>5 DEF ApplyVals
<1>7. \A n \in 0..Len(xs) : h[n] = f[n]
  <2> DEFINE G == {n \in 0..Len(xs) : h[n] = f[n]}
  <2>1. 0 \in G
    BY <1>3, <1>4, <1>5 DEF ApplyVals
  <2>2. ASSUME NEW n \in 0..Len(xs), n < Len(xs), n \in G PROVE n + 1 \in G
    <3>1. n + 1 \in 1..Len(xs) /\ n + 1 \in 0..Len(xs) /\ (n + 1) - 1 = n
      BY <1>3, <2>2
    <3> QED BY <3>1, <2>2, <1>6
  <2> HIDE DEF G
  <2>3. \A n \in 0..Len(xs) : n \in G
    BY <1>3, <2>1, <2>2, Induct
  <2> QED BY <2>3 DEF G
<1> QED BY <1>2, <1>3, <1>7

RecvRun(f, c, s, xs) ==
    f = [n \in 0..Len(xs) |-> IF n = 0 THEN s ELSE RecvCmd(c, f[n-1], xs[n])]

RecvVals(f, c, s, xs) == f[0] = s /\ \A n \in 1..Len(xs) : f[n] = RecvCmd(c, f[n-1], xs[n])

LEMMA RecvSteps ==
    ASSUME NEW c, NEW s, NEW S, NEW xs \in Seq(S), NEW f, RecvRun(f, c, s, xs)
    PROVE  RecvVals(f, c, s, xs)
<1> DEFINE R(n) == IF n = 0 THEN s ELSE RecvCmd(c, f[n-1], xs[n])
<1>1. f = [n \in 0..Len(xs) |-> R(n)]
    BY DEF RecvRun
<1>2. R(0) = s /\ \A n \in 1..Len(xs) : R(n) = RecvCmd(c, f[n-1], xs[n])
    OBVIOUS
<1>3. Len(xs) \in Nat
    OBVIOUS
<1> HIDE DEF R
<1>4. \A n \in 0..Len(xs) : f[n] = R(n)
    BY <1>1
<1>5. 0 \in 0..Len(xs) /\ \A n \in 1..Len(xs) : n \in 0..Len(xs)
    BY <1>3
<1> QED BY <1>2, <1>4, <1>5 DEF RecvVals

LEMMA RecvIs ==
    ASSUME NEW c, NEW s, NEW S, NEW xs \in Seq(S), NEW f, RecvRun(f, c, s, xs)
    PROVE  RecvAll(c, s, xs) = f[Len(xs)]
<1> DEFINE h == CHOOSE e : RecvRun(e, c, s, xs)
<1>1. RecvRun(h, c, s, xs)
    OBVIOUS
<1>2. RecvAll(c, s, xs) = h[Len(xs)]
    BY DEF RecvAll, RecvRun
<1> HIDE DEF h
<1>3. Len(xs) \in Nat
    OBVIOUS
<1>4. RecvVals(h, c, s, xs)
    BY ONLY xs \in Seq(S), <1>1, RecvSteps, ZenonT(60)
<1>5. RecvVals(f, c, s, xs)
    BY RecvSteps
<1>6. \A n \in 1..Len(xs) : h[n-1] = f[n-1] => h[n] = f[n]
    BY <1>4, <1>5 DEF RecvVals
<1>7. \A n \in 0..Len(xs) : h[n] = f[n]
  <2> DEFINE G == {n \in 0..Len(xs) : h[n] = f[n]}
  <2>1. 0 \in G
    BY <1>3, <1>4, <1>5 DEF RecvVals
  <2>2. ASSUME NEW n \in 0..Len(xs), n < Len(xs), n \in G PROVE n + 1 \in G
    <3>1. n + 1 \in 1..Len(xs) /\ n + 1 \in 0..Len(xs) /\ (n + 1) - 1 = n
      BY <1>3, <2>2
    <3> QED BY <3>1, <2>2, <1>6
  <2> HIDE DEF G
  <2>3. \A n \in 0..Len(xs) : n \in G
    BY <1>3, <2>1, <2>2, Induct
  <2> QED BY <2>3 DEF G
<1> QED BY <1>2, <1>3, <1>7

LEMMA ApplyTo ==
    ASSUME NEW v, NEW S, NEW xs \in Seq(S), NEW T, NEW f \in [0..Len(xs) -> T],
           ApplyVals(f, v, xs)
    PROVE  ApplyAll(v, xs) = f[Len(xs)]
<1> DEFINE R(n) == IF n = 0 THEN v ELSE Apply(f[n-1], xs[n])
<1>1. Len(xs) \in Nat
    OBVIOUS
<1>2. ASSUME NEW n \in 0..Len(xs) PROVE f[n] = R(n)
  <2>1. CASE n = 0
    BY <2>1 DEF ApplyVals
  <2>2. CASE n \in 1..Len(xs)
    BY <2>2 DEF ApplyVals
  <2> QED BY <1>1, <2>1, <2>2
<1> HIDE DEF R
<1>3. f = [n \in 0..Len(xs) |-> R(n)]
    BY <1>2
<1>4. ApplyRun(f, v, xs)
    BY <1>3, Zenon DEF ApplyRun, R
<1> QED BY ONLY xs \in Seq(S), <1>4, ApplyIs, ZenonT(60)

LEMMA RecvTo ==
    ASSUME NEW c, NEW s, NEW S, NEW xs \in Seq(S), NEW T, NEW f \in [0..Len(xs) -> T],
           RecvVals(f, c, s, xs)
    PROVE  RecvAll(c, s, xs) = f[Len(xs)]
<1> DEFINE R(n) == IF n = 0 THEN s ELSE RecvCmd(c, f[n-1], xs[n])
<1>1. Len(xs) \in Nat
    OBVIOUS
<1>2. ASSUME NEW n \in 0..Len(xs) PROVE f[n] = R(n)
  <2>1. CASE n = 0
    BY <2>1 DEF RecvVals
  <2>2. CASE n \in 1..Len(xs)
    BY <2>2 DEF RecvVals
  <2> QED BY <1>1, <2>1, <2>2
<1> HIDE DEF R
<1>3. f = [n \in 0..Len(xs) |-> R(n)]
    BY <1>2
<1>4. RecvRun(f, c, s, xs)
    BY <1>3, Zenon DEF RecvRun, R
<1> QED BY ONLY xs \in Seq(S), <1>4, RecvIs, ZenonT(60)

LEMMA CmdCases ==
    ASSUME NEW x \in Cmds
    PROVE  \/ x.op = "F"
           \/ x.op = "S" /\ x.key \in Keys /\ x.value \in Values
           \/ x.op = "U" /\ x.key \in Keys
BY DEF Cmds, Flush, Set, Uns

\* A command makes a cell the same whatever it was, or leaves it as it was.
LEMMA Cell ==
    ASSUME NEW x \in Cmds, NEW v \in Rows
    PROVE  /\ Apply(v, x) \in Rows
           /\ \A w \in Rows, k \in Keys :
                 \/ Apply(v, x)[k] = Apply(w, x)[k]
                 \/ Apply(v, x)[k] = v[k] /\ Apply(w, x)[k] = w[k]
<1>1. CASE x.op = "F"
    BY <1>1 DEF Apply, Empty, Rows, Cells
<1>2. CASE x.op = "S" /\ x.key \in Keys /\ x.value \in Values
    BY <1>2 DEF Apply, Rows, Cells
<1>3. CASE x.op = "U" /\ x.key \in Keys
    BY <1>3 DEF Apply, Rows, Cells
<1> QED BY <1>1, <1>2, <1>3, CmdCases

LEMMA ApplyFun ==
    ASSUME NEW v \in Rows, NEW xs \in Seq(Cmds)
    PROVE  \E f \in [0..Len(xs) -> Rows] :
              ApplyVals(f, v, xs) /\ ApplyAll(v, xs) = f[Len(xs)]
<1>1. Len(xs) \in Nat /\ \A n \in 1..Len(xs) : xs[n] \in Cmds
    OBVIOUS
<1> DEFINE g == [n \in 1..Len(xs) |-> [u \in Rows |-> Apply(u, xs[n])]]
<1>2. \A n \in 1..Len(xs), u \in Rows : g[n][u] = Apply(u, xs[n])
    OBVIOUS
<1>3. g \in [1..Len(xs) -> [Rows -> Rows]]
    BY <1>1, Cell
<1> HIDE DEF g
<1>4. PICK f \in [0..Len(xs) -> Rows] : Chain(f, v, g, Len(xs))
    BY ONLY v \in Rows, Len(xs) \in Nat, <1>1, <1>3, Recursion, ZenonT(60)
<1>5. \A n \in 1..Len(xs) : n - 1 \in 0..Len(xs)
    BY <1>1
<1>6. ApplyVals(f, v, xs)
    BY <1>2, <1>4, <1>5 DEF ApplyVals, Chain
<1>7. ApplyAll(v, xs) = f[Len(xs)]
    BY ONLY xs \in Seq(Cmds), f \in [0..Len(xs) -> Rows], <1>6, ApplyTo, ZenonT(60)
<1> QED BY <1>6, <1>7

\* So does a sequence of commands.
LEMMA CellAll ==
    ASSUME NEW v \in Rows, NEW xs \in Seq(Cmds)
    PROVE  /\ ApplyAll(v, xs) \in Rows
           /\ \A w \in Rows, k \in Keys :
                 \/ ApplyAll(v, xs)[k] = ApplyAll(w, xs)[k]
                 \/ ApplyAll(v, xs)[k] = v[k] /\ ApplyAll(w, xs)[k] = w[k]
<1>1. Len(xs) \in Nat /\ \A n \in 1..Len(xs) : xs[n] \in Cmds
    OBVIOUS
<1>2. PICK f \in [0..Len(xs) -> Rows] : ApplyVals(f, v, xs) /\ ApplyAll(v, xs) = f[Len(xs)]
    BY ApplyFun
<1>3. ApplyAll(v, xs) \in Rows
    BY <1>1, <1>2
<1>4. ASSUME NEW w \in Rows, NEW k \in Keys
      PROVE  \/ ApplyAll(v, xs)[k] = ApplyAll(w, xs)[k]
             \/ ApplyAll(v, xs)[k] = v[k] /\ ApplyAll(w, xs)[k] = w[k]
  <2>1. PICK h \in [0..Len(xs) -> Rows] : ApplyVals(h, w, xs) /\ ApplyAll(w, xs) = h[Len(xs)]
    BY ApplyFun
  <2> DEFINE G == {n \in 0..Len(xs) : \/ f[n][k] = h[n][k]
                                      \/ f[n][k] = v[k] /\ h[n][k] = w[k]}
  <2>2. 0 \in G
    BY <1>1, <1>2, <2>1 DEF ApplyVals
  <2>3. ASSUME NEW n \in 0..Len(xs), n < Len(xs), n \in G PROVE n + 1 \in G
    <3>1. n + 1 \in 1..Len(xs) /\ n + 1 \in 0..Len(xs) /\ (n + 1) - 1 = n
      BY <1>1, <2>3
    <3>2. f[n+1] = Apply(f[n], xs[n+1]) /\ h[n+1] = Apply(h[n], xs[n+1])
      BY <1>2, <2>1, <3>1 DEF ApplyVals
    <3>3. \/ f[n+1][k] = h[n+1][k]
          \/ f[n+1][k] = f[n][k] /\ h[n+1][k] = h[n][k]
      <4>1. f[n] \in Rows /\ h[n] \in Rows /\ xs[n+1] \in Cmds
        BY <1>1, <3>1
      <4> QED BY <3>2, <4>1, Cell
    <3> QED BY <2>3, <3>1, <3>3
  <2> HIDE DEF G
  <2>4. \A n \in 0..Len(xs) : n \in G
    BY <1>1, <2>2, <2>3, Induct
  <2>5. Len(xs) \in G
    BY <1>1, <2>4
  <2> QED BY <1>2, <2>1, <2>5 DEF G
<1> QED BY <1>3, <1>4

\* What a client keeps while it goes through a message.
States   == [arr : Names \cup {Nobody}, ok : BOOLEAN, rep : Reps]
OkStates == {s \in States : s.ok = TRUE}
Done(a, r) == [arr |-> a, ok |-> TRUE, rep |-> r]

LEMMA AllCmdCases ==
    ASSUME NEW x \in AllCmds
    PROVE  \/ x.op = "A" /\ x.name \in Names
           \/ x.op # "A" /\ x \in Cmds
<1>1. CASE x \in Cmds
    BY <1>1, CmdCases
<1>2. ASSUME NEW a \in Names, x = Array(a) PROVE x.op = "A" /\ x.name \in Names
    BY <1>2 DEF Array
<1> QED BY <1>1, <1>2 DEF AllCmds

LEMMA RecvStep ==
    ASSUME NEW c, NEW s \in States, NEW x \in AllCmds
    PROVE  RecvCmd(c, s, x) \in States
<1>1. CASE x.op = "A" /\ x.name \in Names
    BY <1>1 DEF RecvCmd, States
<1>2. CASE x.op # "A" /\ x \in Cmds
  <2>1. CASE s.ok
    <3> DEFINE row == Apply(s.rep[s.arr], x)
               rep == [s.rep EXCEPT ![s.arr] = row]
    <3>1. RecvCmd(c, s, x) = [s EXCEPT !.rep = rep]
      BY <1>2, <2>1 DEF RecvCmd
    <3>2. rep \in Reps
      <4>1. CASE s.arr \in Names
        <5>1. s.rep \in Reps /\ s.rep[s.arr] \in Rows
          BY <4>1 DEF States, Reps
        <5>2. row \in Rows
          BY <1>2, <5>1, Cell
        <5> HIDE DEF row
        <5> QED BY <4>1, <5>1, <5>2 DEF Reps
      <4>2. CASE s.arr \notin Names
        <5> HIDE DEF row
        <5>1. s.rep \in Reps
          BY DEF States
        <5> QED BY <4>2, <5>1 DEF Reps
      <4> QED BY <4>1, <4>2
    <3> HIDE DEF rep
    <3> QED BY <3>1, <3>2 DEF States
  <2>2. CASE ~s.ok
    BY <1>2, <2>2 DEF RecvCmd
  <2> QED BY <2>1, <2>2
<1> QED BY <1>1, <1>2, AllCmdCases

LEMMA RecvFun ==
    ASSUME NEW c, NEW s \in States, NEW xs \in Seq(AllCmds)
    PROVE  \E f \in [0..Len(xs) -> States] :
              RecvVals(f, c, s, xs) /\ RecvAll(c, s, xs) = f[Len(xs)]
<1>1. Len(xs) \in Nat /\ \A n \in 1..Len(xs) : xs[n] \in AllCmds
    OBVIOUS
<1> DEFINE g == [n \in 1..Len(xs) |-> [u \in States |-> RecvCmd(c, u, xs[n])]]
<1>2. \A n \in 1..Len(xs), u \in States : g[n][u] = RecvCmd(c, u, xs[n])
    OBVIOUS
<1>3. g \in [1..Len(xs) -> [States -> States]]
    BY <1>1, RecvStep
<1> HIDE DEF g
<1>4. PICK f \in [0..Len(xs) -> States] : Chain(f, s, g, Len(xs))
    BY ONLY s \in States, <1>1, <1>3, Recursion, ZenonT(60)
<1>5. \A n \in 1..Len(xs) : n - 1 \in 0..Len(xs)
    BY <1>1
<1>6. RecvVals(f, c, s, xs)
    BY <1>2, <1>4, <1>5 DEF RecvVals, Chain
<1>7. RecvAll(c, s, xs) = f[Len(xs)]
    BY ONLY xs \in Seq(AllCmds), f \in [0..Len(xs) -> States], <1>6, RecvTo, ZenonT(60)
<1> QED BY <1>6, <1>7

LEMMA RecvType ==
    ASSUME NEW c, NEW s \in States, NEW xs \in Seq(AllCmds)
    PROVE  RecvAll(c, s, xs) \in States
<1>1. PICK f \in [0..Len(xs) -> States] : RecvAll(c, s, xs) = f[Len(xs)]
    BY RecvFun
<1> QED BY <1>1

\* Two messages in one.
LEMMA RecvConcat ==
    ASSUME NEW c, NEW s \in States, NEW xs \in Seq(AllCmds), NEW ys \in Seq(AllCmds)
    PROVE  RecvAll(c, s, xs \o ys) = RecvAll(c, RecvAll(c, s, xs), ys)
<1>1. Len(xs) \in Nat /\ Len(ys) \in Nat
    OBVIOUS
<1>2. /\ xs \o ys \in Seq(AllCmds) /\ Len(xs \o ys) = Len(xs) + Len(ys)
      /\ \A n \in 1..Len(xs) + Len(ys) :
            (xs \o ys)[n] = IF n <= Len(xs) THEN xs[n] ELSE ys[n - Len(xs)]
    OBVIOUS
<1>3. PICK f \in [0..Len(xs) -> States] :
         RecvVals(f, c, s, xs) /\ RecvAll(c, s, xs) = f[Len(xs)]
    BY RecvFun
<1>4. RecvAll(c, s, xs) \in States
    BY RecvType
<1>5. PICK h \in [0..Len(ys) -> States] :
         /\ RecvVals(h, c, RecvAll(c, s, xs), ys)
         /\ RecvAll(c, RecvAll(c, s, xs), ys) = h[Len(ys)]
    BY ONLY ys \in Seq(AllCmds), <1>4, RecvFun, ZenonT(60)
<1> DEFINE e == [n \in 0..Len(xs) + Len(ys) |->
                   IF n <= Len(xs) THEN f[n] ELSE h[n - Len(xs)]]
<1>6. e \in [0..Len(xs \o ys) -> States]
    BY <1>1, <1>2
<1>7. e[0] = s
    BY <1>1, <1>3 DEF RecvVals
<1>8. ASSUME NEW n \in 1..Len(xs) + Len(ys) PROVE e[n] = RecvCmd(c, e[n-1], (xs \o ys)[n])
  <2>1. CASE n <= Len(xs)
    <3>1. n \in 1..Len(xs) /\ e[n] = f[n] /\ e[n-1] = f[n-1] /\ (xs \o ys)[n] = xs[n]
      BY <1>1, <1>2, <2>1
    <3> QED BY <1>3, <3>1 DEF RecvVals
  <2>2. CASE n = Len(xs) + 1
    <3>1. 1 \in 1..Len(ys) /\ e[n] = h[1] /\ e[n-1] = f[Len(xs)] /\ (xs \o ys)[n] = ys[1]
      BY <1>1, <1>2, <2>2
    <3>2. h[0] = f[Len(xs)] /\ h[1] = RecvCmd(c, h[1-1], ys[1])
      BY <1>3, <1>5, <3>1 DEF RecvVals
    <3> QED BY <3>1, <3>2
  <2>3. CASE n > Len(xs) + 1
    <3> DEFINE m == n - Len(xs)
    <3>1. m \in 1..Len(ys) /\ e[n] = h[m] /\ e[n-1] = h[m-1] /\ (xs \o ys)[n] = ys[m]
      BY <1>1, <1>2, <2>3
    <3> HIDE DEF m
    <3> QED BY <1>5, <3>1 DEF RecvVals
  <2> QED BY <1>1, <2>1, <2>2, <2>3
<1>9. e[Len(xs) + Len(ys)] = h[Len(ys)]
  <2>1. CASE Len(ys) = 0
    BY <1>1, <1>3, <1>5, <2>1 DEF RecvVals
  <2>2. CASE Len(ys) # 0
    BY <1>1, <2>2
  <2> QED BY <2>1, <2>2
<1> HIDE DEF e
<1>10. RecvVals(e, c, s, xs \o ys)
    BY <1>2, <1>7, <1>8 DEF RecvVals
<1>11. RecvAll(c, s, xs \o ys) = e[Len(xs \o ys)]
    BY ONLY <1>2, <1>6, <1>10, RecvTo, ZenonT(60)
<1> QED BY <1>2, <1>5, <1>9, <1>11

\* The commands of one array change that array as they change it on the server.
LEMMA RecvOne ==
    ASSUME NEW c \in Clients, NEW a \in Linked[c], NEW s \in OkStates,
           NEW xs \in Seq(Cmds)
    PROVE  /\ <<Array(a)>> \o xs \in Seq(AllCmds)
           /\ RecvAll(c, s, <<Array(a)>> \o xs) =
                Done(a, [s.rep EXCEPT ![a] = ApplyAll(s.rep[a], xs)])
<1>1. a \in Names
    BY NvAssumption
<1>2. Array(a) \in AllCmds /\ Array(a).op = "A" /\ Array(a).name = a
    BY <1>1 DEF AllCmds, Array
<1>3. Len(xs) \in Nat /\ \A n \in 1..Len(xs) : xs[n] \in Cmds /\ xs[n].op # "A"
  <2>1. \A x \in Cmds : x.op # "A"
    BY CmdCases
  <2> QED BY <2>1
<1> DEFINE ys == <<Array(a)>> \o xs
<1>4. /\ Len(ys) = Len(xs) + 1 /\ ys[1] = Array(a)
      /\ \A n \in 1..Len(xs) : ys[n+1] = xs[n]
    BY <1>3
<1>5. ys \in Seq(AllCmds)
  <2>1. xs \in Seq(AllCmds)
    BY DEF AllCmds
  <2> QED BY <1>2, <2>1
<1> HIDE DEF ys
<1>6. /\ s \in States /\ s.rep \in Reps /\ s.rep[a] \in Rows /\ s.ok = TRUE
      /\ s = [arr |-> s.arr, ok |-> s.ok, rep |-> s.rep]
    BY <1>1 DEF OkStates, States, Reps
<1>7. PICK f \in [0..Len(xs) -> Rows] :
         ApplyVals(f, s.rep[a], xs) /\ ApplyAll(s.rep[a], xs) = f[Len(xs)]
    BY ONLY xs \in Seq(Cmds), <1>6, ApplyFun, ZenonT(60)
<1> DEFINE st(n) == [arr |-> a, ok |-> TRUE, rep |-> [s.rep EXCEPT ![a] = f[n]]]
           e == [n \in 0..Len(ys) |-> IF n = 0 THEN s ELSE st(n-1)]
<1>8. e \in [0..Len(ys) -> States]
  <2>1. \A n \in 0..Len(xs) : st(n) \in States
    BY <1>1, <1>3, <1>6, <1>7 DEF States, Reps
  <2> HIDE DEF st
  <2> QED BY <1>3, <1>4, <2>1
<1>9. e[0] = s /\ \A n \in 1..Len(ys) : e[n] = st(n-1)
    BY <1>3, <1>4
<1>10. ASSUME NEW n \in 1..Len(ys) PROVE e[n] = RecvCmd(c, e[n-1], ys[n])
  <2>1. CASE n = 1
    <3>1. e[n] = st(0) /\ e[n-1] = s /\ ys[n] = Array(a)
      BY <1>3, <1>4, <1>9, <2>1
    <3>2. RecvCmd(c, s, Array(a)) = [s EXCEPT !.arr = a]
      BY <1>2 DEF RecvCmd
    <3>3. f[0] = s.rep[a]
      BY <1>7 DEF ApplyVals
    <3>4. [s.rep EXCEPT ![a] = f[0]] = s.rep
      BY <1>6, <3>3 DEF Reps
    <3>5. st(0) = [s EXCEPT !.arr = a]
      <4>1. st(0) = [arr |-> a, ok |-> TRUE, rep |-> s.rep]
        BY <3>4
      <4> HIDE DEF st
      <4>2. [s EXCEPT !.arr = a] = [arr |-> a, ok |-> s.ok, rep |-> s.rep]
        BY <1>6
      <4> QED BY <1>6, <4>1, <4>2
    <3> HIDE DEF st, e
    <3> QED BY <3>1, <3>2, <3>5
  <2>2. CASE n # 1
    <3> DEFINE m == n - 1
    <3>1. m \in 1..Len(xs) /\ e[n] = st(m) /\ e[n-1] = st(m-1) /\ ys[n] = xs[m]
      <4> HIDE DEF st, e
      <4>1. m \in 1..Len(xs) /\ m \in 1..Len(ys) /\ m + 1 = n
        BY <1>3, <1>4, <2>2
      <4>2. e[n] = st(m) /\ e[m] = st(m-1) /\ ys[m+1] = xs[m]
        BY <1>4, <1>9, <4>1
      <4> QED BY <4>1, <4>2
    <3> HIDE DEF m, e
    <3>2. f[m] = Apply(f[m-1], xs[m]) /\ xs[m].op # "A"
      BY <1>3, <1>7, <3>1 DEF ApplyVals
    <3>3. RecvCmd(c, st(m-1), xs[m]) =
            [st(m-1) EXCEPT !.rep = [st(m-1).rep EXCEPT ![a] = Apply(st(m-1).rep[a], xs[m])]]
      BY <3>2 DEF RecvCmd
    <3>4. st(m-1).rep[a] = f[m-1]
      BY <1>1, <1>6 DEF Reps
    <3>5. [st(m-1).rep EXCEPT ![a] = f[m]] = [s.rep EXCEPT ![a] = f[m]]
      BY <1>1, <1>6 DEF Reps
    <3>6. [st(m-1) EXCEPT !.rep = [s.rep EXCEPT ![a] = f[m]]] = st(m)
      OBVIOUS
    <3> HIDE DEF st
    <3> QED BY <3>1, <3>2, <3>3, <3>4, <3>5, <3>6
  <2> QED BY <2>1, <2>2
<1>11. e[Len(ys)] = st(Len(xs))
    BY <1>3, <1>4, <1>9
<1> HIDE DEF e
<1>12. RecvVals(e, c, s, ys)
    BY <1>9, <1>10 DEF RecvVals
<1>13. RecvAll(c, s, ys) = e[Len(ys)]
    BY ONLY <1>5, <1>8, <1>12, RecvTo, ZenonT(60)
<1> QED BY <1>5, <1>7, <1>11, <1>13 DEF ys, Done

\* AppendReload: an array is made the same as the server's, whatever it was.
LEMMA ReloadRow ==
    ASSUME vars \in Reps, NEW a \in Names
    PROVE  \E xs \in Seq(Cmds) : /\ Reload(a) = <<Array(a)>> \o xs
                                 /\ \A v \in Rows : ApplyAll(v, xs) = vars[a]
<1> DEFINE K == {k \in Keys : vars[a][k] # Unset}
           row == vars[a]
<1>1. row \in Rows
    BY DEF Reps
<1>2. IsFiniteSet(K)
    BY NvAssumption, FS_Subset
<1> HIDE DEF K
<1>3. PICK ks : ks = SetToSeq(K)
    OBVIOUS
<1>4. /\ ks \in Seq(K) /\ Len(ks) \in Nat /\ \A j \in 1..Len(ks) : ks[j] \in K
      /\ \A k \in K : \E j \in 1..Len(ks) : ks[j] = k
  <2>1. /\ ks \in Seq(K) /\ Len(ks) = Cardinality(K)
        /\ \A k \in K : \E j \in 1..Cardinality(K) : ks[j] = k
    BY <1>2, <1>3, Listed
  <2> QED BY <2>1
<1> DEFINE n == Len(ks)
           sets == [j \in 1..n |-> Set(ks[j], row[ks[j]])]
           xs == <<Flush>> \o sets
<1>5. \A k \in K : k \in Keys /\ row[k] \in Values
    BY <1>1 DEF K, Rows, Cells
<1>6. sets \in Seq(Cmds) /\ Len(sets) = n
  <2>1. \A j \in 1..n : Set(ks[j], row[ks[j]]) \in Cmds
    BY <1>4, <1>5 DEF Cmds
  <2>2. sets \in [1..n -> Cmds]
    BY <2>1
  <2> QED BY <2>2, <1>4, SMTT(30)
<1>7. Flush \in Cmds
    BY DEF Cmds
<1>8. /\ xs \in Seq(Cmds) /\ Len(xs) = n + 1 /\ xs[1] = Flush
      /\ \A j \in 1..n : xs[j+1] = Set(ks[j], row[ks[j]])
  <2>1. \A j \in 1..n : sets[j] = Set(ks[j], row[ks[j]])
    OBVIOUS
  <2> HIDE DEF sets
  <2> QED BY <1>4, <1>6, <1>7, <2>1
<1>9. Reload(a) = <<Array(a)>> \o xs
  <2>1. Reload(a) = <<Array(a), Flush>> \o sets
    BY <1>3 DEF Reload, K
  <2>2. sets \in Seq(Cmds \cup {Array(a)})
    BY <1>6
  <2> HIDE DEF sets
  <2>3. <<Array(a), Flush>> \o sets = <<Array(a)>> \o (<<Flush>> \o sets)
    <3> DEFINE T == Cmds \cup {Array(a)}
               p == <<Array(a)>>
               q == <<Flush>>
    <3>1. p \in Seq(T) /\ q \in Seq(T) /\ sets \in Seq(T)
      BY <1>7, <2>2
    <3>2. p \o q = <<Array(a), Flush>>
      <4> DEFINE u == <<Array(a), Flush>>
      <4>1. u \in Seq(T) /\ Len(u) = 2 /\ u[1] = Array(a) /\ u[2] = Flush
        BY <1>7
      <4>2. Len(p) = 1 /\ Len(q) = 1 /\ p[1] = Array(a) /\ q[1] = Flush
        OBVIOUS
      <4> HIDE DEF u, p, q, T
      <4>3. p \o q \in Seq(T) /\ Len(p \o q) = 2 /\ (p \o q)[1] = p[1] /\ (p \o q)[2] = q[1]
        <5>1. /\ p \o q \in Seq(T) /\ Len(p \o q) = Len(p) + Len(q)
              /\ \A i \in 1..Len(p) + Len(q) :
                    (p \o q)[i] = IF i <= Len(p) THEN p[i] ELSE q[i - Len(p)]
          BY <3>1, ConcatProperties
        <5> QED BY <4>2, <5>1
      <4>4. p \o q = u
        BY <4>1, <4>2, <4>3
      <4> QED BY <4>4 DEF u
    <3> HIDE DEF p, q, T
    <3>3. (p \o q) \o sets = p \o (q \o sets)
      BY <3>1, ConcatAssociative
    <3> QED BY <3>2, <3>3 DEF p, q
  <2> QED BY <2>1, <2>3
<1> HIDE DEF sets, xs
<1>10. ASSUME NEW v \in Rows PROVE ApplyAll(v, xs) = row
  <2> DEFINE some(m) == [k \in Keys |-> IF \E j \in 1..m : ks[j] = k THEN row[k] ELSE Unset]
             f == [m \in 0..Len(xs) |-> IF m = 0 THEN v ELSE some(m-1)]
  <2>1. f \in [0..Len(xs) -> Rows]
    <3>1. \A m \in Nat : some(m) \in Rows
      BY <1>1 DEF Rows, Cells
    <3> HIDE DEF some
    <3> QED BY <1>4, <1>8, <3>1
  <2>2. f[0] = v /\ \A m \in 1..Len(xs) : f[m] = some(m-1)
    BY <1>4, <1>8
  <2> HIDE DEF f
  <2>3. ASSUME NEW m \in 1..Len(xs) PROVE f[m] = Apply(f[m-1], xs[m])
    <3>1. CASE m = 1
      <4>1. some(0) = Empty
        BY DEF Empty
      <4>2. Apply(v, Flush) = Empty
        BY DEF Apply, Flush
      <4> HIDE DEF some
      <4> QED BY <1>8, <2>2, <3>1, <4>1, <4>2
    <3>2. CASE m # 1
      <4> DEFINE i == m - 1
      <4>1. i \in 1..n /\ f[m] = some(i) /\ f[m-1] = some(i-1) /\ xs[m] = Set(ks[i], row[ks[i]])
        <5> HIDE DEF some
        <5>1. i \in 1..n /\ i + 1 = m /\ i \in 1..Len(xs)
          BY <1>4, <1>8, <3>2
        <5>2. f[m] = some(i) /\ f[i] = some(i-1) /\ xs[i+1] = Set(ks[i], row[ks[i]])
          BY <1>8, <2>2, <5>1
        <5> QED BY <5>1, <5>2
      <4> HIDE DEF i
      <4>2. Apply(some(i-1), xs[m]) = [some(i-1) EXCEPT ![ks[i]] = row[ks[i]]]
        BY <4>1 DEF Apply, Set
      <4>3. some(i) = [some(i-1) EXCEPT ![ks[i]] = row[ks[i]]]
        <5>1. \A j \in Int : j \in 1..i <=> j \in 1..i-1 \/ j = i
          BY <1>4, <4>1, SMTT(30)
        <5>2. i \in Int
          BY <4>1
        <5>3. ASSUME NEW k \in Keys PROVE some(i)[k] = [some(i-1) EXCEPT ![ks[i]] = row[ks[i]]][k]
          BY <5>1, <5>2
        <5> QED BY <5>3
      <4> QED BY <4>1, <4>2, <4>3
    <3> QED BY <3>1, <3>2
  <2>4. ApplyVals(f, v, xs)
    BY <2>2, <2>3 DEF ApplyVals
  <2>5. ApplyAll(v, xs) = f[Len(xs)]
    BY ONLY <1>8, <2>1, <2>4, ApplyTo, ZenonT(60)
  <2>6. some(n) = row
    <3>1. \A k \in Keys : some(n)[k] = row[k]
      BY <1>4, <1>5 DEF K
    <3> QED BY <1>1, <3>1 DEF Rows
  <2> HIDE DEF some
  <2>7. n + 1 \in 1..Len(xs) /\ (n + 1) - 1 = n
    BY <1>4, <1>8
  <2>8. f[n + 1] = some(n)
    BY <2>2, <2>7
  <2> QED BY <1>8, <2>5, <2>6, <2>8
<1> QED BY <1>8, <1>9, <1>10

LEMMA RecvReload ==
    ASSUME vars \in Reps, NEW c \in Clients, NEW a \in Linked[c],
           NEW s \in OkStates
    PROVE  /\ Reload(a) \in Seq(AllCmds)
           /\ RecvAll(c, s, Reload(a)) = Done(a, [s.rep EXCEPT ![a] = vars[a]])
<1>1. a \in Names
    BY NvAssumption
<1>2. PICK xs \in Seq(Cmds) : /\ Reload(a) = <<Array(a)>> \o xs
                              /\ \A v \in Rows : ApplyAll(v, xs) = vars[a]
    BY <1>1, ReloadRow
<1>3. s.rep[a] \in Rows
    BY <1>1 DEF OkStates, States, Reps
<1>4. ApplyAll(s.rep[a], xs) = vars[a]
    BY <1>2, <1>3
<1>5. /\ <<Array(a)>> \o xs \in Seq(AllCmds)
      /\ RecvAll(c, s, <<Array(a)>> \o xs) =
           Done(a, [s.rep EXCEPT ![a] = ApplyAll(s.rep[a], xs)])
    BY ONLY c \in Clients, a \in Linked[c], s \in OkStates,
            xs \in Seq(Cmds), RecvOne, ZenonT(60)
<1> QED BY <1>2, <1>4, <1>5

LEMMA ReloadType ==
    ASSUME vars \in Reps, NEW a \in Names
    PROVE  Reload(a) \in Seq(AllCmds)
<1>1. PICK xs \in Seq(Cmds) : Reload(a) = <<Array(a)>> \o xs
    BY ReloadRow
<1>2. xs \in Seq(AllCmds) /\ Array(a) \in AllCmds
    BY DEF AllCmds
<1> QED BY <1>1, <1>2

\* ClientInitMsg goes through the arrays.
CurRun(f) == f = [n \in 0..Len(Arrays) |-> IF n = 0 THEN <<>> ELSE f[n-1] \o Reload(Arrays[n])]

CurVals(f) == /\ f[0] = <<>>
              /\ \A n \in 1..Len(Arrays) : f[n] = f[n-1] \o Reload(Arrays[n])

LEMMA CurSteps ==
    ASSUME NEW f, CurRun(f)
    PROVE  CurVals(f)
<1> DEFINE Q(n) == f[n-1] \o Reload(Arrays[n])
           R(n) == IF n = 0 THEN <<>> ELSE Q(n)
<1>1. f = [n \in 0..Len(Arrays) |-> R(n)]
    BY DEF CurRun
<1>2. R(0) = <<>> /\ \A n \in 1..Len(Arrays) : R(n) = Q(n)
  <2> HIDE DEF Q
  <2> QED OBVIOUS
<1>3. Len(Arrays) \in Nat
    BY NvAssumption
<1> HIDE DEF R
<1>4. \A n \in 0..Len(Arrays) : f[n] = R(n)
    BY <1>1
<1>5. 0 \in 0..Len(Arrays) /\ \A n \in 1..Len(Arrays) : n \in 0..Len(Arrays)
    BY <1>3
<1> QED BY <1>2, <1>4, <1>5 DEF CurVals

LEMMA ArraysAreNames ==
    /\ Len(Arrays) \in Nat /\ \A n \in 1..Len(Arrays) : Arrays[n] \in Names
    /\ \A a \in Names : \E n \in 1..Len(Arrays) : Arrays[n] = a
<1>1. Len(Arrays) \in Nat /\ DOMAIN Arrays = 1..Len(Arrays)
    BY NvAssumption
<1> QED BY <1>1 DEF Names, ToSet

LEMMA CurFun ==
    ASSUME vars \in Reps
    PROVE  \E f \in [0..Len(Arrays) -> Seq(AllCmds)] :
              CurVals(f) /\ Current = f[Len(Arrays)]
<1>1. Len(Arrays) \in Nat /\ \A n \in 1..Len(Arrays) : Reload(Arrays[n]) \in Seq(AllCmds)
    BY ArraysAreNames, ReloadType
<1> DEFINE N == Len(Arrays)
           S == Seq(AllCmds)
           g == [n \in 1..N |-> [u \in S |-> u \o Reload(Arrays[n])]]
<1>2. \A n \in 1..N, u \in S : g[n][u] = u \o Reload(Arrays[n])
    OBVIOUS
<1>3. \A n \in 1..N, u \in S : u \o Reload(Arrays[n]) \in S
    BY <1>1
<1>4. g \in [1..N -> [S -> S]]
    BY <1>3
<1>5. <<>> \in S
    OBVIOUS
<1> HIDE DEF g
<1>6. PICK f \in [0..N -> S] : Chain(f, <<>>, g, N)
    BY ONLY N \in Nat, <1>1, <1>4, <1>5, Recursion, ZenonT(60)
<1>7. \A n \in 1..N : n - 1 \in 0..N
    BY <1>1
<1> HIDE DEF S
<1>8. CurVals(f)
    BY <1>2, <1>6, <1>7 DEF CurVals, Chain
<1>9. CurRun(f)
  <2> DEFINE R(n) == IF n = 0 THEN <<>> ELSE f[n-1] \o Reload(Arrays[n])
  <2>1. ASSUME NEW n \in 0..N PROVE f[n] = R(n)
    <3>1. CASE n = 0
      BY <1>8, <3>1 DEF CurVals
    <3>2. CASE n \in 1..N
      BY <1>8, <3>2 DEF CurVals
    <3> QED BY <1>1, <3>1, <3>2
  <2> HIDE DEF R
  <2>2. f = [n \in 0..Len(Arrays) |-> R(n)]
    BY <2>1
  <2> QED BY <2>2, Zenon DEF CurRun, R
<1> DEFINE h == CHOOSE e : CurRun(e)
<1>10. CurRun(h)
    BY <1>9
<1>11. Current = h[N]
    BY Zenon DEF Current, CurRun
<1> HIDE DEF h
<1>12. CurVals(h)
    BY ONLY <1>10, CurSteps, ZenonT(60)
<1> DEFINE G == {n \in 0..N : h[n] = f[n]}
<1>13. 0 \in G
    BY <1>1, <1>8, <1>12 DEF CurVals
<1>14. ASSUME NEW n \in 0..N, n < N, n \in G PROVE n + 1 \in G
  <2>1. n + 1 \in 1..N /\ n + 1 \in 0..N /\ (n + 1) - 1 = n
    BY <1>1, <1>14
  <2>2. h[n+1] = h[n] \o Reload(Arrays[n+1]) /\ f[n+1] = f[n] \o Reload(Arrays[n+1])
    BY <2>1, <1>8, <1>12 DEF CurVals
  <2> QED BY <2>1, <2>2, <1>14
<1>15. \A n \in 0..N : n \in G
  <2> HIDE DEF G
  <2> QED BY <1>1, <1>13, <1>14, Induct
<1>16. h[N] = f[N]
    BY <1>1, <1>15
<1> QED BY <1>8, <1>11, <1>16 DEF S

LEMMA CurrentType ==
    ASSUME vars \in Reps
    PROVE  Current \in Seq(AllCmds)
<1>1. PICK f \in [0..Len(Arrays) -> Seq(AllCmds)] : Current = f[Len(Arrays)]
    BY CurFun
<1>2. Len(Arrays) \in 0..Len(Arrays)
    BY ArraysAreNames
<1> QED BY <1>1, <1>2

LEMMA RecvNone ==
    ASSUME NEW c, NEW s
    PROVE  RecvAll(c, s, <<>>) = s
<1> DEFINE f == [n \in 0..0 |-> s]
<1>1. f \in [0..Len(<<>>) -> {s}] /\ f[0] = s
    OBVIOUS
<1>2. RecvVals(f, c, s, <<>>)
    BY DEF RecvVals
<1>3. <<>> \in Seq({s})
    OBVIOUS
<1> HIDE DEF f
<1>4. RecvAll(c, s, <<>>) = f[Len(<<>>)]
    BY ONLY <1>1, <1>2, <1>3, RecvTo, ZenonT(60)
<1> QED BY <1>1, <1>4

LEMMA FreshOk == \A r \in Reps : Fresh(r) \in OkStates /\ Fresh(r).rep = r
BY DEF Fresh, OkStates, States

\* The message it makes brings any client up to date.
LEMMA CurrentBrings ==
    ASSUME vars \in Reps, \A c \in Clients : Linked[c] = Names
    PROVE  Brings(Current, vars)
<1> SUFFICES ASSUME NEW c \in Clients, NEW r \in Reps
             PROVE  /\ RecvAll(c, Fresh(r), Current).ok
                    /\ RecvAll(c, Fresh(r), Current).rep = vars
    BY DEF Brings
<1> DEFINE N == Len(Arrays)
<1>1. PICK f \in [0..N -> Seq(AllCmds)] : CurVals(f) /\ Current = f[N]
    BY CurFun
<1>2. N \in Nat
    BY ArraysAreNames
<1> DEFINE st(n) == RecvAll(c, Fresh(r), f[n])
           Has(s, n) == \A a \in Names : s.rep[a] =
                           IF \E j \in 1..n : Arrays[j] = a THEN vars[a] ELSE r[a]
           G == {n \in 0..N : st(n) \in OkStates /\ Has(st(n), n)}
<1>3. 0 \in G
  <2>1. st(0) = Fresh(r)
    BY <1>1, RecvNone DEF CurVals
  <2> QED BY <1>2, <2>1, FreshOk
<1>4. ASSUME NEW n \in 0..N, n < N, n \in G PROVE n + 1 \in G
  <2>1. n + 1 \in 1..N /\ n + 1 \in 0..N /\ (n + 1) - 1 = n
    BY <1>2, <1>4
  <2> DEFINE b == Arrays[n+1]
  <2>2. b \in Linked[c] /\ b \in Names
    BY <2>1, ArraysAreNames
  <2>3. f[n+1] = f[n] \o Reload(b)
    BY <1>1, <2>1 DEF CurVals
  <2>4. st(n) \in OkStates /\ Has(st(n), n)
    BY <1>4
  <2>5. Reload(b) \in Seq(AllCmds)
    BY <2>2, ReloadType
  <2>6. f[n] \in Seq(AllCmds) /\ Fresh(r) \in States
    BY FreshOk DEF OkStates
  <2> HIDE DEF b
  <2>7. st(n+1) = RecvAll(c, st(n), Reload(b))
    <3>1. RecvAll(c, Fresh(r), f[n] \o Reload(b)) = RecvAll(c, RecvAll(c, Fresh(r), f[n]), Reload(b))
      BY ONLY <2>5, <2>6, RecvConcat, ZenonT(60)
    <3> QED BY <2>3, <3>1
  <2> HIDE DEF st
  <2>8. RecvAll(c, st(n), Reload(b)) = Done(b, [st(n).rep EXCEPT ![b] = vars[b]])
    BY ONLY vars \in Reps, c \in Clients, <2>2, <2>4, RecvReload, ZenonT(60)
  <2>9. st(n).rep \in Reps /\ vars[b] \in Rows
    BY <2>2, <2>4 DEF OkStates, States, Reps
  <2>10. st(n+1).rep = [st(n).rep EXCEPT ![b] = vars[b]]
    BY <2>7, <2>8 DEF Done
  <2>11. st(n+1) \in OkStates
    <3> DEFINE e == [st(n).rep EXCEPT ![b] = vars[b]]
    <3>1. e \in Reps
      BY <2>9 DEF Reps
    <3>2. st(n+1) = Done(b, e)
      BY <2>7, <2>8
    <3> HIDE DEF e
    <3> QED BY <2>2, <3>1, <3>2 DEF Done, OkStates, States
  <2>12. ASSUME NEW a \in Names
         PROVE  st(n+1).rep[a] = IF \E j \in 1..n+1 : Arrays[j] = a THEN vars[a] ELSE r[a]
    <3>1. \A j \in Int : j \in 1..n+1 <=> (j \in 1..n \/ j = n + 1)
      BY <2>1
    <3>2. st(n+1).rep[a] = IF a = b THEN vars[b] ELSE st(n).rep[a]
      BY <2>9, <2>10 DEF Reps
    <3>3. st(n).rep[a] = IF \E j \in 1..n : Arrays[j] = a THEN vars[a] ELSE r[a]
      BY <2>4
    <3>4. CASE a = b
      BY <2>1, <3>2, <3>4 DEF b
    <3>5. CASE a # b
      <4>1. (\E j \in 1..n+1 : Arrays[j] = a) <=> \E j \in 1..n : Arrays[j] = a
        BY <3>1, <3>5 DEF b
      <4> QED BY <3>2, <3>3, <3>5, <4>1
    <3> QED BY <3>4, <3>5
  <2> QED BY <2>1, <2>11, <2>12
<1>5. \A n \in 0..N : n \in G
  <2> HIDE DEF G
  <2> QED BY <1>2, <1>3, <1>4, Induct
<1>6. st(N) \in OkStates /\ Has(st(N), N)
    BY <1>2, <1>5
<1>7. RecvAll(c, Fresh(r), Current) = st(N)
    BY <1>1
<1> HIDE DEF st
<1>8. st(N).ok = TRUE /\ st(N).rep \in Reps
    BY <1>6 DEF OkStates, States
<1>9. \A a \in Names : st(N).rep[a] = vars[a]
    BY <1>6, ArraysAreNames
<1>10. st(N).rep = vars
    BY <1>8, <1>9 DEF Reps
<1> QED BY <1>7, <1>8, <1>10

-----------------------------------------------------------------------------
(* The types.                                                              *)

Actions == \/ \E t \in Threads, a \in Names :
                 \/ \E xs \in Seq(Cmds) : Change(t, a, xs)
                 \/ BroadcastUpdates(t, a)
           \/ InitLock \/ InitBuild \/ StatsLock \/ StatsRead
           \/ \E c \in Clients : Connect(c) \/ Lose(c) \/ Restart(c)
           \/ \E k \in Conns, m \in Msgs \cup {InitMsg} : RecvUpdate(k, m)

\* Every command is a Change with a sequence of commands.
LEMMA CommandChanges ==
    ASSUME vars \in Reps, NEW t \in Threads, NEW a \in Names, Command(t, a)
    PROVE  \E xs \in Seq(Cmds) : Change(t, a, xs)
<1>1. vars[a] \in Rows
    BY DEF Reps
<1>2. \A k \in Keys, v \in Values : <<Set(k, v)>> \in Seq(Cmds)
  <2>1. \A k \in Keys, v \in Values : Set(k, v) \in Cmds
    BY DEF Cmds
  <2> QED BY <2>1
<1>3. \A k \in Keys : <<Uns(k)>> \in Seq(Cmds)
  <2>1. \A k \in Keys : Uns(k) \in Cmds
    BY DEF Cmds
  <2> QED BY <2>1
<1>4. <<Flush>> \in Seq(Cmds) /\ <<>> \in Seq(Cmds)
  <2>1. Flush \in Cmds
    BY DEF Cmds
  <2> QED BY <2>1
<1>5. ASSUME NEW K \in SUBSET Keys
      PROVE  /\ Cardinality(K) \in Nat
             /\ \A j \in 1..Cardinality(K) : SetToSeq(K)[j] \in Keys
  <2>1. IsFiniteSet(K)
    BY NvAssumption, FS_Subset
  <2> QED BY <2>1, Listed
<1>6. CASE NvSetCmd(t, a)
    BY <1>2, <1>6 DEF NvSetCmd
<1>7. CASE NvCSetCmd(t, a)
    BY <1>2, <1>7 DEF NvCSetCmd
<1>8. CASE NvIncrCmd(t, a)
  <2>1. PICK k \in Keys : /\ vars[a][k] \in 0..MaxValue-1
                          /\ Change(t, a, <<Set(k, vars[a][k] + 1)>>)
    BY <1>8 DEF NvIncrCmd
  <2>2. vars[a][k] + 1 \in Values
    BY <2>1, NvAssumption DEF Values
  <2> QED BY <1>2, <2>1, <2>2
<1>9. CASE NvUnsetCmd(t, a)
    BY <1>3, <1>9 DEF NvUnsetCmd
<1>10. CASE NvFlushCmd(t, a)
  <2>1. CASE Change(t, a, <<Flush>>)
    BY <1>4, <2>1
  <2>2. ASSUME NEW K \in SUBSET Keys,
               Change(t, a, [j \in 1..Cardinality(K) |-> Uns(SetToSeq(K)[j])])
        PROVE  \E xs \in Seq(Cmds) : Change(t, a, xs)
    <3> DEFINE xs == [j \in 1..Cardinality(K) |-> Uns(SetToSeq(K)[j])]
    <3>1. xs \in [1..Cardinality(K) -> Cmds]
      BY <1>5 DEF Cmds
    <3>2. xs \in Seq(Cmds)
      BY <1>5, <3>1
    <3>3. Change(t, a, xs)
      BY <2>2
    <3> HIDE DEF xs
    <3> QED BY <3>2, <3>3
  <2> QED BY <1>10, <2>1, <2>2 DEF NvFlushCmd
<1>11. CASE NvLoadCmd(t, a)
  <2>1. PICK pre \in {<<>>, <<Flush>>}, K \in SUBSET Keys, v \in Values :
           Change(t, a, pre \o [j \in 1..Cardinality(K) |-> Set(SetToSeq(K)[j], v)])
    BY <1>11 DEF NvLoadCmd
  <2> DEFINE sets == [j \in 1..Cardinality(K) |-> Set(SetToSeq(K)[j], v)]
  <2>2. sets \in [1..Cardinality(K) -> Cmds]
    BY <1>5 DEF Cmds
  <2>3. sets \in Seq(Cmds)
    BY <1>5, <2>2
  <2>4. Change(t, a, pre \o sets)
    BY <2>1
  <2> HIDE DEF sets
  <2>5. pre \in Seq(Cmds)
    BY <1>4, <2>1
  <2>6. pre \o sets \in Seq(Cmds)
    BY <2>3, <2>5
  <2> QED BY <2>4, <2>6
<1> QED BY <1>6, <1>7, <1>8, <1>9, <1>10, <1>11 DEF Command

LEMMA NextActions ==
    ASSUME vars \in Reps, Next
    PROVE  Actions
BY CommandChanges DEF Next, Actions, Receive

LEMMA TypeInit ==
    ASSUME Init
    PROVE  TypeInv
<1>1. MasterType
  <2>1. init = <<>> /\ <<>> \in Seq(AllCmds) /\ <<>> \in Seq(Cmds)
    BY DEF Init
  <2>2. vars \in Reps
    BY NvAssumption DEF Init, Reps, Rows, Cells
  <2>3. log \in [Names -> Seq(Cmds)]
    BY <2>1 DEF Init
  <2> QED BY <2>1, <2>2, <2>3 DEF Init, MasterType
<1>2. BcastType
  <2>1. who \in Clients
    BY NvAssumption DEF Init
  <2> QED BY <2>1, ArraysAreNames, NvAssumption DEF Init, BcastType
<1>3. ClientType
  <2>1. [a \in Names |-> Empty] \in Reps
    BY DEF Reps, Rows, Cells, Empty
  <2> QED BY <2>1, NvAssumption, LogAssumption DEF Init, ClientType
<1>4. MsgType
  <2>1. <<>> \in Seq(Msgs \cup {InitMsg}) /\ <<>> \in Seq(Seq(AllCmds)) /\ <<>> \in Seq(AllCmds)
    OBVIOUS
  <2>2. vars \in Reps
    BY <1>1 DEF MasterType
  <2>3. hist \in Seq(Reps) /\ Len(hist) = 1
    BY <2>2 DEF Init
  <2>4. length \in 0..MaxMsgs /\ length = 0 /\ snap \in [Conns -> 0..NoSnap]
    BY LogAssumption DEF Init, LogInit, NoSnap
  <2>5. /\ given \in [Conns -> Seq(Msgs \cup {InitMsg})] /\ first \in [Conns -> Seq(AllCmds)]
        /\ body \in Seq(Seq(AllCmds)) /\ Len(body) = 0
    BY <2>1 DEF Init, LogInit
  <2> QED BY <2>3, <2>4, <2>5 DEF MsgType
<1>5. LockInv
    BY NvAssumption DEF Init, LockInv
<1> QED BY <1>1, <1>2, <1>3, <1>4, <1>5 DEF TypeInv

LEMMA TypeChange ==
    ASSUME TypeInv, NEW t \in Threads, NEW a \in Names, NEW xs \in Seq(Cmds),
           Change(t, a, xs)
    PROVE  TypeInv'
<1>1. MasterType /\ BcastType /\ ClientType /\ MsgType /\ LockInv
    BY DEF TypeInv
<1>2. /\ pc[t] = "idle" /\ owner[a] = Nobody
      /\ vars' = [vars EXCEPT ![a] = ApplyAll(vars[a], xs)]
      /\ log' = [log EXCEPT ![a] = log[a] \o xs]
      /\ dirty' = [dirty EXCEPT ![a] = Dirty(a, xs)]
      /\ owner' = [owner EXCEPT ![a] = t] /\ pc' = [pc EXCEPT ![t] = "update"]
      /\ UNCHANGED <<init, bcastVars, clientVars, msgVars, logVars>>
    BY DEF Change, Lockable
<1>3. MasterType'
  <2>1. vars' \in Reps
    <3>1. vars[a] \in Rows
      BY <1>1 DEF MasterType, Reps
    <3>2. ApplyAll(vars[a], xs) \in Rows
      BY ONLY <3>1, xs \in Seq(Cmds), CellAll, ZenonT(60)
    <3> QED BY <1>1, <1>2, <3>2 DEF MasterType, Reps
  <2>2. log' \in [Names -> Seq(Cmds)]
    <3>1. log[a] \o xs \in Seq(Cmds)
      BY <1>1 DEF MasterType
    <3> QED BY <1>1, <1>2, <3>1 DEF MasterType
  <2>3. dirty' \in [Names -> BOOLEAN]
    <3>1. Dirty(a, xs) \in BOOLEAN
      BY <1>1, Zenon DEF MasterType, Dirty
    <3> QED BY <1>1, <1>2, <3>1 DEF MasterType
  <2>4. owner' \in [Names -> Threads \cup {Nobody, Bcast}] /\ pc' \in [Threads -> {"idle", "update"}]
    BY <1>1, <1>2 DEF MasterType
  <2>5. init' \in Seq(AllCmds)
    BY <1>1, <1>2 DEF MasterType
  <2> QED BY <2>1, <2>2, <2>3, <2>4, <2>5 DEF MasterType
<1>4. BcastType' /\ ClientType'
    BY <1>1, <1>2 DEF BcastType, ClientType, bcastVars, clientVars
<1>5. MsgType'
    BY <1>1, <1>2 DEF MsgType, msgVars, logVars
<1>6. LockInv'
  <2>1. nlocked' = nlocked /\ nlocked \in 0..Len(Arrays)
    BY <1>1, <1>2 DEF BcastType, bcastVars
  <2>2. t # Nobody /\ Bcast # Nobody
    BY NvAssumption
  <2>3. /\ owner \in [Names -> Threads \cup {Nobody, Bcast}]
        /\ pc \in [Threads -> {"idle", "update"}]
    BY <1>1 DEF MasterType
  <2>4. \A b \in Names : owner'[b] = IF b = a THEN t ELSE owner[b]
    BY <1>2, <2>3
  <2>5. \A u \in Threads : pc'[u] = IF u = t THEN "update" ELSE pc[u]
    BY <1>2, <2>3
  <2>6. \A u \in Threads : pc[u] = "update" <=> \E b \in Names : owner[b] = u
    BY <1>1 DEF LockInv
  <2>7. \A b \in Names : owner[b] # t
    BY <1>2, <2>6
  <2>8. \A u \in Threads : u # Nobody
    BY NvAssumption
  <2>9. \A u \in Threads : pc'[u] = "update" <=> \E b \in Names : owner'[b] = u
    BY <1>2, <2>4, <2>5, <2>6, <2>8
  <2>10. ASSUME NEW b \in Names, NEW d \in Names, owner'[b] \in Threads, owner'[d] = owner'[b]
         PROVE  b = d
    BY <1>1, <2>4, <2>7, <2>10 DEF LockInv
  <2>11. ASSUME NEW j \in 1..nlocked PROVE owner'[Arrays[j]] = Bcast
    <3>1. Arrays[j] \in Names /\ owner[Arrays[j]] = Bcast
      BY <1>1, <2>1, ArraysAreNames DEF LockInv
    <3> QED BY <1>2, <2>2, <2>4, <3>1
  <2> QED BY <2>1, <2>9, <2>10, <2>11 DEF LockInv
<1> QED BY <1>3, <1>4, <1>5, <1>6 DEF TypeInv

\* What BroadcastUpdates changes.
LEMMA Broadcasts ==
    ASSUME MasterType, MsgType, NEW t \in Threads, NEW a \in Names, BroadcastUpdates(t, a)
    PROVE  /\ length' = length + 1 /\ length' \in 0..MaxMsgs
           /\ <<Array(a)>> \o log[a] \in Seq(AllCmds)
           /\ body' \in Seq(Seq(AllCmds)) /\ Len(body') = length'
           /\ \A m \in 1..length : body'[m] = body[m]
           /\ body'[length'] = <<Array(a)>> \o log[a]
           /\ [hist[length + 1] EXCEPT ![a] = vars[a]] \in Reps
           /\ hist' \in Seq(Reps) /\ Len(hist') = length' + 1
           /\ \A m \in 1..length + 1 : hist'[m] = hist[m]
           /\ hist'[length' + 1] = [hist[length + 1] EXCEPT ![a] = vars[a]]
<1>1. /\ length < MaxMsgs /\ length' = length + 1
      /\ body' = Append(body, <<Array(a)>> \o log[a])
      /\ hist' = Append(hist, [hist[Len(hist)] EXCEPT ![a] = vars[a]])
    BY DEF BroadcastUpdates, Publish
<1>2. /\ length \in 0..MaxMsgs /\ MaxMsgs \in Nat
      /\ body \in Seq(Seq(AllCmds)) /\ Len(body) = length
      /\ hist \in Seq(Reps) /\ Len(hist) = length + 1
    BY LogAssumption DEF MsgType
<1>3. <<Array(a)>> \o log[a] \in Seq(AllCmds)
  <2>1. log[a] \in Seq(AllCmds)
    BY DEF MasterType, AllCmds
  <2>2. Array(a) \in AllCmds
    BY DEF AllCmds
  <2> QED BY <2>1, <2>2
<1>4. [hist[length + 1] EXCEPT ![a] = vars[a]] \in Reps
  <2>1. hist[length + 1] \in Reps
    BY <1>2
  <2>2. vars[a] \in Rows
    BY DEF MasterType, Reps
  <2> QED BY <2>1, <2>2 DEF Reps
<1> DEFINE x == <<Array(a)>> \o log[a]
           h == [hist[length + 1] EXCEPT ![a] = vars[a]]
<1>5. /\ x \in Seq(AllCmds) /\ h \in Reps
      /\ body' = Append(body, x) /\ hist' = Append(hist, h)
    BY <1>1, <1>2, <1>3, <1>4
<1> HIDE DEF x, h
<1>6. length' \in 0..MaxMsgs
    BY <1>1, <1>2
<1>7. /\ body' \in Seq(Seq(AllCmds)) /\ Len(body') = length + 1
      /\ \A m \in 1..length : body'[m] = body[m]
      /\ body'[length + 1] = x
    BY <1>2, <1>5
<1>8. /\ hist' \in Seq(Reps) /\ Len(hist') = length + 2
      /\ \A m \in 1..length + 1 : hist'[m] = hist[m]
      /\ hist'[length + 2] = h
    BY <1>2, <1>5
<1>9. (length + 1) + 1 = length + 2
    BY <1>2
<1> QED BY <1>1, <1>3, <1>4, <1>6, <1>7, <1>8, <1>9 DEF x, h

LEMMA TypeBroadcast ==
    ASSUME TypeInv, NEW t \in Threads, NEW a \in Names, BroadcastUpdates(t, a)
    PROVE  TypeInv'
<1>1. MasterType /\ BcastType /\ ClientType /\ MsgType /\ LockInv
    BY DEF TypeInv
<1>2. /\ owner[a] = t /\ log' = [log EXCEPT ![a] = <<>>]
      /\ owner' = [owner EXCEPT ![a] = Nobody] /\ pc' = [pc EXCEPT ![t] = "idle"]
      /\ UNCHANGED <<vars, dirty, init, bcastVars, clientVars, first, given, snap>>
    BY DEF BroadcastUpdates, Publish
<1>3. MasterType'
  <2>1. log' \in [Names -> Seq(Cmds)]
    <3>1. <<>> \in Seq(Cmds)
      OBVIOUS
    <3> QED BY <1>1, <1>2, <3>1 DEF MasterType
  <2>2. owner' \in [Names -> Threads \cup {Nobody, Bcast}] /\ pc' \in [Threads -> {"idle", "update"}]
    BY <1>1, <1>2 DEF MasterType
  <2>3. vars' \in Reps /\ dirty' \in [Names -> BOOLEAN] /\ init' \in Seq(AllCmds)
    BY <1>1, <1>2 DEF MasterType
  <2> QED BY <2>1, <2>2, <2>3 DEF MasterType
<1>4. BcastType' /\ ClientType'
    BY <1>1, <1>2 DEF BcastType, ClientType, bcastVars, clientVars
<1>5. MsgType'
  <2>1. /\ length' \in 0..MaxMsgs /\ body' \in Seq(Seq(AllCmds)) /\ Len(body') = length'
        /\ hist' \in Seq(Reps) /\ Len(hist') = length' + 1
    BY <1>1, Broadcasts
  <2>2. /\ snap' \in [Conns -> 0..NoSnap] /\ given' \in [Conns -> Seq(Msgs \cup {InitMsg})]
        /\ first' \in [Conns -> Seq(AllCmds)]
    BY <1>1, <1>2 DEF MsgType
  <2> QED BY <2>1, <2>2 DEF MsgType
<1>6. LockInv'
  <2>1. nlocked' = nlocked /\ nlocked \in 0..Len(Arrays)
    BY <1>1, <1>2 DEF BcastType, bcastVars
  <2>2. /\ owner \in [Names -> Threads \cup {Nobody, Bcast}]
        /\ pc \in [Threads -> {"idle", "update"}]
    BY <1>1 DEF MasterType
  <2>3. \A b \in Names : owner'[b] = IF b = a THEN Nobody ELSE owner[b]
    BY <1>2, <2>2
  <2>4. \A u \in Threads : pc'[u] = IF u = t THEN "idle" ELSE pc[u]
    BY <1>2, <2>2
  <2>5. \A u \in Threads : pc[u] = "update" <=> \E b \in Names : owner[b] = u
    BY <1>1 DEF LockInv
  <2>6. \A b \in Names : owner[b] = t => b = a
    BY <1>1, <1>2 DEF LockInv
  <2>7. Nobody \notin Threads /\ Bcast \notin Threads /\ Bcast # Nobody
    BY NvAssumption
  <2>8. \A u \in Threads : pc'[u] = "update" <=> \E b \in Names : owner'[b] = u
    BY <1>2, <2>3, <2>4, <2>5, <2>6, <2>7
  <2>9. ASSUME NEW b \in Names, NEW d \in Names, owner'[b] \in Threads, owner'[d] = owner'[b]
        PROVE  b = d
    BY <1>1, <2>3, <2>7, <2>9 DEF LockInv
  <2>10. ASSUME NEW j \in 1..nlocked PROVE owner'[Arrays[j]] = Bcast
    <3>1. Arrays[j] \in Names /\ owner[Arrays[j]] = Bcast
      BY <1>1, <2>1, ArraysAreNames DEF LockInv
    <3> QED BY <1>2, <2>3, <2>7, <3>1
  <2> QED BY <2>1, <2>8, <2>9, <2>10 DEF LockInv
<1> QED BY <1>3, <1>4, <1>5, <1>6 DEF TypeInv

LEMMA TypeInitLock ==
    ASSUME TypeInv, InitLock
    PROVE  TypeInv'
<1>1. MasterType /\ BcastType /\ ClientType /\ MsgType /\ LockInv
    BY DEF TypeInv
<1> DEFINE b == Arrays[nlocked + 1]
<1>2. /\ nlocked < Len(Arrays) /\ owner[b] = Nobody
      /\ owner' = [owner EXCEPT ![b] = Bcast] /\ nlocked' = nlocked + 1
      /\ UNCHANGED <<vars, log, dirty, pc, init, blk, who, stats, nstats,
                     clientVars, msgVars, logVars>>
    BY DEF InitLock, Lockable
<1>3. Len(Arrays) \in Nat /\ nlocked \in 0..Len(Arrays) /\ nlocked + 1 \in 1..Len(Arrays)
    BY <1>1, <1>2, ArraysAreNames DEF BcastType
<1>4. b \in Names
    BY <1>3, ArraysAreNames
<1>5. MasterType'
  <2>1. owner' \in [Names -> Threads \cup {Nobody, Bcast}]
    BY <1>1, <1>2 DEF MasterType
  <2> QED BY <1>1, <1>2, <2>1 DEF MasterType
<1>6. BcastType'
    BY <1>1, <1>2, <1>3 DEF BcastType
<1>7. ClientType' /\ MsgType'
    BY <1>1, <1>2 DEF ClientType, clientVars, MsgType, msgVars, logVars
<1>8. LockInv'
  <2> HIDE DEF b
  <2>1. owner \in [Names -> Threads \cup {Nobody, Bcast}]
    BY <1>1 DEF MasterType
  <2>2. \A a \in Names : owner'[a] = IF a = b THEN Bcast ELSE owner[a]
    BY <1>2, <2>1
  <2>3. Nobody \notin Threads /\ Bcast \notin Threads /\ Bcast # Nobody
    BY NvAssumption
  <2>4. \A u \in Threads : pc[u] = "update" <=> \E a \in Names : owner[a] = u
    BY <1>1 DEF LockInv
  <2>5. \A u \in Threads : pc'[u] = "update" <=> \E a \in Names : owner'[a] = u
    BY <1>2, <2>2, <2>3, <2>4
  <2>6. ASSUME NEW a \in Names, NEW d \in Names, owner'[a] \in Threads, owner'[d] = owner'[a]
        PROVE  a = d
    BY <1>1, <2>2, <2>3, <2>6 DEF LockInv
  <2>7. ASSUME NEW j \in 1..nlocked + 1 PROVE owner'[Arrays[j]] = Bcast
    <3>1. CASE j = nlocked + 1
      BY <1>4, <2>2, <3>1 DEF b
    <3>2. CASE j \in 1..nlocked
      <4>1. Arrays[j] \in Names /\ owner[Arrays[j]] = Bcast
        BY <1>1, <1>3, <3>2, ArraysAreNames DEF LockInv
      <4> QED BY <2>2, <4>1
    <3> QED BY <1>3, <3>1, <3>2
  <2> QED BY <1>2, <2>5, <2>6, <2>7 DEF LockInv
<1> QED BY <1>5, <1>6, <1>7, <1>8 DEF TypeInv

\* When ClientInitMsg builds its message it holds every array.
LEMMA AllLocked ==
    ASSUME BcastType, LockInv, InitBuild
    PROVE  \A a \in Names : owner[a] = Bcast
BY ArraysAreNames DEF LockInv, InitBuild

LEMMA TypeInitBuild ==
    ASSUME TypeInv, InitBuild
    PROVE  TypeInv'
<1>1. MasterType /\ BcastType /\ ClientType /\ MsgType /\ LockInv
    BY DEF TypeInv
<1>2. /\ init' = IF \E a \in Names : dirty[a] THEN Current ELSE init
      /\ dirty' = [a \in Names |-> FALSE] /\ owner' = [a \in Names |-> Nobody]
      /\ nlocked' = 0 /\ blk' = "free"
      /\ first' = [first EXCEPT ![<<who, conn[who]>>] = init']
      /\ snap' = [snap EXCEPT ![<<who, conn[who]>>] = length]
      /\ UNCHANGED <<length, given, vars, log, pc, who, stats, nstats, clientVars, body, hist>>
    BY DEF InitBuild, Snapshot
<1>3. init' \in Seq(AllCmds)
  <2>1. Current \in Seq(AllCmds)
    BY <1>1, CurrentType DEF MasterType
  <2> QED BY <1>1, <1>2, <2>1 DEF MasterType
<1>4. MasterType'
    BY <1>1, <1>2, <1>3 DEF MasterType
<1>5. BcastType' /\ ClientType'
    BY <1>1, <1>2, ArraysAreNames DEF BcastType, ClientType, clientVars
<1>6. MsgType'
  <2>1. first' \in [Conns -> Seq(AllCmds)]
    BY <1>1, <1>2, <1>3 DEF MsgType
  <2>2. snap' \in [Conns -> 0..NoSnap]
    <3>1. length \in 0..NoSnap
      BY <1>1, LogAssumption DEF MsgType, NoSnap
    <3>2. snap \in [Conns -> 0..NoSnap]
      BY <1>1 DEF MsgType
    <3> QED BY <1>2, <3>1, <3>2
  <2> QED BY <1>1, <1>2, <2>1, <2>2 DEF MsgType
<1>7. LockInv'
  <2>1. Nobody \notin Threads /\ Bcast \notin Threads
    BY NvAssumption
  <2>2. \A u \in Threads : pc[u] # "update"
    BY <1>1, <2>1, AllLocked DEF LockInv
  <2>3. \A a \in Names : owner'[a] = Nobody
    BY <1>2
  <2> QED BY <1>2, <2>1, <2>2, <2>3 DEF LockInv
<1> QED BY <1>4, <1>5, <1>6, <1>7 DEF TypeInv

LEMMA TypeStats ==
    ASSUME TypeInv, StatsLock \/ StatsRead
    PROVE  TypeInv'
<1>1. MasterType /\ BcastType /\ ClientType /\ MsgType /\ LockInv
    BY DEF TypeInv
<1>2. UNCHANGED <<masterVars, blk, nlocked, who, clientVars, msgVars, logVars>>
    BY DEF StatsLock, StatsRead
<1>3. stats' \in {"idle", "wait"} /\ nstats' \in 0..MaxStats
    BY <1>1, NvAssumption DEF BcastType, StatsLock, StatsRead
<1>4. MasterType' /\ ClientType' /\ MsgType'
    BY <1>1, <1>2 DEF MasterType, masterVars, ClientType, clientVars, MsgType, msgVars, logVars
<1>5. BcastType' /\ LockInv'
    BY <1>1, <1>2, <1>3 DEF BcastType, LockInv, masterVars
<1> QED BY <1>4, <1>5 DEF TypeInv

LEMMA TypeClients ==
    ASSUME TypeInv, NEW c \in Clients, Connect(c) \/ Lose(c) \/ Restart(c)
    PROVE  TypeInv'
<1>1. MasterType /\ BcastType /\ ClientType /\ MsgType /\ LockInv
    BY DEF TypeInv
<1>2. UNCHANGED <<masterVars, nlocked, stats, nstats, msgVars, logVars>>
    BY DEF Connect, Lose, Restart, bcastVars
<1>3. MasterType' /\ MsgType' /\ LockInv'
    BY <1>1, <1>2 DEF MasterType, masterVars, MsgType, msgVars, logVars, LockInv
<1>4. BcastType'
    BY <1>1, <1>2 DEF BcastType, Connect, Lose, Restart, bcastVars
<1>5. ClientType'
  <2>1. CASE Connect(c)
    BY <1>1, <2>1, LogAssumption DEF ClientType, Connect
  <2>2. CASE Lose(c)
    BY <1>1, <2>2, NvAssumption DEF ClientType, Lose
  <2>3. CASE Restart(c)
    <3>1. [a \in Names |-> Empty] \in Reps
      BY DEF Reps, Rows, Cells, Empty
    <3> QED BY <1>1, <2>3, <3>1, NvAssumption DEF ClientType, Restart
  <2> QED BY <2>1, <2>2, <2>3
<1> QED BY <1>3, <1>4, <1>5 DEF TypeInv

\* What RecvUpdate does, with r for what the client has at the end.
LEMMA Receives ==
    ASSUME ClientType, MsgType, NEW k \in Conns, NEW m \in Msgs \cup {InitMsg}, RecvUpdate(k, m)
    PROVE  \E r \in States, xs \in Seq(AllCmds) :
              /\ r = RecvAll(k[1], Fresh(replica[k[1]]), xs)
              /\ xs = IF m = InitMsg THEN first[k] ELSE body[m]
              /\ replica' = [replica EXCEPT ![k[1]] = r.rep]
              /\ dead' = IF r.ok THEN dead ELSE [dead EXCEPT ![k[1]] = k[2]]
              /\ lost' = IF r.ok \/ k[2] # conn[k[1]] THEN lost
                         ELSE [lost EXCEPT ![k[1]] = TRUE]
<1> DEFINE xs == IF m = InitMsg THEN first[k] ELSE body[m]
           r == RecvAll(k[1], Fresh(replica[k[1]]), xs)
<1>1. xs \in Seq(AllCmds)
  <2>1. CASE m = InitMsg
    BY <2>1 DEF MsgType
  <2>2. CASE m # InitMsg
    <3>1. m \in 1..MaxMsgs /\ m <= length
      BY <2>2 DEF RecvUpdate, Deliver, Msgs
    <3>2. m \in 1..Len(body) /\ body \in Seq(Seq(AllCmds))
      BY <3>1, LogAssumption DEF MsgType
    <3> QED BY <2>2, <3>2
  <2> QED BY <2>1, <2>2
<1>2. k[1] \in Clients
    BY DEF Conns
<1>3. Fresh(replica[k[1]]) \in States
    BY <1>2, FreshOk DEF ClientType, OkStates
<1> HIDE DEF xs
<1>4. r \in States
    BY <1>1, <1>3, RecvType
<1>5. /\ replica' = [replica EXCEPT ![k[1]] = r.rep]
      /\ dead' = IF r.ok THEN dead ELSE [dead EXCEPT ![k[1]] = k[2]]
      /\ lost' = IF r.ok \/ k[2] # conn[k[1]] THEN lost
                 ELSE [lost EXCEPT ![k[1]] = TRUE]
    BY Zenon DEF RecvUpdate, Fresh, xs
<1> HIDE DEF r
<1>6. r = RecvAll(k[1], Fresh(replica[k[1]]), xs)
    BY DEF r
<1>7. xs = IF m = InitMsg THEN first[k] ELSE body[m]
    BY DEF xs
<1> QED BY <1>1, <1>4, <1>5, <1>6, <1>7, Zenon

LEMMA TypeReceive ==
    ASSUME TypeInv, NEW k \in Conns, NEW m \in Msgs \cup {InitMsg}, RecvUpdate(k, m)
    PROVE  TypeInv'
<1>1. MasterType /\ BcastType /\ ClientType /\ MsgType /\ LockInv
    BY DEF TypeInv
<1>2. /\ UNCHANGED <<masterVars, bcastVars, msgVars, conn, nfault, length, snap>>
      /\ given' = [given EXCEPT ![k] = Append(given[k], m)]
    BY DEF RecvUpdate, Deliver
<1>3. MasterType' /\ BcastType' /\ LockInv'
    BY <1>1, <1>2 DEF MasterType, masterVars, BcastType, bcastVars, LockInv
<1>4. MsgType'
  <2>1. given' \in [Conns -> Seq(Msgs \cup {InitMsg})]
    <3>1. Append(given[k], m) \in Seq(Msgs \cup {InitMsg})
      BY <1>1 DEF MsgType
    <3> QED BY <1>1, <1>2, <3>1 DEF MsgType
  <2> QED BY <1>1, <1>2, <2>1 DEF MsgType, msgVars
<1>5. ClientType'
  <2>1. PICK r \in States :
           /\ replica' = [replica EXCEPT ![k[1]] = r.rep]
           /\ dead' = IF r.ok THEN dead ELSE [dead EXCEPT ![k[1]] = k[2]]
           /\ lost' = IF r.ok \/ k[2] # conn[k[1]] THEN lost
                      ELSE [lost EXCEPT ![k[1]] = TRUE]
    BY <1>1, Receives
  <2>2. k[1] \in Clients /\ k[2] \in 0..MaxConns
    BY LogAssumption DEF Conns
  <2>3. replica' \in [Clients -> Reps]
    <3>1. r.rep \in Reps
      BY DEF States
    <3> QED BY <1>1, <2>1, <3>1 DEF ClientType
  <2>4. dead' \in [Clients -> 0..MaxConns]
    BY <1>1, <2>1, <2>2 DEF ClientType
  <2>5. lost' \in [Clients -> BOOLEAN]
    BY <1>1, <2>1 DEF ClientType
  <2> QED BY <1>1, <1>2, <2>3, <2>4, <2>5 DEF ClientType
<1> QED BY <1>3, <1>4, <1>5 DEF TypeInv

LEMMA TypeUnchanged ==
    ASSUME TypeInv, UNCHANGED nvVars
    PROVE  TypeInv'
BY DEF TypeInv, MasterType, BcastType, ClientType, MsgType, LockInv,
       nvVars, masterVars, bcastVars, clientVars, msgVars, logVars

LEMMA TypeStep ==
    ASSUME TypeInv, [Next]_nvVars
    PROVE  TypeInv'
<1>1. CASE Next
  <2>1. Actions
    BY <1>1, NextActions DEF TypeInv, MasterType
  <2> QED BY <2>1, TypeChange, TypeBroadcast, TypeInitLock, TypeInitBuild, TypeStats,
             TypeClients, TypeReceive DEF Actions
<1>2. CASE UNCHANGED nvVars
    BY <1>2, TypeUnchanged
<1> QED BY <1>1, <1>2

\* The types of the variables, and that a thread is in BroadcastUpdates as long
\* as it has the lock of an array.
THEOREM NvTypeCorrect == Spec => []NvType
<1>1. Init => TypeInv
    BY TypeInit
<1>2. TypeInv /\ [Next]_nvVars => TypeInv'
    BY TypeStep
<1>3. TypeInv => NvType
    BY DEF TypeInv, MasterType, BcastType, ClientType, MsgType, LockInv, NvType,
           Reps, Rows, Cells
<1> QED BY <1>1, <1>2, <1>3, PTL DEF Spec

-----------------------------------------------------------------------------
(* The replicas.                                                           *)

LEMMA UpdatesKept ==
    ASSUME NEW m, Updates(m), body'[m] = body[m], hist'[m] = hist[m], hist'[m+1] = hist[m+1]
    PROVE  Updates(m)'
BY DEF Updates

LEMMA HistChange ==
    ASSUME TypeInv, HistInv, NEW t \in Threads, NEW a \in Names, NEW xs \in Seq(Cmds),
           Change(t, a, xs)
    PROVE  HistInv'
<1>1. /\ vars \in Reps /\ log \in [Names -> Seq(Cmds)]
      /\ owner \in [Names -> Threads \cup {Nobody, Bcast}]
    BY DEF TypeInv, MasterType
<1>2. /\ owner[a] = Nobody
      /\ vars' = [vars EXCEPT ![a] = ApplyAll(vars[a], xs)]
      /\ log' = [log EXCEPT ![a] = log[a] \o xs]
      /\ owner' = [owner EXCEPT ![a] = t]
      /\ UNCHANGED <<length, body, hist>>
    BY DEF Change, Lockable, msgVars, logVars
<1>3. Nobody \notin Threads
    BY NvAssumption
<1>4. log[a] = <<>> /\ vars[a] = hist[length + 1][a]
    BY <1>2, <1>3, Zenon DEF HistInv
<1>5. ASSUME NEW m \in 1..length' PROVE Updates(m)'
  <2>1. m \in 1..length
    BY <1>2
  <2>2. Updates(m)
    BY <2>1 DEF HistInv
  <2> QED BY <1>2, <2>2, UpdatesKept
<1>6. ASSUME NEW b \in Names
      PROVE  (IF owner[b] \in Threads THEN vars[b] = ApplyAll(hist[length + 1][b], log[b])
              ELSE log[b] = <<>> /\ vars[b] = hist[length + 1][b])'
  <2>1. CASE b = a
    <3>1. owner'[b] = t
      BY <1>1, <1>2, <2>1
    <3>2. log'[b] = xs
      <4>1. log[a] \o xs = xs
        BY <1>4
      <4> QED BY <1>1, <1>2, <2>1, <4>1
    <3>3. vars'[b] = ApplyAll(hist'[length' + 1][b], log'[b])
      <4>1. vars'[b] = ApplyAll(vars[a], xs)
        BY <1>1, <1>2, <2>1 DEF Reps
      <4> QED BY <1>2, <1>4, <2>1, <3>2, <4>1
    <3> QED BY <3>1, <3>3, Zenon
  <2>2. CASE b # a
    <3>1. owner'[b] = owner[b] /\ log'[b] = log[b] /\ vars'[b] = vars[b]
      BY <1>1, <1>2, <2>2 DEF Reps
    <3>2. hist' = hist /\ length' = length
      BY <1>2
    <3>3. IF owner[b] \in Threads THEN vars[b] = ApplyAll(hist[length + 1][b], log[b])
          ELSE log[b] = <<>> /\ vars[b] = hist[length + 1][b]
      BY Zenon DEF HistInv
    <3> QED BY <3>1, <3>2, <3>3, Zenon
  <2> QED BY <2>1, <2>2
<1> QED BY <1>5, <1>6, Zenon DEF HistInv

LEMMA HistBroadcast ==
    ASSUME TypeInv, HistInv, NEW t \in Threads, NEW a \in Names, BroadcastUpdates(t, a)
    PROVE  HistInv'
<1>1. MasterType /\ MsgType
    BY DEF TypeInv
<1>2. /\ vars \in Reps /\ log \in [Names -> Seq(Cmds)]
      /\ owner \in [Names -> Threads \cup {Nobody, Bcast}]
      /\ length \in Nat /\ hist[length + 1] \in Reps
    BY <1>1, LogAssumption DEF MasterType, MsgType
<1>3. /\ owner[a] = t /\ log' = [log EXCEPT ![a] = <<>>]
      /\ owner' = [owner EXCEPT ![a] = Nobody] /\ vars' = vars
    BY DEF BroadcastUpdates
<1>4. /\ length' = length + 1
      /\ \A m \in 1..length : body'[m] = body[m]
      /\ body'[length'] = <<Array(a)>> \o log[a]
      /\ \A m \in 1..length + 1 : hist'[m] = hist[m]
      /\ hist'[length' + 1] = [hist[length + 1] EXCEPT ![a] = vars[a]]
    BY <1>1, Broadcasts
<1>5. Nobody \notin Threads
    BY NvAssumption
<1>6. ASSUME NEW m \in 1..length' PROVE Updates(m)'
  <2>1. CASE m \in 1..length
    <3>1. m \in 1..length + 1 /\ m + 1 \in 1..length + 1
      BY <1>2, <2>1
    <3>2. Updates(m)
      BY <2>1 DEF HistInv
    <3> QED BY <1>4, <2>1, <3>1, <3>2, UpdatesKept
  <2>2. CASE m = length + 1
    <3>1. vars[a] = ApplyAll(hist[length + 1][a], log[a])
      BY <1>3, Zenon DEF HistInv
    <3>2. hist'[m] = hist[length + 1]
      BY <1>2, <1>4, <2>2
    <3>3. hist'[m + 1] = [hist'[m] EXCEPT ![a] = ApplyAll(hist'[m][a], log[a])]
      BY <1>4, <2>2, <3>1, <3>2
    <3>4. body'[m] = <<Array(a)>> \o log[a] /\ log[a] \in Seq(Cmds)
      BY <1>2, <1>4, <2>2
    <3> QED BY <3>3, <3>4 DEF Updates
  <2> QED BY <1>2, <1>4, <2>1, <2>2
<1>7. ASSUME NEW b \in Names
      PROVE  (IF owner[b] \in Threads THEN vars[b] = ApplyAll(hist[length + 1][b], log[b])
              ELSE log[b] = <<>> /\ vars[b] = hist[length + 1][b])'
  <2>1. CASE b = a
    <3>1. owner'[b] = Nobody /\ log'[b] = <<>>
      BY <1>2, <1>3, <2>1
    <3>2. vars'[b] = hist'[length' + 1][b]
      BY <1>2, <1>3, <1>4, <2>1 DEF Reps
    <3> QED BY <1>5, <3>1, <3>2, Zenon
  <2>2. CASE b # a
    <3>1. owner'[b] = owner[b] /\ log'[b] = log[b] /\ vars'[b] = vars[b]
      BY <1>2, <1>3, <2>2
    <3>2. hist'[length' + 1][b] = hist[length + 1][b]
      BY <1>2, <1>4, <2>2 DEF Reps
    <3>3. IF owner[b] \in Threads THEN vars[b] = ApplyAll(hist[length + 1][b], log[b])
          ELSE log[b] = <<>> /\ vars[b] = hist[length + 1][b]
      BY Zenon DEF HistInv
    <3> QED BY <3>1, <3>2, <3>3, Zenon
  <2> QED BY <2>1, <2>2
<1> QED BY <1>6, <1>7, Zenon DEF HistInv

\* The steps that change no array.
LEMMA HistKept ==
    ASSUME HistInv, UNCHANGED <<length, body, hist, vars, log>>,
           \A a \in Names : owner'[a] \in Threads <=> owner[a] \in Threads
    PROVE  HistInv'
<1>1. ASSUME NEW m \in 1..length' PROVE Updates(m)'
  <2>1. m \in 1..length
    OBVIOUS
  <2>2. Updates(m)
    BY <2>1 DEF HistInv
  <2> QED BY <2>2, UpdatesKept
<1>2. ASSUME NEW a \in Names
      PROVE  (IF owner[a] \in Threads THEN vars[a] = ApplyAll(hist[length + 1][a], log[a])
              ELSE log[a] = <<>> /\ vars[a] = hist[length + 1][a])'
  <2>1. IF owner[a] \in Threads THEN vars[a] = ApplyAll(hist[length + 1][a], log[a])
        ELSE log[a] = <<>> /\ vars[a] = hist[length + 1][a]
    BY Zenon DEF HistInv
  <2> QED BY <2>1, Zenon
<1> QED BY <1>1, <1>2, Zenon DEF HistInv

LEMMA HistStep ==
    ASSUME TypeInv, HistInv, Actions
    PROVE  HistInv'
<1>1. /\ BcastType /\ LockInv /\ Nobody \notin Threads /\ Bcast \notin Threads
      /\ owner \in [Names -> Threads \cup {Nobody, Bcast}]
    BY NvAssumption DEF TypeInv, MasterType
<1>2. CASE InitLock
  <2>1. /\ owner[Arrays[nlocked + 1]] = Nobody
        /\ owner' = [owner EXCEPT ![Arrays[nlocked + 1]] = Bcast]
        /\ UNCHANGED <<length, body, hist, vars, log>>
    BY <1>2 DEF InitLock, Lockable, msgVars, logVars
  <2>2. \A a \in Names : owner'[a] \in Threads <=> owner[a] \in Threads
    BY <1>1, <2>1
  <2> QED BY <2>1, <2>2, HistKept
<1>3. CASE InitBuild
  <2>1. owner' = [a \in Names |-> Nobody] /\ UNCHANGED <<length, body, hist, vars, log>>
    BY <1>3 DEF InitBuild, Snapshot
  <2>2. \A a \in Names : owner[a] = Bcast /\ owner'[a] = Nobody
    BY <1>1, <1>3, <2>1, AllLocked
  <2> QED BY <1>1, <2>1, <2>2, HistKept
<1>4. CASE StatsLock \/ StatsRead
  <2>1. UNCHANGED <<length, body, hist, vars, log, owner>>
    BY <1>4 DEF StatsLock, StatsRead, masterVars, msgVars, logVars
  <2> QED BY <2>1, HistKept
<1>5. ASSUME NEW c \in Clients, Connect(c) \/ Lose(c) \/ Restart(c) PROVE HistInv'
  <2>1. UNCHANGED <<length, body, hist, vars, log, owner>>
    BY <1>5 DEF Connect, Lose, Restart, masterVars, msgVars, logVars
  <2> QED BY <2>1, HistKept
<1>6. ASSUME NEW k \in Conns, NEW m \in Msgs \cup {InitMsg}, RecvUpdate(k, m) PROVE HistInv'
  <2>1. UNCHANGED <<length, body, hist, vars, log, owner>>
    BY <1>6 DEF RecvUpdate, Deliver, masterVars, msgVars
  <2> QED BY <2>1, HistKept
<1> QED BY <1>2, <1>3, <1>4, <1>5, <1>6, HistChange, HistBroadcast DEF Actions

LEMMA ApplyNone ==
    ASSUME NEW v
    PROVE  ApplyAll(v, <<>>) = v
<1> DEFINE f == [n \in 0..0 |-> v]
<1>1. f \in [0..Len(<<>>) -> {v}] /\ f[0] = v
    OBVIOUS
<1>2. ApplyVals(f, v, <<>>)
    BY DEF ApplyVals
<1>3. <<>> \in Seq({v})
    OBVIOUS
<1> HIDE DEF f
<1>4. ApplyAll(v, <<>>) = f[Len(<<>>)]
    BY ONLY <1>1, <1>2, <1>3, ApplyTo, ZenonT(60)
<1> QED BY <1>1, <1>4

Clean    == \A a \in Names : ~dirty[a]
InitSent == \A k \in Conns : snap[k] # NoSnap =>
               snap[k] <= length /\ Brings(first[k], hist[snap[k] + 1])

LEMMA InitParts == InitInv <=> (Clean => Brings(init, vars)) /\ InitSent
BY Zenon DEF InitInv, Clean, InitSent

LEMMA InitSentKept ==
    ASSUME MsgType, InitSent, UNCHANGED <<first, snap>>, length' \in {length, length + 1},
           \A m \in 1..length + 1 : hist'[m] = hist[m]
    PROVE  InitSent'
<1> SUFFICES ASSUME NEW k \in Conns, snap[k] # NoSnap
             PROVE  snap[k] <= length' /\ Brings(first[k], hist'[snap[k] + 1])
    BY DEF InitSent
<1>1. snap[k] \in 0..NoSnap /\ length \in 0..MaxMsgs /\ MaxMsgs \in Nat
    BY LogAssumption DEF MsgType
<1>2. snap[k] <= length /\ Brings(first[k], hist[snap[k] + 1])
    BY DEF InitSent
<1>3. snap[k] + 1 \in 1..length + 1 /\ snap[k] <= length'
    BY <1>1, <1>2 DEF NoSnap
<1>4. hist'[snap[k] + 1] = hist[snap[k] + 1]
    BY <1>3
<1> QED BY <1>2, <1>3, <1>4

LEMMA InitInvStep ==
    ASSUME \A c \in Clients : Linked[c] = Names, TypeInv, HistInv, InitInv, Actions
    PROVE  InitInv'
<1>1. MasterType /\ MsgType /\ BcastType /\ LockInv
    BY DEF TypeInv
<1>2. (Clean => Brings(init, vars)) /\ InitSent
    BY InitParts
<1>3. ASSUME UNCHANGED <<vars, dirty, init, first, snap, length, hist>>
      PROVE  InitInv'
  <2>1. InitSent'
    BY <1>1, <1>2, <1>3, InitSentKept
  <2>2. (Clean => Brings(init, vars))'
    BY <1>2, <1>3, Zenon DEF Clean
  <2> QED BY <2>1, <2>2, Zenon DEF InitInv, Clean, InitSent
<1>4. ASSUME NEW t \in Threads, NEW a \in Names, NEW xs \in Seq(Cmds), Change(t, a, xs)
      PROVE  InitInv'
  <2>1. /\ vars' = [vars EXCEPT ![a] = ApplyAll(vars[a], xs)]
        /\ dirty' = [dirty EXCEPT ![a] = Dirty(a, xs)]
        /\ UNCHANGED <<init, first, snap, length, hist>>
    BY <1>4 DEF Change, msgVars, logVars
  <2>2. InitSent'
    BY <1>1, <1>2, <2>1, InitSentKept
  <2>3. CASE xs = <<>>
    <3>1. vars' = vars
      BY <1>1, <2>1, <2>3, ApplyNone DEF MasterType, Reps
    <3>2. Clean' => Clean
      <4>1. dirty \in [Names -> BOOLEAN]
        BY <1>1 DEF MasterType
      <4>2. \A b \in Names : dirty[b] => dirty'[b]
        <5>1. Dirty(a, xs) <=> dirty[a]
          BY <2>3 DEF Dirty
        <5> QED BY <2>1, <4>1, <5>1
      <4> QED BY <4>2, Zenon DEF Clean
    <3>3. (Clean => Brings(init, vars))'
      BY <1>2, <2>1, <3>1, <3>2, Zenon
    <3> QED BY <2>2, <3>3, Zenon DEF InitInv, Clean, InitSent
  <2>4. CASE xs # <<>>
    <3>1. ~Clean'
      <4>1. dirty \in [Names -> BOOLEAN]
        BY <1>1 DEF MasterType
      <4>2. dirty'[a]
        <5>1. Dirty(a, xs)
          BY <2>4 DEF Dirty
        <5>2. dirty'[a] = Dirty(a, xs)
          BY <2>1, <4>1
        <5> QED BY <5>1, <5>2
      <4> QED BY <4>2, Zenon DEF Clean
    <3> QED BY <2>2, <3>1, Zenon DEF InitInv, Clean, InitSent
  <2> QED BY <2>3, <2>4
<1>5. ASSUME NEW t \in Threads, NEW a \in Names, BroadcastUpdates(t, a)
      PROVE  InitInv'
  <2>1. UNCHANGED <<vars, dirty, init, first, snap>>
    BY <1>5 DEF BroadcastUpdates, Publish
  <2>2. length' = length + 1 /\ \A m \in 1..length + 1 : hist'[m] = hist[m]
    BY <1>1, <1>5, Broadcasts
  <2>3. InitSent'
    BY <1>1, <1>2, <2>1, <2>2, InitSentKept
  <2>4. (Clean => Brings(init, vars))'
    BY <1>2, <2>1, Zenon DEF Clean
  <2> QED BY <2>3, <2>4, Zenon DEF InitInv, Clean, InitSent
<1>6. CASE InitBuild
  <2> DEFINE k == <<who, conn[who]>>
  <2>1. /\ init' = IF \E a \in Names : dirty[a] THEN Current ELSE init
        /\ first' = [first EXCEPT ![k] = init']
        /\ snap' = [snap EXCEPT ![k] = length]
        /\ UNCHANGED <<length, vars, hist>>
    BY <1>6 DEF InitBuild, Snapshot
  <2>2. Brings(init', vars)
    <3>1. CASE \E a \in Names : dirty[a]
      <4>1. Brings(Current, vars)
        BY <1>1, CurrentBrings DEF MasterType
      <4> QED BY <2>1, <3>1, <4>1
    <3>2. CASE ~\E a \in Names : dirty[a]
      <4>1. Clean
        BY <3>2, Zenon DEF Clean
      <4> QED BY <1>2, <2>1, <3>2, <4>1
    <3> QED BY <3>1, <3>2
  <2>3. vars = hist[length + 1]
    <3>1. \A a \in Names : owner[a] \notin Threads
      BY <1>1, <1>6, AllLocked, NvAssumption
    <3>2. \A a \in Names : vars[a] = hist[length + 1][a]
      BY <3>1, Zenon DEF HistInv
    <3>3. vars \in Reps /\ hist[length + 1] \in Reps
      BY <1>1, LogAssumption DEF MasterType, MsgType
    <3> QED BY <3>2, <3>3 DEF Reps
  <2>4. ASSUME NEW j \in Conns, snap'[j] # NoSnap
        PROVE  snap'[j] <= length' /\ Brings(first'[j], hist'[snap'[j] + 1])
    <3>1. snap \in [Conns -> 0..NoSnap] /\ first \in [Conns -> Seq(AllCmds)] /\ length \in Nat
      BY <1>1, LogAssumption DEF MsgType
    <3> HIDE DEF k
    <3>2. CASE j = k
      <4>1. snap'[j] = length /\ first'[j] = init'
        BY <2>1, <3>1, <3>2
      <4> QED BY <2>1, <2>2, <2>3, <3>1, <4>1
    <3>3. CASE j # k
      <4>1. snap'[j] = snap[j] /\ first'[j] = first[j]
        BY <2>1, <3>1, <3>3
      <4>2. snap[j] <= length /\ Brings(first[j], hist[snap[j] + 1])
        BY <1>2, <2>4, <4>1 DEF InitSent
      <4> QED BY <2>1, <4>1, <4>2
    <3> QED BY <3>2, <3>3
  <2> QED BY <2>1, <2>2, <2>4, Zenon DEF InitInv
<1>7. CASE InitLock
  <2>1. UNCHANGED <<vars, dirty, init, first, snap, length, hist>>
    BY <1>7 DEF InitLock, msgVars, logVars
  <2> QED BY <1>3, <2>1
<1>8. CASE StatsLock \/ StatsRead
  <2>1. UNCHANGED <<vars, dirty, init, first, snap, length, hist>>
    BY <1>8 DEF StatsLock, StatsRead, masterVars, msgVars, logVars
  <2> QED BY <1>3, <2>1
<1>9. ASSUME NEW c \in Clients, Connect(c) \/ Lose(c) \/ Restart(c) PROVE InitInv'
  <2>1. UNCHANGED <<vars, dirty, init, first, snap, length, hist>>
    BY <1>9 DEF Connect, Lose, Restart, masterVars, msgVars, logVars
  <2> QED BY <1>3, <2>1
<1>10. ASSUME NEW k \in Conns, NEW m \in Msgs \cup {InitMsg}, RecvUpdate(k, m) PROVE InitInv'
  <2>1. UNCHANGED <<vars, dirty, init, first, snap, length, hist>>
    BY <1>10 DEF RecvUpdate, Deliver, masterVars, msgVars
  <2> QED BY <1>3, <2>1
<1> QED BY <1>4, <1>5, <1>6, <1>7, <1>8, <1>9, <1>10 DEF Actions

\* What is delivered to a connection: its initial message first, then one of the
\* messages up to the first that the snapshot lacks, then the next one.
LEMMA Delivered ==
    ASSUME MsgType, NEW k \in Conns, NEW m \in Msgs \cup {InitMsg}, Deliver(k, m)
    PROVE  /\ given' = [given EXCEPT ![k] = Append(given[k], m)]
           /\ given'[k] # <<>> /\ Last(given'[k]) = m
           /\ m = InitMsg => snap[k] # NoSnap
           /\ m # InitMsg => /\ m \in 1..length /\ given[k] # <<>>
                             /\ IF Last(given[k]) = InitMsg THEN m <= snap[k] + 1
                                ELSE m = Last(given[k]) + 1
<1>1. /\ given[k] \in Seq(Msgs \cup {InitMsg}) /\ snap[k] \in 0..NoSnap
      /\ given' = [given EXCEPT ![k] = Append(given[k], m)]
      /\ given'[k] = Append(given[k], m)
    BY DEF Deliver, MsgType
<1>2. Append(given[k], m) # <<>> /\ Last(Append(given[k], m)) = m
    BY <1>1 DEF Last
<1>3. InitMsg \notin Msgs /\ Starts = {InitMsg}
    BY LogAssumption, NvAssumption
<1>4. m = InitMsg => snap[k] # NoSnap
    BY <1>3 DEF Deliver
<1>5. ASSUME m # InitMsg
      PROVE  /\ m \in 1..length /\ given[k] # <<>>
             /\ IF Last(given[k]) = InitMsg THEN m <= snap[k] + 1 ELSE m = Last(given[k]) + 1
  <2>1. m \in Msgs /\ m <= length /\ m \in Successors(given[k], snap[k])
    BY <1>5 DEF Deliver
  <2>2. m \in 1..length
    BY <2>1, LogAssumption DEF Msgs, MsgType
  <2>3. given[k] # <<>>
    BY <1>3, <1>5, <2>1 DEF Successors
  <2>4. m \in IF Last(given[k]) = InitMsg THEN 1..snap[k]+1 ELSE {Last(given[k]) + 1}
    BY <2>1, <2>3 DEF Successors, Last
  <2>5. CASE Last(given[k]) = InitMsg
    BY <1>1, <2>2, <2>3, <2>4, <2>5
  <2>6. CASE Last(given[k]) # InitMsg
    BY <2>2, <2>3, <2>4, <2>6
  <2> QED BY <2>5, <2>6
<1> QED BY <1>1, <1>2, <1>4, <1>5

LEMMA GivenStep ==
    ASSUME TypeInv, InitInv, GivenInv, Actions
    PROVE  GivenInv'
<1>1. /\ MasterType /\ MsgType /\ ClientType /\ BcastType
      /\ length \in Nat
    BY LogAssumption DEF TypeInv, MsgType
<1>2. ASSUME UNCHANGED <<given, snap, conn>>, length' \in {length, length + 1}
      PROVE  GivenInv'
  <2>1. \A n \in 0..length : n \in 0..length'
    BY <1>1, <1>2
  <2>2. \A k \in Conns : given[k] # <<>> => snap[k] # NoSnap /\ Reached(k)' \in 0..length'
    BY <1>2, <2>1 DEF GivenInv, Reached
  <2> QED BY <1>2, <2>2 DEF GivenInv
<1>3. ASSUME NEW t \in Threads, NEW a \in Names, BroadcastUpdates(t, a)
      PROVE  GivenInv'
  <2>1. UNCHANGED <<given, snap, conn>> /\ length' = length + 1
    BY <1>3 DEF BroadcastUpdates, Publish, clientVars
  <2> QED BY <1>2, <2>1
<1>4. CASE InitBuild
  <2> DEFINE k == <<who, conn[who]>>
  <2>1. given[k] = <<>> /\ snap' = [snap EXCEPT ![k] = length] /\ UNCHANGED <<given, conn, length>>
    BY <1>4 DEF InitBuild, Snapshot, clientVars
  <2> HIDE DEF k
  <2>2. ASSUME NEW j \in Conns, given[j] # <<>>
        PROVE  snap'[j] # NoSnap /\ Reached(j)' \in 0..length
    <3>1. snap'[j] = snap[j]
      BY <1>1, <2>1, <2>2 DEF MsgType
    <3>2. Reached(j)' = Reached(j)
      BY <2>1, <3>1 DEF Reached
    <3> QED BY <2>2, <3>1, <3>2 DEF GivenInv
  <2> QED BY <2>1, <2>2 DEF GivenInv
<1>5. ASSUME NEW c \in Clients, Connect(c) PROVE GivenInv'
  <2>1. conn' = [conn EXCEPT ![c] = conn[c] + 1] /\ UNCHANGED <<given, snap, length>>
    BY <1>5 DEF Connect, logVars
  <2>2. \A k \in Conns : k[1] \in Clients /\ k[2] \in Nat
    BY LogAssumption DEF Conns
  <2>3. \A k \in Conns : k[2] > conn'[k[1]] => k[2] > conn[k[1]]
    BY <1>1, <2>1, <2>2 DEF ClientType
  <2>4. \A k \in Conns : Reached(k)' = Reached(k)
    BY <2>1 DEF Reached
  <2> QED BY <2>1, <2>3, <2>4 DEF GivenInv
<1>6. ASSUME NEW k \in Conns, NEW m \in Msgs \cup {InitMsg}, RecvUpdate(k, m) PROVE GivenInv'
  <2>1. Deliver(k, m) /\ Readable(k) /\ UNCHANGED <<conn, length, snap>>
    BY <1>6 DEF RecvUpdate, Deliver
  <2>2. /\ given' = [given EXCEPT ![k] = Append(given[k], m)]
        /\ Last(given'[k]) = m
        /\ m = InitMsg => snap[k] # NoSnap
        /\ m # InitMsg => m \in 1..length /\ given[k] # <<>>
    BY <1>1, <2>1, Delivered
  <2>3. \A j \in Conns : j # k => given'[j] = given[j]
    BY <1>1, <2>2 DEF MsgType
  <2>4. snap[k] # NoSnap /\ Reached(k)' \in 0..length
    <3>1. CASE m = InitMsg
      <4>1. Reached(k)' = snap[k] /\ snap[k] # NoSnap
        BY <2>1, <2>2, <3>1 DEF Reached
      <4>2. snap[k] <= length /\ snap[k] \in Nat
        BY <1>1, <4>1, LogAssumption DEF InitInv, MsgType, NoSnap
      <4> QED BY <1>1, <4>1, <4>2
    <3>2. CASE m # InitMsg
      <4>1. Reached(k)' = m
        BY <2>2, <3>2 DEF Reached
      <4>2. snap[k] # NoSnap
        BY <2>2, <3>2 DEF GivenInv
      <4> QED BY <2>2, <3>2, <4>1, <4>2
    <3> QED BY <3>1, <3>2
  <2>5. ASSUME NEW j \in Conns, given'[j] # <<>> PROVE snap'[j] # NoSnap /\ Reached(j)' \in 0..length'
    <3>1. CASE j = k
      BY <2>1, <2>4, <3>1
    <3>2. CASE j # k
      <4>1. Reached(j)' = Reached(j) /\ given[j] # <<>>
        BY <2>1, <2>3, <2>5, <3>2 DEF Reached
      <4> QED BY <2>1, <4>1 DEF GivenInv
    <3> QED BY <3>1, <3>2
  <2>6. ASSUME NEW j \in Conns, j[2] > conn'[j[1]] PROVE given'[j] = <<>>
    <3>1. k[2] <= conn[k[1]]
      BY <1>1, <2>1 DEF Readable, ClientType, Conns
    <3>2. j # k
      <4>1. k[2] \in Int /\ k[1] \in Clients /\ conn[k[1]] \in Int
        BY <1>1 DEF Conns, ClientType
      <4> QED BY <2>1, <2>6, <3>1, <4>1
    <3> QED BY <2>1, <2>3, <2>6, <3>2 DEF GivenInv
  <2> QED BY <2>5, <2>6 DEF GivenInv
<1>7. ASSUME NEW t \in Threads, NEW a \in Names, NEW xs \in Seq(Cmds), Change(t, a, xs)
      PROVE  GivenInv'
  <2>1. UNCHANGED <<given, snap, conn, length>>
    BY <1>7 DEF Change, clientVars, logVars
  <2> QED BY <1>2, <2>1
<1>8. CASE InitLock \/ StatsLock \/ StatsRead
  <2>1. UNCHANGED <<given, snap, conn, length>>
    BY <1>8 DEF InitLock, StatsLock, StatsRead, clientVars, logVars
  <2> QED BY <1>2, <2>1
<1>9. ASSUME NEW c \in Clients, Lose(c) \/ Restart(c) PROVE GivenInv'
  <2>1. UNCHANGED <<given, snap, conn, length>>
    BY <1>9 DEF Lose, Restart, logVars
  <2> QED BY <1>2, <2>1
<1> QED BY <1>3, <1>4, <1>5, <1>6, <1>7, <1>8, <1>9 DEF Actions

\* A message applied to a replica: every cell becomes as of the message, or the
\* message changes it neither in the replica nor on the server.
Follows(u, r, m) == \A a \in Names, q \in Keys :
                       \/ u[a][q] = hist[m+1][a][q]
                       \/ u[a][q] = r[a][q] /\ hist[m+1][a][q] = hist[m][a][q]

LEMMA OneMessage ==
    ASSUME MsgType, HistInv, NEW c \in Clients, Linked[c] = Names, NEW r \in Reps,
           NEW m \in 1..length, NEW s, s = RecvAll(c, Fresh(r), body[m])
    PROVE  s.ok = TRUE /\ Follows(s.rep, r, m)
<1>1. hist[m] \in Reps /\ hist[m+1] \in Reps
  <2>1. m \in 1..Len(hist) /\ m + 1 \in 1..Len(hist) /\ hist \in Seq(Reps)
    BY LogAssumption DEF MsgType
  <2> QED BY <2>1
<1>2. Updates(m)
    BY DEF HistInv
<1>3. PICK b \in Names, xs \in Seq(Cmds) :
         /\ body[m] = <<Array(b)>> \o xs
         /\ hist[m+1] = [hist[m] EXCEPT ![b] = ApplyAll(hist[m][b], xs)]
    BY <1>2 DEF Updates
<1>4. Fresh(r) \in OkStates /\ Fresh(r).rep = r
    BY FreshOk
<1>5. s = Done(b, [r EXCEPT ![b] = ApplyAll(r[b], xs)])
  <2>1. b \in Linked[c]
    OBVIOUS
  <2>2. RecvAll(c, Fresh(r), <<Array(b)>> \o xs)
          = Done(b, [Fresh(r).rep EXCEPT ![b] = ApplyAll(Fresh(r).rep[b], xs)])
    BY ONLY c \in Clients, <2>1, <1>4, xs \in Seq(Cmds), RecvOne, ZenonT(60)
  <2> QED BY <1>3, <1>4, <2>2
<1>6. s.ok = TRUE /\ s.rep = [r EXCEPT ![b] = ApplyAll(r[b], xs)]
    BY <1>5 DEF Done
<1>7. ASSUME NEW a \in Names, NEW q \in Keys
      PROVE  \/ s.rep[a][q] = hist[m+1][a][q]
             \/ s.rep[a][q] = r[a][q] /\ hist[m+1][a][q] = hist[m][a][q]
  <2>1. CASE a = b
    <3>1. s.rep[a] = ApplyAll(r[a], xs) /\ hist[m+1][a] = ApplyAll(hist[m][a], xs)
      BY <1>1, <1>3, <1>6, <2>1 DEF Reps
    <3>2. r[a] \in Rows /\ hist[m][a] \in Rows
      BY <1>1 DEF Reps
    <3>3. \/ ApplyAll(r[a], xs)[q] = ApplyAll(hist[m][a], xs)[q]
          \/ /\ ApplyAll(r[a], xs)[q] = r[a][q]
             /\ ApplyAll(hist[m][a], xs)[q] = hist[m][a][q]
      BY <3>2, CellAll
    <3> QED BY <3>1, <3>3
  <2>2. CASE a # b
    BY <1>1, <1>3, <1>6, <2>2 DEF Reps
  <2> QED BY <2>1, <2>2
<1> QED BY <1>6, <1>7 DEF Follows

LEMMA BetweenKept ==
    ASSUME NEW r, NEW n \in 0..length, NEW s \in 0..length, length \in Nat, Between(r, n, s),
           \A m \in 1..length + 1 : hist'[m] = hist[m]
    PROVE  \A a \in Names, q \in Keys :
              \/ r[a][q] = hist'[n + 1][a][q]
              \/ n < s /\ r[a][q] = hist'[s + 1][a][q]
<1>1. n + 1 \in 1..length + 1 /\ s + 1 \in 1..length + 1
    OBVIOUS
<1>2. hist'[n + 1] = hist[n + 1] /\ hist'[s + 1] = hist[s + 1]
    BY <1>1
<1> QED BY <1>2 DEF Between

\* The steps after which every connection has got what it had got before.
LEMMA ReadKept ==
    ASSUME TypeInv, InitInv, GivenInv, ReadInv,
           UNCHANGED given,
           \A k \in Conns : given[k] # <<>> => snap'[k] = snap[k],
           \A m \in 1..length + 1 : hist'[m] = hist[m],
           \A c \in Clients : \A j \in dead'[c]+1..MaxConns :
              Latest(c, j) => j \in dead[c]+1..MaxConns /\ replica'[c] = replica[c]
    PROVE  ReadInv'
<1> SUFFICES ASSUME NEW c \in Clients, NEW j \in dead'[c]+1..MaxConns, Latest(c, j)'
             PROVE  Between(replica[c], Reached(<<c, j>>), snap[<<c, j>>])'
    BY DEF ReadInv
<1> DEFINE k == <<c, j>>
<1>1. Latest(c, j)
    BY DEF Latest
<1>2. j \in dead[c]+1..MaxConns /\ replica'[c] = replica[c]
    BY <1>1
<1>3. dead[c] \in Nat /\ MaxConns \in Nat /\ length \in Nat
    BY LogAssumption DEF TypeInv, ClientType, MsgType
<1>4. k \in Conns /\ given[k] # <<>>
    BY <1>1, <1>2, <1>3 DEF Conns, Latest
<1>5. snap'[k] = snap[k]
    BY <1>4
<1> HIDE DEF k
<1>6. Reached(k)' = Reached(k)
    BY <1>5 DEF Reached
<1>7. Reached(k) \in 0..length /\ snap[k] # NoSnap
    BY <1>4 DEF GivenInv
<1>8. snap[k] \in 0..length
    BY <1>3, <1>4, <1>7, LogAssumption DEF InitInv, TypeInv, MsgType, NoSnap
<1>9. Between(replica[c], Reached(k), snap[k])
    BY <1>1, <1>2 DEF ReadInv, k
<1>10. \A a \in Names, q \in Keys :
          \/ replica[c][a][q] = hist'[Reached(k) + 1][a][q]
          \/ Reached(k) < snap[k] /\ replica[c][a][q] = hist'[snap[k] + 1][a][q]
    BY <1>3, <1>7, <1>8, <1>9, BetweenKept, SMTT(30)
<1> QED BY <1>2, <1>5, <1>6, <1>10, ZenonT(40) DEF Between, k

LEMMA ReadReceive ==
    ASSUME ~Overlap, \A c \in Clients : Linked[c] = Names,
           TypeInv, HistInv, InitInv, GivenInv, ReadInv,
           NEW k \in Conns, NEW m \in Msgs \cup {InitMsg}, RecvUpdate(k, m)
    PROVE  ReadInv'
<1>1. /\ MasterType /\ MsgType /\ ClientType /\ length \in Nat /\ MaxConns \in Nat
      /\ InitMsg \notin Msgs
    BY LogAssumption DEF TypeInv, MsgType
<1>2. Deliver(k, m) /\ Readable(k) /\ UNCHANGED <<conn, length, snap, hist>>
    BY DEF RecvUpdate, Deliver, msgVars
<1>3. PICK c \in Clients, i \in 1..MaxConns : k = <<c, i>>
    BY DEF Conns
<1>4. k[1] = c /\ k[2] = i
    BY <1>3
<1>5. /\ given' = [given EXCEPT ![k] = Append(given[k], m)]
      /\ given'[k] # <<>> /\ Last(given'[k]) = m
      /\ m = InitMsg => snap[k] # NoSnap
      /\ m # InitMsg => /\ m \in 1..length /\ given[k] # <<>>
                        /\ IF Last(given[k]) = InitMsg THEN m <= snap[k] + 1
                           ELSE m = Last(given[k]) + 1
    BY <1>1, <1>2, Delivered
<1>6. i \in dead[c]+1..conn[c] /\ \A j \in i+1..MaxConns : given[<<c, j>>] = <<>>
    BY <1>2, <1>4 DEF Readable
<1>7. PICK r \in States, xs \in Seq(AllCmds) :
         /\ r = RecvAll(c, Fresh(replica[c]), xs)
         /\ xs = IF m = InitMsg THEN first[k] ELSE body[m]
         /\ replica' = [replica EXCEPT ![c] = r.rep]
         /\ dead' = IF r.ok THEN dead ELSE [dead EXCEPT ![c] = i]
    BY <1>1, <1>4, Receives
<1>8. replica[c] \in Reps
    BY <1>1 DEF ClientType
<1> DEFINE s == snap[k]
<1>9. s # NoSnap /\ s \in 0..length /\ Brings(first[k], hist[s + 1])
  <2>1. s # NoSnap
    BY <1>5 DEF GivenInv
  <2> QED BY <1>1, <2>1, LogAssumption DEF InitInv, MsgType, NoSnap
<1> DEFINE n == IF m = InitMsg THEN s ELSE m
<1>10. Reached(k)' = n
    BY <1>2, <1>5 DEF Reached
\* Before an update the connection has got the one before, or the initial
\* message, which holds the update or is followed by it.
<1>11. r.ok = TRUE /\ Between(r.rep, n, s)
  <2>1. CASE m = InitMsg
    <3>1. r.ok /\ r.rep = hist[s + 1]
      BY <1>7, <1>8, <1>9, <2>1 DEF Brings
    <3>2. r.ok = TRUE
      BY <3>1 DEF States
    <3> QED BY <2>1, <3>1, <3>2 DEF Between
  <2>2. CASE m # InitMsg
    <3>1. m \in 1..length /\ given[k] # <<>>
      BY <1>5, <2>2
    <3>2. r = RecvAll(c, Fresh(replica[c]), body[m])
      BY <1>7, <2>2
    <3>3. r.ok = TRUE /\ Follows(r.rep, replica[c], m)
      BY <1>1, <1>8, <3>1, <3>2, OneMessage
    <3>4. Between(replica[c], Reached(k), s)
      <4>1. Latest(c, i)
        BY <1>3, <1>6, <3>1 DEF Latest
      <4>2. i \in dead[c]+1..MaxConns
        BY <1>1, <1>6 DEF ClientType
      <4> QED BY <1>3, <4>1, <4>2 DEF ReadInv
    <3>5. ASSUME NEW a \in Names, NEW q \in Keys
          PROVE  \/ replica[c][a][q] = hist[m][a][q]
                 \/ m < s /\ replica[c][a][q] = hist[s+1][a][q]
                 \/ m = s /\ replica[c][a][q] = hist[m+1][a][q]
      <4> DEFINE cell == replica[c][a][q]
      <4>1. \/ cell = hist[Reached(k) + 1][a][q]
            \/ Reached(k) < s /\ cell = hist[s + 1][a][q]
        BY <3>4 DEF Between
      <4> HIDE DEF cell, s
      <4>2. CASE Last(given[k]) = InitMsg
        <5>1. Reached(k) = s /\ m <= s + 1 /\ m \in Nat /\ s \in Nat
          BY <1>5, <1>9, <2>2, <3>1, <4>2 DEF Reached, s
        <5>2. cell = hist[s + 1][a][q]
          BY <4>1, <5>1
        <5>3. m = s + 1 \/ m = s \/ m < s
          BY <5>1
        <5> QED BY <5>2, <5>3 DEF cell
      <4>3. CASE Last(given[k]) # InitMsg
        <5>1. Reached(k) \in Nat /\ m = Reached(k) + 1 /\ s \in Nat
          <6>1. Reached(k) \in 0..length
            BY <3>1 DEF GivenInv
          <6> QED BY <1>1, <1>5, <1>9, <2>2, <4>3, <6>1 DEF Reached
        <5>2. Reached(k) < s => m < s \/ m = s
          BY <5>1
        <5> QED BY <4>1, <5>1, <5>2 DEF cell
      <4> QED BY <4>2, <4>3
    <3>6. ASSUME NEW a \in Names, NEW q \in Keys
          PROVE  r.rep[a][q] = hist[m+1][a][q] \/ (m < s /\ r.rep[a][q] = hist[s+1][a][q])
      BY <3>3, <3>5 DEF Follows
    <3> QED BY <2>2, <3>3, <3>6 DEF Between
  <2> QED BY <2>1, <2>2
<1>12. dead' = dead
    BY <1>7, <1>11
<1>13. ASSUME NEW d \in Clients, NEW j \in dead'[d]+1..MaxConns, Latest(d, j)'
       PROVE  Between(replica[d], Reached(<<d, j>>), snap[<<d, j>>])'
  <2>1. dead[d] \in Nat /\ j \in 1..MaxConns /\ <<d, j>> \in Conns
    BY <1>1, <1>12, <1>13 DEF ClientType, Conns
  <2>2. CASE d = c
    <3>1. j = i
      <4>1. ASSUME j > i PROVE FALSE
        <5>1. j \in i+1..MaxConns /\ <<c, j>> # k
          BY <1>3, <2>1, <4>1
        <5>2. given'[<<c, j>>] = given[<<c, j>>] /\ given[<<c, j>>] = <<>>
          BY <1>1, <1>5, <1>6, <2>1, <2>2, <5>1 DEF MsgType
        <5> QED BY <1>13, <2>2, <5>2 DEF Latest
      <4>2. ASSUME j < i PROVE FALSE
        <5>1. i \in j+1..MaxConns
          BY <2>1, <4>2
        <5> QED BY <1>3, <1>5, <1>13, <2>2, <5>1 DEF Latest
      <4> QED BY <2>1, <4>1, <4>2
    <3>2. <<d, j>> = k
      BY <1>3, <2>2, <3>1
    <3>3. replica'[c] = r.rep
      BY <1>1, <1>7 DEF ClientType
    <3>4. Between(r.rep, n, s)'
      BY <1>2, <1>11, Zenon DEF Between
    <3> QED BY <1>2, <1>10, <2>2, <3>2, <3>3, <1>11 DEF Between
  <2>3. CASE d # c
    <3>1. \A l \in 1..MaxConns : given'[<<d, l>>] = given[<<d, l>>]
      <4>1. \A l \in 1..MaxConns : <<d, l>> \in Conns /\ <<d, l>> # k
        BY <1>3, <2>3 DEF Conns
      <4> QED BY <1>1, <1>5, <4>1 DEF MsgType
    <3>2. Latest(d, j)
      <4>1. \A l \in j+1..MaxConns : l \in 1..MaxConns
        BY <2>1
      <4> QED BY <1>13, <2>1, <3>1, <4>1 DEF Latest
    <3>3. Between(replica[d], Reached(<<d, j>>), snap[<<d, j>>])
      BY <1>12, <3>2 DEF ReadInv
    <3>4. replica'[d] = replica[d]
      BY <1>1, <1>7, <2>3 DEF ClientType
    <3>5. Reached(<<d, j>>)' = Reached(<<d, j>>)
      BY <1>2, <2>1, <3>1 DEF Reached
    <3> QED BY <1>2, <3>3, <3>4, <3>5 DEF Between
  <2> QED BY <2>2, <2>3
<1> QED BY <1>13 DEF ReadInv

LEMMA ReadStep ==
    ASSUME ~Overlap, \A c \in Clients : Linked[c] = Names,
           TypeInv, HistInv, InitInv, GivenInv, ReadInv, Actions
    PROVE  ReadInv'
<1>1. MasterType /\ MsgType /\ ClientType /\ MaxConns \in Nat
    BY LogAssumption DEF TypeInv
<1>2. ASSUME UNCHANGED <<given, snap, hist, dead, replica>>
      PROVE  ReadInv'
    BY <1>2, Zenon, ReadKept
<1>3. ASSUME NEW t \in Threads, NEW a \in Names, BroadcastUpdates(t, a)
      PROVE  ReadInv'
  <2>1. UNCHANGED <<given, snap, dead, replica>>
    BY <1>3 DEF BroadcastUpdates, Publish, clientVars
  <2>2. \A m \in 1..length + 1 : hist'[m] = hist[m]
    BY <1>1, <1>3, Broadcasts
  <2> QED BY <2>1, <2>2, Zenon, ReadKept
<1>4. CASE InitBuild
  <2> DEFINE k == <<who, conn[who]>>
  <2>1. /\ given[k] = <<>> /\ snap' = [snap EXCEPT ![k] = length]
        /\ UNCHANGED <<given, hist, dead, replica>>
    BY <1>4 DEF InitBuild, Snapshot, clientVars
  <2> HIDE DEF k
  <2>2. \A j \in Conns : given[j] # <<>> => snap'[j] = snap[j]
    BY <1>1, <2>1 DEF MsgType
  <2> QED BY <2>1, <2>2, Zenon, ReadKept
<1>5. ASSUME NEW d \in Clients, Restart(d) PROVE ReadInv'
  <2>1. /\ dead' = [dead EXCEPT ![d] = conn[d]]
        /\ replica' = [replica EXCEPT ![d] = [a \in Names |-> Empty]]
        /\ UNCHANGED <<given, snap, hist>>
    BY <1>5 DEF Restart, msgVars, logVars
  <2>2. ASSUME NEW c \in Clients, NEW j \in dead'[c]+1..MaxConns, Latest(c, j)
        PROVE  j \in dead[c]+1..MaxConns /\ replica'[c] = replica[c]
    <3>1. CASE c = d
      <4>1. j > conn[c] /\ j \in 1..MaxConns
        BY <1>1, <2>1, <3>1 DEF ClientType
      <4>2. <<c, j>> \in Conns /\ <<c, j>>[1] = c /\ <<c, j>>[2] = j
        BY <4>1 DEF Conns
      <4>3. given[<<c, j>>] = <<>>
        BY <4>1, <4>2 DEF GivenInv
      <4> QED BY <2>2, <4>3 DEF Latest
    <3>2. CASE c # d
      BY <1>1, <2>1, <3>2 DEF ClientType
    <3> QED BY <3>1, <3>2
  <2> QED BY <2>1, <2>2, ReadKept
<1>6. ASSUME NEW t \in Threads, NEW a \in Names, NEW xs \in Seq(Cmds), Change(t, a, xs)
      PROVE  ReadInv'
  <2>1. UNCHANGED <<given, snap, hist, dead, replica>>
    BY <1>6 DEF Change, clientVars, msgVars, logVars
  <2> QED BY <1>2, <2>1
<1>7. CASE InitLock \/ StatsLock \/ StatsRead
  <2>1. UNCHANGED <<given, snap, hist, dead, replica>>
    BY <1>7 DEF InitLock, StatsLock, StatsRead, clientVars, msgVars, logVars
  <2> QED BY <1>2, <2>1
<1>8. ASSUME NEW c \in Clients, Connect(c) \/ Lose(c) PROVE ReadInv'
  <2>1. UNCHANGED <<given, snap, hist, dead, replica>>
    BY <1>8 DEF Connect, Lose, msgVars, logVars
  <2> QED BY <1>2, <2>1
<1>9. ASSUME NEW k \in Conns, NEW m \in Msgs \cup {InitMsg}, RecvUpdate(k, m) PROVE ReadInv'
    BY ONLY ~Overlap, \A c \in Clients : Linked[c] = Names,
            TypeInv, HistInv, InitInv, GivenInv, ReadInv, <1>9, ReadReceive
<1> QED BY <1>3, <1>4, <1>5, <1>6, <1>7, <1>8, <1>9 DEF Actions

LEMMA NvInvInit ==
    ASSUME Init
    PROVE  NvInv
<1>1. TypeInv
    BY TypeInit
<1>2. /\ length = 0 /\ hist = <<vars>> /\ init = <<>> /\ vars \in Reps
      /\ given = [k \in Conns |-> <<>>] /\ snap = [k \in Conns |-> NoSnap]
      /\ owner = [a \in Names |-> Nobody] /\ log = [a \in Names |-> <<>>]
      /\ dirty = [a \in Names |-> TRUE] /\ dead = [c \in Clients |-> 0]
    BY <1>1 DEF Init, LogInit, TypeInv, MasterType
<1>3. HistInv
  <2>1. Nobody \notin Threads
    BY NvAssumption
  <2>2. ASSUME NEW a \in Names
        PROVE  IF owner[a] \in Threads THEN vars[a] = ApplyAll(hist[length + 1][a], log[a])
               ELSE log[a] = <<>> /\ vars[a] = hist[length + 1][a]
    <3>1. owner[a] = Nobody /\ log[a] = <<>> /\ hist[length + 1] = vars
      BY <1>2
    <3> QED BY <2>1, <3>1, Zenon
  <2>3. \A m \in 1..length : Updates(m)
    BY <1>2
  <2> QED BY <2>2, <2>3, Zenon DEF HistInv
\* With no array at all there is nothing the initial message could leave out.
<1>4. InitInv
  <2>1. ASSUME \A a \in Names : ~dirty[a] PROVE Brings(init, vars)
    <3>1. Names = {}
      BY <1>2, <2>1
    <3>2. \A c \in Clients, r \in Reps : RecvAll(c, Fresh(r), init) = Fresh(r)
      BY <1>2, RecvNone
    <3>3. \A r \in Reps : r = vars
      BY <1>2, <3>1 DEF Reps
    <3> QED BY <3>2, <3>3 DEF Brings, Fresh
  <2>2. \A k \in Conns : snap[k] = NoSnap
    BY <1>2
  <2> QED BY <2>1, <2>2 DEF InitInv
<1>5. \A k \in Conns : given[k] = <<>>
    BY <1>2
<1>6. GivenInv
    BY <1>5 DEF GivenInv
<1>7. ReadInv
  <2>1. MaxConns \in Nat
    BY LogAssumption
  <2>2. \A c \in Clients : dead[c] = 0
    BY <1>2
  <2>3. \A c \in Clients, j \in 1..MaxConns : <<c, j>> \in Conns
    BY DEF Conns
  <2>4. \A c \in Clients, j \in 1..MaxConns : ~Latest(c, j)
    BY <1>5, <2>3 DEF Latest
  <2> QED BY <2>1, <2>2, <2>4 DEF ReadInv
<1> QED BY <1>1, <1>3, <1>4, <1>6, <1>7 DEF NvInv

LEMMA NvInvUnchanged ==
    ASSUME NvInv, UNCHANGED nvVars
    PROVE  NvInv'
<1>1. TypeInv'
    BY TypeUnchanged DEF NvInv
<1>2. UNCHANGED <<length, body, hist, vars, log, owner, given, snap, conn, dead, replica,
                  dirty, init, first>>
    BY DEF nvVars, masterVars, bcastVars, clientVars, msgVars, logVars
<1>3. HistInv'
    BY <1>2, HistKept DEF NvInv
<1>4. InitInv'
    BY <1>2, Zenon DEF NvInv, InitInv
<1>5. GivenInv'
    BY <1>2 DEF NvInv, GivenInv, Reached
<1>6. ReadInv'
    BY <1>2, ReadKept, Zenon DEF NvInv
<1> QED BY <1>1, <1>3, <1>4, <1>5, <1>6 DEF NvInv

LEMMA NvInvStep ==
    ASSUME ~Overlap, \A c \in Clients : Linked[c] = Names, NvInv, [Next]_nvVars
    PROVE  NvInv'
<1>1. TypeInv /\ HistInv /\ InitInv /\ GivenInv /\ ReadInv
    BY DEF NvInv
<1>2. CASE Next
  <2>1. Actions
    BY <1>1, <1>2, NextActions DEF TypeInv, MasterType
  <2>2. TypeInv'
    BY <1>1, TypeStep
  <2>3. HistInv'
    BY <1>1, <2>1, HistStep
  <2>4. InitInv'
    BY <1>1, <2>1, InitInvStep
  <2>5. GivenInv'
    BY <1>1, <2>1, GivenStep
  <2>6. ReadInv'
    BY <1>1, <2>1, ReadStep
  <2> QED BY <2>2, <2>3, <2>4, <2>5, <2>6 DEF NvInv
<1>3. CASE UNCHANGED nvVars
    BY <1>3, NvInvUnchanged
<1> QED BY <1>2, <1>3

LEMMA NvInvSynced ==
    ASSUME \A c \in Clients : Linked[c] = Names, NvInv
    PROVE  Synced
<1> SUFFICES ASSUME NEW c \in Clients, NEW j \in dead[c]+1..MaxConns, Latest(c, j),
                    Reached(<<c, j>>) >= snap[<<c, j>>]
             PROVE  SameArrays(c, hist[Reached(<<c, j>>) + 1])
    BY Zenon DEF Synced, Reached, Latest
<1> DEFINE n == Reached(<<c, j>>)
<1>1. MsgType /\ ClientType /\ length \in Nat /\ MaxConns \in Nat
    BY LogAssumption DEF NvInv, TypeInv, MsgType
<1>2. <<c, j>> \in Conns /\ given[<<c, j>>] # <<>>
    BY <1>1 DEF ClientType, Conns, Latest
<1>3. n \in 0..length /\ snap[<<c, j>>] \in Nat
    BY <1>1, <1>2, LogAssumption DEF NvInv, GivenInv, MsgType, NoSnap
<1>4. hist[n + 1] \in Reps /\ replica[c] \in Reps
    BY <1>1, <1>3, SMTT(30) DEF MsgType, ClientType
<1>5. \A a \in Names, q \in Keys : replica[c][a][q] = hist[n + 1][a][q]
    BY <1>3 DEF NvInv, ReadInv, Between
<1> HIDE DEF n
<1>6. ASSUME NEW a \in Names PROVE replica[c][a] = hist[n + 1][a]
  <2>1. replica[c][a] \in [Keys -> Cells] /\ hist[n + 1][a] \in [Keys -> Cells]
    BY <1>4 DEF Reps, Rows
  <2> QED BY <1>5, <2>1
<1> QED BY <1>6 DEF SameArrays, n

\* A replica is the server's arrays as of the last message it has got, from the
\* message on that its initial message already holds (ClientInitMsg, RecvUpdate),
\* if the client has configured every array and reads no old connection after
\* the next one: without the first an update can go to the wrong array
\* (nv.c:1687), without the second an old update can follow a newer one.
THEOREM AlwaysSynced ==
    ASSUME ~Overlap, \A c \in Clients : Linked[c] = Names
    PROVE  Spec => []Synced
<1>1. Init => NvInv
    BY NvInvInit
<1>2. NvInv /\ [Next]_nvVars => NvInv'
    BY NvInvStep
<1>3. NvInv => Synced
    BY NvInvSynced
<1> QED BY <1>1, <1>2, <1>3, PTL DEF Spec
=============================================================================
