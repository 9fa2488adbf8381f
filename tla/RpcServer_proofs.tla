-------------------------- MODULE RpcServer_proofs --------------------------
(***************************************************************************)
(* Proofs about RpcServer, for any clients, bounds and buffer sizes: its   *)
(* types, that what is executed is what was asked, that no byte is         *)
(* stranded in the read-ahead buffer and, when a send that is cut takes a  *)
(* whole header, that replies are sent whole.                              *)
(***************************************************************************)
EXTENDS RpcServer, ListLemmas

\* A byte, what is executed, and the sequences of bytes a client has.
Byte   == (Nat \X Nat) \X Nat \X Nat
Served == [req : Seq(Byte), body : Seq(Byte), reply : 0..MaxBody]

Streams ==
    /\ bufsize \in Nat
    /\ rpcmsg \in [Clients -> Seq(Byte)] /\ in \in [Clients -> Seq(Byte)]
    /\ ahead \in [Clients -> Seq(Byte)] /\ inq \in [Clients -> Seq(Byte)]
    /\ tosend \in [Clients -> Seq(Byte)] /\ outq \in [Clients -> Seq(Byte)]
    /\ heard \in [Clients -> Seq(Byte)] /\ iov \in [Clients -> Seq(Seq(Byte))]
    /\ asked \in [Clients -> Nat] /\ done \in [Clients -> Seq(Served)]

Values ==
    /\ state \in [Clients -> {"Retry", "Connecting", "RecvData", "SendData"}]
    /\ nleft \in [Clients -> 0..Hdr + MaxBody]
    /\ bufPtr \in [Clients -> {"rpcmsg", "in"}]
    /\ len \in [Clients -> 0..MaxBody]
    /\ ready \subseteq Clients /\ trigger \in BOOLEAN /\ running \in BOOLEAN
    /\ conn \in [Clients -> 0..MaxConns]
    /\ up \in [Clients -> {"no", "asked", "yes", "closed"}]
    /\ nlost \in 0..MaxLost

\* What is to come after the bytes p of a request.
Stream(p, c) == ((p \o ahead[c]) \o inq[c]) \o tosend[c]

\* Nothing has been asked of the connection.
Fresh(c) ==
    /\ ahead[c] = <<>> /\ inq[c] = <<>> /\ outq[c] = <<>> /\ tosend[c] = <<>>
    /\ heard[c] = <<>> /\ done[c] = <<>> /\ asked[c] = 0

\* No request is on its way.
NoRequest(c) ==
    /\ asked[c] = Len(done[c])
    /\ ahead[c] = <<>> /\ inq[c] = <<>> /\ tosend[c] = <<>>

\* A request with a body of n bytes is: what is received of its header, or of
\* its body, and what is to come are the whole.
InHeader(c, n) ==
    /\ bufPtr[c] = "rpcmsg" /\ Len(rpcmsg[c]) + nleft[c] = Hdr
    /\ Stream(rpcmsg[c], c) = Bytes(<<conn[c], asked[c]>>, n)

InBody(c, n) ==
    /\ bufPtr[c] = "in" /\ rpcmsg[c] = Header(<<conn[c], asked[c]>>, n)
    /\ len[c] = 0 /\ Len(in[c]) + nleft[c] = n
    /\ Stream(in[c], c) = Body(<<conn[c], asked[c]>>, n)

Receiving(c) ==
    /\ nleft[c] > 0 /\ (bufPtr[c] = "rpcmsg" => in[c] = <<>>)
    /\ \/ /\ NoRequest(c)
          /\ bufPtr[c] = "rpcmsg" /\ rpcmsg[c] = <<>> /\ nleft[c] = Hdr
       \/ /\ asked[c] = Len(done[c]) + 1
          /\ \E n \in 0..MaxBody : InHeader(c, n) \/ InBody(c, n)

\* There is one buffer or two, with no more than the nleft bytes.
Sending(c) ==
    /\ nleft[c] > 0 /\ NoRequest(c)
    /\ Len(iov[c]) \in {1, 2} /\ Len(Join(iov[c])) <= nleft[c]

\* What is executed is what was asked.
Executed(c) ==
    \A i \in 1..Len(done[c]) : \E n \in 0..MaxBody :
        /\ done[c][i].req = Header(<<conn[c], i>>, n)
        /\ done[c][i].body = Body(<<conn[c], i>>, n)

Open == {"RecvData", "SendData"}

\* The bytes that are sent and to be sent add up.
Counted(c) ==
    Len(heard[c]) + Len(outq[c]) + (IF state[c] = "SendData" THEN nleft[c] ELSE 0)
        = Len(Expected(c))

ClientInv(c) ==
    /\ Len(rpcmsg[c]) <= Hdr /\ Len(in[c]) <= MaxBody
    /\ Len(ahead[c]) <= bufsize
    /\ Len(inq[c]) <= Hdr + MaxBody /\ Len(outq[c]) <= Room
    /\ state[c] = "Retry" <=> up[c] = "no"
    /\ state[c] \notin Open => Fresh(c)
    /\ state[c] \in Open => Counted(c)
    /\ state[c] = "RecvData" => Receiving(c)
    /\ state[c] = "SendData" => Sending(c)
    /\ Executed(c)
    /\ c \in ready => state[c] # "Retry"
    /\ ahead[c] # <<>> => c \in ready

ServerInv == Streams /\ Values /\ \A c \in Clients : ClientInv(c)

\* The replies: the buffers hold the bytes that are left, and a header is sent
\* whole or not at all.
Whole(c) ==
    /\ state[c] = "RecvData" => heard[c] \o outq[c] = Expected(c)
    /\ state[c] = "SendData" =>
          /\ heard[c] \o outq[c] \o Join(iov[c]) = Expected(c)
          /\ Len(Join(iov[c])) = nleft[c]
          /\ Len(iov[c]) = 2 => Len(iov[c][1]) \in {0, Hdr}

WholeInv == \A c \in Clients : Whole(c)

-----------------------------------------------------------------------------
(* Sequences that are cut and joined.                                      *)

\* SubSeq and Drop cut a sequence in two.
LEMMA Cut ==
    ASSUME NEW S, NEW s \in Seq(S), NEW n \in Nat, n <= Len(s)
    PROVE  /\ SubSeq(s, 1, n) \in Seq(S) /\ Len(SubSeq(s, 1, n)) = n
           /\ Drop(s, n) \in Seq(S) /\ Len(Drop(s, n)) = Len(s) - n
           /\ SubSeq(s, 1, n) \o Drop(s, n) = s
<1>1. Len(s) \in Nat /\ \A i \in 1..Len(s) : s[i] \in S
    BY LenProperties, ElementOfSeq
<1>2. SubSeq(s, 1, n) \in Seq(S) /\ Len(SubSeq(s, 1, n)) = n
    BY <1>1, SubSeqProperties
<1>3. Drop(s, n) \in Seq(S) /\ Len(Drop(s, n)) = Len(s) - n
    BY <1>1, SubSeqProperties DEF Drop
<1>4. SubSeq(s, 1, n) \o Drop(s, n) = SubSeq(s, 1, Len(s))
  <2>1. 1 \in 1..Len(s)+1 /\ n \in 1-1..Len(s) /\ Len(s) \in n..Len(s)
    BY <1>1
  <2>2. SubSeq(s, 1, n) \o SubSeq(s, n+1, Len(s)) = SubSeq(s, 1, Len(s))
    BY ONLY s \in Seq(S), <2>1, ConcatAdjacentSubSeq, ZenonT(60)
  <2> QED BY <2>2, Zenon DEF Drop
<1> QED BY <1>2, <1>3, <1>4, SubSeqFull

LEMMA Lengths ==
    ASSUME NEW S, NEW a \in Seq(S), NEW b \in Seq(S)
    PROVE  a \o b \in Seq(S) /\ Len(a \o b) = Len(a) + Len(b)
BY ConcatProperties

\* Two ways to cut a sequence at the same place are the same.
LEMMA SameCut ==
    ASSUME NEW S, NEW a \in Seq(S), NEW b \in Seq(S), NEW u \in Seq(S),
           NEW v \in Seq(S), a \o b = u \o v, Len(a) = Len(u)
    PROVE  a = u /\ b = v
<1>1. a = u
  <2>1. \A i \in 1..Len(a) : (a \o b)[i] = a[i] /\ (u \o v)[i] = u[i]
    BY ConcatProperties, LenProperties
  <2> QED BY <2>1, SeqEqual
<1> QED BY <1>1, ConcatSimplifications

\* \o as an operator that the provers do not expand.
Cat(u, v) == u \o v

LEMMA Groups ==
    ASSUME NEW S, NEW u \in Seq(S), NEW v \in Seq(S), NEW w \in Seq(S)
    PROVE  Cat(u, v) \in Seq(S) /\ Cat(Cat(u, v), w) = Cat(u, Cat(v, w))
<1>1. u \o v \in Seq(S)
    BY ConcatProperties
<1>2. (u \o v) \o w = u \o (v \o w)
    BY ConcatAssociative, SMTT(30)
<1> QED BY <1>1, <1>2 DEF Cat

\* What is received, and the three parts of what is to come.
Row(p, a, i, t) == Cat(Cat(Cat(p, a), i), t)

Grouped(u, v, w) == Cat(Cat(u, v), w) = Cat(u, Cat(v, w))

LEMMA Grouping ==
    ASSUME NEW S, NEW u \in Seq(S), NEW v \in Seq(S), NEW w \in Seq(S)
    PROVE  Grouped(u, v, w)
BY Groups DEF Grouped

\* got comes first of a and then i, and b and then j are left.
Splits(a, i, got, b, j) == Cat(a, i) = Cat(Cat(got, b), j)
Moves(p, a, i, t, got, b, j) == Row(p, a, i, t) = Row(Cat(p, got), b, j, t)

\* What comes next moves from the rest to what is received.
LEMMA Moved ==
    ASSUME NEW S, NEW p \in Seq(S), NEW a \in Seq(S), NEW i \in Seq(S),
           NEW t \in Seq(S), NEW got \in Seq(S), NEW b \in Seq(S), NEW j \in Seq(S),
           Splits(a, i, got, b, j)
    PROVE  Moves(p, a, i, t, got, b, j)
<1>1. Cat(Cat(p, a), i) = Cat(p, Cat(Cat(got, b), j))
    BY Groups DEF Splits
<1>2. Cat(got, b) \in Seq(S) /\ Cat(p, Cat(got, b)) = Cat(Cat(p, got), b)
    BY Groups
<1>3. Cat(p, Cat(Cat(got, b), j)) = Cat(Cat(p, Cat(got, b)), j)
    BY <1>2, Groups
<1>4. Cat(Cat(p, a), i) = Cat(Cat(Cat(p, got), b), j)
    BY <1>1, <1>2, <1>3
<1> QED BY <1>4, Zenon DEF Row, Moves

\* More of the rest arrives.
LEMMA Arrived ==
    ASSUME NEW S, NEW p \in Seq(S), NEW a \in Seq(S), NEW i \in Seq(S),
           NEW part \in Seq(S), NEW rest \in Seq(S)
    PROVE  Row(p, a, i, Cat(part, rest)) = Row(p, a, Cat(i, part), rest)
<1>1. Cat(p, a) \in Seq(S) /\ Cat(part, rest) \in Seq(S) /\ Cat(i, part) \in Seq(S)
    BY Groups
<1>2. Cat(Cat(Cat(p, a), i), Cat(part, rest)) = Cat(Cat(p, a), Cat(i, Cat(part, rest)))
    BY <1>1, Groups
<1>3. Cat(i, Cat(part, rest)) = Cat(Cat(i, part), rest)
    BY Groups
<1>4. Cat(Cat(p, a), Cat(Cat(i, part), rest)) = Cat(Cat(Cat(p, a), Cat(i, part)), rest)
    BY <1>1, Groups
<1> QED BY <1>2, <1>3, <1>4, Zenon DEF Row

LEMMA FrontRow ==
    ASSUME NEW S, NEW p \in Seq(S), NEW a \in Seq(S), NEW i \in Seq(S), NEW t \in Seq(S)
    PROVE  /\ Row(p, a, i, t) = Cat(p, Cat(Cat(a, i), t))
           /\ Cat(Cat(a, i), t) \in Seq(S) /\ Cat(a, i) \in Seq(S)
<1>1. Cat(a, i) \in Seq(S) /\ Cat(Cat(a, i), t) \in Seq(S)
    BY Groups
<1>2. Cat(Cat(p, a), i) = Cat(p, Cat(a, i))
    BY Groups
<1>3. Cat(Cat(p, Cat(a, i)), t) = Cat(p, Cat(Cat(a, i), t))
    BY <1>1, Groups
<1> QED BY <1>1, <1>2, <1>3, Zenon DEF Row

LEMMA CatLen ==
    ASSUME NEW S, NEW a \in Seq(S), NEW b \in Seq(S)
    PROVE  Cat(a, b) \in Seq(S) /\ Len(Cat(a, b)) = Len(a) + Len(b)
BY Lengths DEF Cat

RowLength(p, a, i, t) == Len(Row(p, a, i, t)) = Len(p) + Len(a) + Len(i) + Len(t)

LEMMA RowLen ==
    ASSUME NEW S, NEW p \in Seq(S), NEW a \in Seq(S), NEW i \in Seq(S), NEW t \in Seq(S)
    PROVE  RowLength(p, a, i, t)
<1>1. Cat(p, a) \in Seq(S) /\ Len(Cat(p, a)) = Len(p) + Len(a)
    BY CatLen
<1>2. Cat(Cat(p, a), i) \in Seq(S) /\ Len(Cat(Cat(p, a), i)) = Len(Cat(p, a)) + Len(i)
    BY <1>1, CatLen
<1>3. /\ Cat(Cat(Cat(p, a), i), t) \in Seq(S)
      /\ Len(Cat(Cat(Cat(p, a), i), t)) = Len(Cat(Cat(p, a), i)) + Len(t)
    BY <1>2, CatLen
<1> QED BY <1>1, <1>2, <1>3, Zenon DEF Row, RowLength

LEMMA Part ==
    ASSUME NEW a \in Nat, NEW b \in Nat, NEW d \in Nat, NEW e \in Nat, NEW s,
           s = a + b + d + e
    PROVE  d <= s
OBVIOUS

LEMMA Nothing == ASSUME NEW S PROVE <<>> \in Seq(S) /\ Len(<<>>) = 0
OBVIOUS

LEMMA NoLength == ASSUME NEW S, NEW s \in Seq(S) PROVE Len(s) = 0 <=> s = <<>>
OBVIOUS

-----------------------------------------------------------------------------
(* Join.                                                                   *)

JoinRun(f, ss) == f = [n \in 0..Len(ss) |-> IF n = 0 THEN <<>> ELSE f[n-1] \o ss[n]]

JoinVals(f, ss) == f[0] = <<>> /\ \A n \in 1..Len(ss) : f[n] = f[n-1] \o ss[n]

LEMMA JoinSteps ==
    ASSUME NEW S, NEW ss \in Seq(S), NEW f, JoinRun(f, ss)
    PROVE  JoinVals(f, ss)
<1> DEFINE R(n) == IF n = 0 THEN <<>> ELSE f[n-1] \o ss[n]
<1>1. f = [n \in 0..Len(ss) |-> R(n)]
    BY DEF JoinRun
<1>2. R(0) = <<>> /\ \A n \in 1..Len(ss) : R(n) = f[n-1] \o ss[n]
  <2>1. \A n \in 1..Len(ss) : n # 0
    OBVIOUS
  <2> QED BY <2>1, Zenon
<1>3. Len(ss) \in Nat
    OBVIOUS
<1> HIDE DEF R
<1>4. \A n \in 0..Len(ss) : f[n] = R(n)
    BY <1>1
<1>5. 0 \in 0..Len(ss) /\ \A n \in 1..Len(ss) : n \in 0..Len(ss)
    BY <1>3
<1> QED BY <1>2, <1>4, <1>5 DEF JoinVals

\* Join is the last value of any function with these steps.
LEMMA JoinIs ==
    ASSUME NEW S, NEW ss \in Seq(S), NEW f, JoinRun(f, ss)
    PROVE  Join(ss) = f[Len(ss)]
<1> DEFINE e == CHOOSE g : JoinRun(g, ss)
<1>1. JoinRun(e, ss)
    BY Zenon
<1>2. Join(ss) = e[Len(ss)]
    BY Zenon DEF Join, JoinRun
<1> HIDE DEF e
<1>3. JoinVals(e, ss) /\ JoinVals(f, ss)
    BY <1>1, JoinSteps
<1>4. Len(ss) \in Nat
    OBVIOUS
<1> DEFINE G == {n \in Nat : e[n] = f[n]}
<1>5. 0 \in G
    BY <1>3 DEF JoinVals
<1>6. ASSUME NEW n \in 0..Len(ss), n < Len(ss), n \in G PROVE n + 1 \in G
  <2>1. n + 1 \in 1..Len(ss) /\ (n + 1) - 1 = n /\ n + 1 \in Nat
    BY <1>4, <1>6
  <2>2. e[n + 1] = e[n] \o ss[n + 1] /\ f[n + 1] = f[n] \o ss[n + 1]
    BY <2>1, <1>3 DEF JoinVals
  <2> QED BY <2>1, <2>2, <1>6
<1> HIDE DEF G
<1>7. \A n \in 0..Len(ss) : n \in G
    BY <1>4, <1>5, <1>6, Induct
<1>8. Len(ss) \in G
    BY <1>4, <1>7
<1> QED BY <1>2, <1>8 DEF G

LEMMA JoinTo ==
    ASSUME NEW S, NEW ss \in Seq(S), NEW T, NEW f \in [0..Len(ss) -> T],
           JoinVals(f, ss)
    PROVE  Join(ss) = f[Len(ss)]
<1> DEFINE R(n) == IF n = 0 THEN <<>> ELSE f[n-1] \o ss[n]
<1>1. Len(ss) \in Nat
    OBVIOUS
<1>2. ASSUME NEW n \in 0..Len(ss) PROVE f[n] = R(n)
  <2>1. CASE n = 0
    BY <2>1 DEF JoinVals
  <2>2. CASE n \in 1..Len(ss)
    BY <2>2 DEF JoinVals
  <2>3. n = 0 \/ n \in 1..Len(ss)
    BY <1>1
  <2> QED BY <2>1, <2>2, <2>3, Zenon
<1> HIDE DEF R
<1>3. f = [n \in 0..Len(ss) |-> R(n)]
    BY <1>2
<1>4. JoinRun(f, ss)
    BY <1>3, Zenon DEF JoinRun, R
<1> QED BY ONLY ss \in Seq(S), <1>4, JoinIs, ZenonT(60)

\* A function that joins the sequences one by one.
LEMMA JoinFun ==
    ASSUME NEW S, NEW ss \in Seq(Seq(S))
    PROVE  \E f \in [0..Len(ss) -> Seq(S)] : JoinVals(f, ss) /\ Join(ss) = f[Len(ss)]
<1> DEFINE g == [n \in 1..Len(ss) |-> [s \in Seq(S) |-> s \o ss[n]]]
<1>1. Len(ss) \in Nat /\ \A n \in 1..Len(ss) : ss[n] \in Seq(S)
    BY LenProperties, ElementOfSeq
<1>2. g \in [1..Len(ss) -> [Seq(S) -> Seq(S)]]
    BY <1>1, ConcatProperties
<1>3. \A n \in 1..Len(ss) : \A s \in Seq(S) : g[n][s] = s \o ss[n]
    OBVIOUS
<1>4. <<>> \in Seq(S)
    OBVIOUS
<1> HIDE DEF g
<1>5. PICK f \in [0..Len(ss) -> Seq(S)] : Chain(f, <<>>, g, Len(ss))
    BY <1>1, <1>2, <1>4, Recursion
<1>6. JoinVals(f, ss)
  <2>1. ASSUME NEW n \in 1..Len(ss) PROVE f[n] = f[n-1] \o ss[n]
    <3>1. n - 1 \in 0..Len(ss)
      BY <1>1
    <3>2. f[n-1] \in Seq(S)
      BY <3>1, <1>5
    <3> QED BY <3>2, <1>3, <1>5 DEF Chain
  <2> QED BY <2>1, <1>5 DEF JoinVals, Chain
<1>7. Join(ss) = f[Len(ss)]
    BY <1>5, <1>6, JoinTo, ZenonT(60)
<1> QED BY <1>6, <1>7

LEMMA JoinType ==
    ASSUME NEW S, NEW ss \in Seq(Seq(S))
    PROVE  Join(ss) \in Seq(S)
<1>1. PICK f \in [0..Len(ss) -> Seq(S)] : Join(ss) = f[Len(ss)]
    BY JoinFun
<1>2. Len(ss) \in 0..Len(ss)
    BY LenProperties
<1> QED BY <1>1, <1>2

LEMMA JoinEmpty == Join(<<>>) = <<>>
<1>1. <<>> \in Seq(Seq({})) /\ Len(<<>>) = 0
    OBVIOUS
<1>2. PICK f \in [0..Len(<<>>) -> Seq({})] :
        JoinVals(f, <<>>) /\ Join(<<>>) = f[Len(<<>>)]
    BY <1>1, JoinFun
<1> QED BY <1>1, <1>2 DEF JoinVals

\* One sequence more.
LEMMA JoinAppend ==
    ASSUME NEW S, NEW ss \in Seq(Seq(S)), NEW x \in Seq(S)
    PROVE  Join(Append(ss, x)) = Join(ss) \o x
<1> DEFINE N == Len(ss)
           tt == Append(ss, x)
<1>1. PICK f \in [0..N -> Seq(S)] : JoinVals(f, ss) /\ Join(ss) = f[N]
    BY JoinFun
<1>2. /\ N \in Nat /\ tt \in Seq(Seq(S)) /\ Len(tt) = N + 1
      /\ tt[N + 1] = x /\ \A n \in 1..N : tt[n] = ss[n]
    BY AppendProperties, LenProperties
<1> DEFINE h == [n \in 0..N + 1 |-> IF n = N + 1 THEN f[N] \o x ELSE f[n]]
<1> HIDE DEF N, tt
<1>3. f[N] \in Seq(S)
    BY <1>1, <1>2
<1>4. f[N] \o x \in Seq(S)
    BY <1>3, Lengths
<1>5. h \in [0..Len(tt) -> Seq(S)]
    BY <1>1, <1>2, <1>4
<1>6. h[N + 1] = f[N] \o x /\ \A n \in 0..N : h[n] = f[n]
    BY <1>2
<1> HIDE DEF h
<1>7. JoinVals(h, tt)
  <2>1. h[0] = <<>>
    BY <1>1, <1>2, <1>6 DEF JoinVals
  <2>2. ASSUME NEW n \in 1..N + 1 PROVE h[n] = h[n-1] \o tt[n]
    <3>1. CASE n = N + 1
      <4>1. n - 1 = N /\ N \in 0..N
        BY <3>1, <1>2
      <4> QED BY <3>1, <4>1, <1>2, <1>6
    <3>2. CASE n \in 1..N
      <4>1. n \in 0..N /\ n - 1 \in 0..N
        BY <3>2, <1>2
      <4>2. f[n] = f[n-1] \o ss[n]
        BY <3>2, <1>1 DEF JoinVals, N
      <4> QED BY <3>2, <4>1, <4>2, <1>2, <1>6
    <3> QED BY <3>1, <3>2, <1>2, SMTT(30)
  <2> QED BY <2>1, <2>2, <1>2 DEF JoinVals
<1>8. Join(tt) = h[Len(tt)]
    BY <1>2, <1>5, <1>7, JoinTo, ZenonT(60)
<1> QED BY <1>1, <1>2, <1>6, <1>8 DEF tt

LEMMA JoinOne ==
    ASSUME NEW S, NEW x \in Seq(S)
    PROVE  Join(<<x>>) = x
<1>1. <<>> \in Seq(Seq(S)) /\ <<x>> = Append(<<>>, x)
    OBVIOUS
<1>2. Join(<<x>>) = Join(<<>>) \o x
    BY <1>1, JoinAppend
<1> QED BY <1>2, JoinEmpty, ConcatEmptySeq

LEMMA JoinTwo ==
    ASSUME NEW S, NEW x \in Seq(S), NEW y \in Seq(S)
    PROVE  Join(<<x, y>>) = x \o y
<1>1. <<x>> \in Seq(Seq(S)) /\ <<x, y>> = Append(<<x>>, y)
    OBVIOUS
<1>2. Join(<<x, y>>) = Join(<<x>>) \o y
    BY <1>1, JoinAppend
<1> QED BY <1>2, JoinOne

-----------------------------------------------------------------------------
(* UpdateIov, for the one buffer or the two of a reply.                    *)

LeftRun(f, bufs, n) ==
    f = [i \in 1..Len(bufs) + 1 |->
            IF i = 1 THEN n
            ELSE IF f[i-1] >= Len(bufs[i-1]) THEN f[i-1] - Len(bufs[i-1])
            ELSE f[i-1]]

\* What is left of n after a buffer.
Over(n, k) == IF n >= k THEN n - k ELSE n

LEMMA OneBuffer ==
    ASSUME NEW S, NEW x \in Seq(S), NEW n \in Nat, n <= Len(x)
    PROVE  UpdateIov(<<x>>, n) = <<Drop(x, n)>>
<1> DEFINE b == <<x>>
           f == [i \in 1..2 |-> IF i = 1 THEN n ELSE Over(n, Len(x))]
           e == CHOOSE g : LeftRun(g, b, n)
<1>1. Len(b) = 1 /\ b[1] = x /\ b \in Seq(Seq(S)) /\ Len(x) \in Nat
    OBVIOUS
<1> HIDE DEF b
<1>2. f[1] = n /\ f[2] = Over(n, Len(x))
    OBVIOUS
<1>3. LeftRun(f, b, n)
  <2> HIDE DEF f
  <2> DEFINE R(i) == IF i = 1 THEN n
                     ELSE IF f[i-1] >= Len(b[i-1]) THEN f[i-1] - Len(b[i-1])
                     ELSE f[i-1]
  <2>1. R(1) = n /\ R(2) = Over(n, Len(x))
    BY <1>1, <1>2 DEF Over
  <2> HIDE DEF R
  <2>2. f = [i \in 1..Len(b) + 1 |-> R(i)]
    BY <1>1, <1>2, <2>1 DEF f
  <2> QED BY <2>2, Zenon DEF LeftRun, R
<1>4. LeftRun(e, b, n)
    BY <1>3, Zenon
<1>5. UpdateIov(b, n) = [i \in 1..Len(b) |-> Drop(b[i], Least(e[i], Len(b[i])))]
    BY Zenon DEF UpdateIov, LeftRun
<1> HIDE DEF e, f
<1>6. e[1] = n
    BY <1>1, <1>4 DEF LeftRun
<1>7. UpdateIov(b, n) = [i \in 1..1 |-> Drop(x, n)]
    BY <1>1, <1>5, <1>6 DEF Least
<1>8. [i \in 1..1 |-> Drop(x, n)] = <<Drop(x, n)>>
    OBVIOUS
<1> QED BY <1>7, <1>8 DEF b

LEMMA TwoBuffers ==
    ASSUME NEW S, NEW x \in Seq(S), NEW y \in Seq(S), NEW n \in Nat
    PROVE  UpdateIov(<<x, y>>, n) =
               <<Drop(x, Least(n, Len(x))), Drop(y, Least(Over(n, Len(x)), Len(y)))>>
<1> DEFINE b == <<x, y>>
           m == Over(n, Len(x))
           f == [i \in 1..3 |-> IF i = 1 THEN n ELSE IF i = 2 THEN m
                                ELSE Over(m, Len(y))]
           e == CHOOSE g : LeftRun(g, b, n)
<1>1. Len(b) = 2 /\ b[1] = x /\ b[2] = y /\ Len(x) \in Nat /\ Len(y) \in Nat
    OBVIOUS
<1>2. m \in Nat /\ m = IF n >= Len(x) THEN n - Len(x) ELSE n
    BY <1>1 DEF Over
<1>3. f[1] = n /\ f[2] = m /\ f[3] = Over(m, Len(y))
    OBVIOUS
<1> HIDE DEF b, m
<1>4. LeftRun(f, b, n)
  <2> HIDE DEF f
  <2> DEFINE R(i) == IF i = 1 THEN n
                     ELSE IF f[i-1] >= Len(b[i-1]) THEN f[i-1] - Len(b[i-1])
                     ELSE f[i-1]
  <2>1. R(1) = n
    OBVIOUS
  <2>2. R(2) = m
    BY <1>1, <1>2, <1>3
  <2>3. R(3) = Over(m, Len(y))
    BY <1>1, <1>2, <1>3 DEF Over
  <2> HIDE DEF R
  <2>4. f = [i \in 1..Len(b) + 1 |-> R(i)]
    <3>1. f = [i \in 1..3 |-> f[i]]
      BY DEF f
    <3>2. \A i \in 1..3 : f[i] = R(i)
      BY <1>3, <2>1, <2>2, <2>3
    <3>3. f = [i \in 1..3 |-> R(i)]
      BY <3>1, <3>2, Zenon
    <3>4. 1..Len(b) + 1 = 1..3
      BY <1>1
    <3> QED BY <3>3, <3>4, Zenon
  <2> QED BY <2>4, Zenon DEF LeftRun, R
<1>5. LeftRun(e, b, n)
    BY <1>4, Zenon
<1>6. UpdateIov(b, n) = [i \in 1..Len(b) |-> Drop(b[i], Least(e[i], Len(b[i])))]
    BY Zenon DEF UpdateIov, LeftRun
<1> HIDE DEF e, f
<1>7. e[1] = n
    BY <1>1, <1>5 DEF LeftRun
<1>8. e[2] = m
    BY <1>1, <1>2, <1>5, <1>7 DEF LeftRun
<1> DEFINE X == Drop(x, Least(n, Len(x)))
           Y == Drop(y, Least(m, Len(y)))
           U(i) == Drop(b[i], Least(e[i], Len(b[i])))
<1>9. U(1) = X /\ U(2) = Y
    BY <1>1, <1>7, <1>8, Zenon
<1>10. UpdateIov(b, n) = [i \in 1..2 |-> U(i)]
    BY <1>1, <1>6, Zenon
<1> HIDE DEF X, Y, U
<1>11. [i \in 1..2 |-> U(i)] = <<X, Y>>
    BY <1>9
<1> QED BY <1>10, <1>11, Zenon DEF X, Y, b, m

\* What is sent of the buffers is dropped, and no less; all of the first
\* buffer and a part of the second are dropped exactly.
LEMMA Updated ==
    ASSUME NEW S, NEW bufs \in Seq(Seq(S)), Len(bufs) \in {1, 2},
           NEW n \in Nat, n <= Len(Join(bufs))
    PROVE  /\ UpdateIov(bufs, n) \in Seq(Seq(S)) /\ Len(UpdateIov(bufs, n)) = Len(bufs)
           /\ Len(Join(UpdateIov(bufs, n))) <= Len(Join(bufs)) - n
           /\ (Len(bufs) = 2 => n >= Len(bufs[1])) =>
                 /\ Join(UpdateIov(bufs, n)) = Drop(Join(bufs), n)
                 /\ Len(bufs) = 2 => Len(UpdateIov(bufs, n)[1]) = 0
<1>1. CASE Len(bufs) = 1
  <2>1. PICK x \in Seq(S) : bufs = <<x>>
    <3>1. bufs[1] \in Seq(S)
      BY <1>1, ElementOfSeq
    <3>2. bufs = <<bufs[1]>>
      BY <1>1, <3>1, SeqEqual
    <3> QED BY <3>1, <3>2
  <2>2. Join(bufs) = x
    BY <2>1, JoinOne
  <2>3. UpdateIov(bufs, n) = <<Drop(x, n)>>
    BY <2>1, <2>2, OneBuffer
  <2>4. Drop(x, n) \in Seq(S) /\ Len(Drop(x, n)) = Len(x) - n
    BY <2>2, Cut
  <2>5. Join(<<Drop(x, n)>>) = Drop(x, n)
    BY <2>4, JoinOne
  <2>6. <<Drop(x, n)>> \in Seq(Seq(S)) /\ Len(<<Drop(x, n)>>) = 1
    BY <2>4
  <2> HIDE DEF Drop
  <2>7. Len(x) - n <= Len(x) - n
    BY LenProperties
  <2> QED BY <1>1, <2>2, <2>3, <2>4, <2>5, <2>6, <2>7
<1>2. CASE Len(bufs) = 2
  <2>1. PICK x \in Seq(S), y \in Seq(S) : bufs = <<x, y>>
    <3>1. bufs[1] \in Seq(S) /\ bufs[2] \in Seq(S)
      <4>1. 1 \in 1..Len(bufs) /\ 2 \in 1..Len(bufs)
        BY <1>2
      <4> QED BY <4>1, ElementOfSeq
    <3>2. bufs = <<bufs[1], bufs[2]>>
      BY <1>2, <3>1, SeqEqual
    <3> QED BY <3>1, <3>2
  <2> DEFINE k == Least(n, Len(x))
             l == Least(Over(n, Len(x)), Len(y))
             X == Drop(x, k)
             Y == Drop(y, l)
  <2>2. Len(x) \in Nat /\ Len(y) \in Nat
    BY LenProperties
  <2>3. Join(bufs) = x \o y /\ Len(Join(bufs)) = Len(x) + Len(y)
    <3>1. Join(bufs) = x \o y
      BY <2>1, JoinTwo
    <3>2. Len(x \o y) = Len(x) + Len(y)
      BY Lengths
    <3> QED BY <3>1, <3>2, Zenon
  <2>4. UpdateIov(bufs, n) = <<X, Y>>
    BY <2>1, TwoBuffers
  <2>5. /\ k \in Nat /\ k <= Len(x) /\ l \in Nat /\ l <= Len(y) /\ k + l >= n
        /\ n >= Len(x) => k = Len(x) /\ l = n - Len(x)
    <3> DEFINE a == Len(x)
               b == Len(y)
    <3>1. a \in Nat /\ b \in Nat /\ n <= a + b
      BY <2>2, <2>3
    <3> HIDE DEF a, b
    <3>2. /\ Least(n, a) \in Nat /\ Least(n, a) <= a
          /\ n >= a => Least(n, a) = a /\ Over(n, a) = n - a
      BY <3>1 DEF Least, Over
    <3>3. /\ Least(Over(n, a), b) \in Nat /\ Least(Over(n, a), b) <= b
          /\ Least(n, a) + Least(Over(n, a), b) >= n
          /\ n >= a => Least(Over(n, a), b) = n - a
      BY <3>1 DEF Least, Over
    <3> QED BY <3>2, <3>3 DEF a, b
  <2> HIDE DEF k, l
  <2>6. /\ X \in Seq(S) /\ Len(X) = Len(x) - k /\ Y \in Seq(S) /\ Len(Y) = Len(y) - l
    BY <2>5, Cut
  <2> HIDE DEF X, Y
  <2>7. Join(<<X, Y>>) = X \o Y /\ Len(Join(<<X, Y>>)) = Len(X) + Len(Y)
    <3>1. Join(<<X, Y>>) = X \o Y
      BY <2>6, JoinTwo
    <3>2. Len(X \o Y) = Len(X) + Len(Y)
      BY <2>6, Lengths
    <3> QED BY <3>1, <3>2, Zenon
  <2>8. <<X, Y>> \in Seq(Seq(S)) /\ Len(<<X, Y>>) = 2 /\ <<X, Y>>[1] = X
    BY <2>6
  <2>9. Len(Join(<<X, Y>>)) <= Len(Join(bufs)) - n
    BY <2>2, <2>3, <2>5, <2>6, <2>7
  <2>10. ASSUME n >= Len(bufs[1])
         PROVE  Join(<<X, Y>>) = Drop(Join(bufs), n) /\ Len(X) = 0
    <3>1. bufs[1] = x
      BY <2>1
    <3>2. k = Len(x) /\ l = n - Len(x) /\ Len(X) = 0
      BY <2>2, <2>5, <2>6, <2>10, <3>1
    <3>3. X \o Y = Y
      BY <2>6, <3>2, ConcatEmptySeq, NoLength
    <3>4. SubSeq(y, 1, l) \in Seq(S) /\ Len(SubSeq(y, 1, l)) = l /\ SubSeq(y, 1, l) \o Y = y
      BY <2>5, Cut DEF Y
    <3> DEFINE P == x \o SubSeq(y, 1, l)
    <3>5. P \in Seq(S) /\ Len(P) = n
      BY <2>2, <2>5, <3>2, <3>4, Lengths
    <3>6. P \o Y = x \o y
      <4>1. (x \o SubSeq(y, 1, l)) \o Y = x \o (SubSeq(y, 1, l) \o Y)
        <5> DEFINE z == SubSeq(y, 1, l)
        <5>1. z \in Seq(S)
          BY <3>4
        <5> HIDE DEF z
        <5>2. Cat(Cat(x, z), Y) = Cat(x, Cat(z, Y))
          BY <2>6, <5>1, Groups
        <5> QED BY <5>2, Zenon DEF Cat, z
      <4> QED BY <3>4, <4>1, Zenon
    <3>7. /\ SubSeq(x \o y, 1, n) \in Seq(S) /\ Len(SubSeq(x \o y, 1, n)) = n
          /\ Drop(x \o y, n) \in Seq(S)
          /\ SubSeq(x \o y, 1, n) \o Drop(x \o y, n) = x \o y
      <4>1. x \o y \in Seq(S) /\ n <= Len(x \o y)
        BY <2>3, Lengths
      <4> QED BY <4>1, Cut
    <3> HIDE DEF P
    <3>8. Y = Drop(x \o y, n)
      <4> DEFINE A == SubSeq(x \o y, 1, n)
                 B == Drop(x \o y, n)
      <4>1. A \in Seq(S) /\ B \in Seq(S) /\ Len(P) = Len(A) /\ P \o Y = A \o B
        BY <3>5, <3>6, <3>7, Zenon
      <4> HIDE DEF A, B
      <4>2. Y = B
        BY ONLY <2>6, <3>5, <4>1, SameCut, Zenon
      <4> QED BY <4>2 DEF B
    <3> QED BY <2>3, <2>7, <3>2, <3>3, <3>8
  <2> QED BY <1>2, <2>4, <2>8, <2>9, <2>10
<1> QED BY <1>1, <1>2

-----------------------------------------------------------------------------
(* Requests and replies.                                                   *)

LEMMA OneByte == ASSUME NEW q \in Nat \X Nat, NEW n \in Nat, NEW i \in Nat
                 PROVE  <<q, n, i>> \in Byte
BY DEF Byte

LEMMA HeaderIs ==
    ASSUME ServerAssumption, NEW q \in Nat \X Nat, NEW n \in Nat
    PROVE  /\ Header(q, n) \in Seq(Byte) /\ Len(Header(q, n)) = Hdr
           /\ \A i \in 1..Hdr : Header(q, n)[i] = <<q, n, i>>
           /\ Header(q, n)[1] = <<q, n, 1>>
<1>1. Hdr \in Nat \ {0}
    BY DEF ServerAssumption
<1>2. \A i \in 1..Hdr : <<q, n, i>> \in Byte
    BY <1>1, OneByte
<1> DEFINE B(i) == <<q, n, i>>
<1>3. \A i \in 1..Hdr : B(i) \in Byte
    BY <1>2
<1>4. [i \in 1..Hdr |-> B(i)] = Header(q, n)
    BY DEF Header
<1>5. 1 \in 1..Hdr
    BY <1>1
<1> HIDE DEF B
<1>6. /\ [i \in 1..Hdr |-> B(i)] \in Seq(Byte) /\ Len([i \in 1..Hdr |-> B(i)]) = Hdr
      /\ \A i \in 1..Hdr : [j \in 1..Hdr |-> B(j)][i] = B(i)
    BY <1>1, <1>3
<1> QED BY <1>4, <1>5, <1>6, Zenon DEF B

LEMMA BodyIs ==
    ASSUME ServerAssumption, NEW q \in Nat \X Nat, NEW n \in Nat
    PROVE  /\ Body(q, n) \in Seq(Byte) /\ Len(Body(q, n)) = n
           /\ \A i \in 1..n : Body(q, n)[i] = <<q, n, Hdr + i>>
<1>1. Hdr \in Nat \ {0}
    BY DEF ServerAssumption
<1> DEFINE B(i) == <<q, n, Hdr + i>>
<1>2. \A i \in 1..n : Hdr + i \in Nat
    BY <1>1
<1>3. \A i \in 1..n : B(i) \in Byte
    BY <1>2, OneByte
<1>4. [i \in 1..n |-> B(i)] = Body(q, n)
    BY DEF Body
<1> HIDE DEF B
<1>5. /\ [i \in 1..n |-> B(i)] \in Seq(Byte) /\ Len([i \in 1..n |-> B(i)]) = n
      /\ \A i \in 1..n : [j \in 1..n |-> B(j)][i] = B(i)
    BY <1>3
<1> QED BY <1>4, <1>5, Zenon DEF B

\* A message is its header and its body.
LEMMA BytesIs ==
    ASSUME ServerAssumption, NEW q \in Nat \X Nat, NEW n \in Nat
    PROVE  /\ Bytes(q, n) \in Seq(Byte) /\ Len(Bytes(q, n)) = Hdr + n
           /\ Bytes(q, n) = Header(q, n) \o Body(q, n)
<1>1. Hdr \in Nat \ {0} /\ Hdr + n \in Nat
    BY DEF ServerAssumption
<1> DEFINE B(i) == <<q, n, i>>
<1>2. \A i \in 1..Hdr + n : B(i) \in Byte
    BY <1>1, OneByte
<1>3. [i \in 1..Hdr + n |-> B(i)] = Bytes(q, n)
    BY DEF Bytes
<1> HIDE DEF B
<1>4. /\ [i \in 1..Hdr + n |-> B(i)] \in Seq(Byte)
      /\ Len([i \in 1..Hdr + n |-> B(i)]) = Hdr + n
      /\ \A i \in 1..Hdr + n : [j \in 1..Hdr + n |-> B(j)][i] = B(i)
    BY <1>1, <1>2
<1>5. /\ Bytes(q, n) \in Seq(Byte) /\ Len(Bytes(q, n)) = Hdr + n
      /\ \A i \in 1..Hdr + n : Bytes(q, n)[i] = B(i)
    BY <1>3, <1>4, Zenon
<1> DEFINE w == Header(q, n) \o Body(q, n)
<1>6. /\ Header(q, n) \in Seq(Byte) /\ Len(Header(q, n)) = Hdr
      /\ \A i \in 1..Hdr : Header(q, n)[i] = B(i)
    BY HeaderIs DEF B
<1>7. /\ Body(q, n) \in Seq(Byte) /\ Len(Body(q, n)) = n
      /\ \A i \in 1..n : Body(q, n)[i] = B(Hdr + i)
    BY BodyIs DEF B
<1>8. /\ w \in Seq(Byte) /\ Len(w) = Hdr + n
      /\ \A i \in 1..Hdr + n : w[i] = IF i <= Hdr THEN Header(q, n)[i]
                                      ELSE Body(q, n)[i - Hdr]
  <2> DEFINE h == Header(q, n)
             b == Body(q, n)
  <2>1. h \in Seq(Byte) /\ Len(h) = Hdr /\ b \in Seq(Byte) /\ Len(b) = n
    BY <1>6, <1>7
  <2> HIDE DEF h, b
  <2>2. /\ h \o b \in Seq(Byte) /\ Len(h \o b) = Hdr + n
        /\ \A i \in 1..Hdr + n : (h \o b)[i] = IF i <= Hdr THEN h[i] ELSE b[i - Hdr]
    BY <2>1, ConcatProperties, ZenonT(40)
  <2> QED BY <2>2 DEF h, b
<1> HIDE DEF w
<1>9. ASSUME NEW i \in 1..Hdr + n PROVE w[i] = B(i)
  <2>1. CASE i <= Hdr
    <3>1. i \in 1..Hdr
      BY <1>1, <2>1
    <3> QED BY <2>1, <3>1, <1>6, <1>8
  <2>2. CASE ~(i <= Hdr)
    <3>1. i - Hdr \in 1..n /\ Hdr + (i - Hdr) = i
      BY <1>1, <2>2
    <3>2. w[i] = Body(q, n)[i - Hdr]
      BY <2>2, <1>8
    <3>3. Body(q, n)[i - Hdr] = B(Hdr + (i - Hdr))
      BY <3>1, <1>7
    <3> QED BY <3>1, <3>2, <3>3
  <2> QED BY <2>1, <2>2
<1>10. Bytes(q, n) = w
  <2> DEFINE b == Bytes(q, n)
  <2>1. b \in Seq(Byte) /\ Len(b) = Len(w) /\ \A i \in 1..Len(b) : b[i] = w[i]
    BY <1>5, <1>8, <1>9, Zenon
  <2>2. w \in Seq(Byte)
    BY <1>8
  <2> HIDE DEF b
  <2>3. b = w
    BY ONLY <2>1, <2>2, SeqEqual
  <2> QED BY <2>3 DEF b
<1> QED BY <1>5, <1>10 DEF w

LEMMA NoBody == \A q : Body(q, 0) = <<>>
BY DEF Body

\* The bytes that are to be sent over connection k when ds is executed.
Replies(k, ds) == [i \in 1..Len(ds) |-> Bytes(<<k, i>>, ds[i].reply)]
Sent(k, ds) == Handshake(k) \o Join(Replies(k, ds))

LEMMA ExpectedIs == \A c \in Clients : Expected(c) = Sent(conn[c], done[c])
BY Zenon DEF Expected, Sent, Replies

LEMMA HandshakeIs ==
    ASSUME ServerAssumption, NEW k \in Nat
    PROVE  Handshake(k) \in Seq(Byte) /\ Len(Handshake(k)) = Hdr
<1>1. <<k, 0>> \in Nat \X Nat /\ Hdr + 0 = Hdr
    BY DEF ServerAssumption
<1> QED BY <1>1, BytesIs DEF Handshake

LEMMA RepliesIs ==
    ASSUME ServerAssumption, NEW k \in Nat, NEW ds \in Seq(Served)
    PROVE  /\ Replies(k, ds) \in Seq(Seq(Byte)) /\ Len(Replies(k, ds)) = Len(ds)
           /\ \A i \in 1..Len(ds) : Replies(k, ds)[i] = Bytes(<<k, i>>, ds[i].reply)
<1>1. Len(ds) \in Nat /\ MaxBody \in Nat
    BY LenProperties DEF ServerAssumption
<1>2. ASSUME NEW i \in 1..Len(ds) PROVE Bytes(<<k, i>>, ds[i].reply) \in Seq(Byte)
  <2>1. ds[i] \in Served
    BY ElementOfSeq
  <2>2. ds[i].reply \in Nat /\ <<k, i>> \in Nat \X Nat
    BY <1>1, <2>1, SMTT(30) DEF Served
  <2> QED BY <2>2, BytesIs
<1> DEFINE B(i) == Bytes(<<k, i>>, ds[i].reply)
<1>3. \A i \in 1..Len(ds) : B(i) \in Seq(Byte)
    BY <1>2
<1>4. Replies(k, ds) = [i \in 1..Len(ds) |-> B(i)]
    BY DEF Replies
<1> HIDE DEF B
<1>5. /\ [i \in 1..Len(ds) |-> B(i)] \in Seq(Seq(Byte))
      /\ Len([i \in 1..Len(ds) |-> B(i)]) = Len(ds)
      /\ \A i \in 1..Len(ds) : [j \in 1..Len(ds) |-> B(j)][i] = B(i)
    BY <1>1, <1>3
<1> QED BY <1>4, <1>5, Zenon DEF B

LEMMA SentType ==
    ASSUME ServerAssumption, NEW k \in Nat, NEW ds \in Seq(Served)
    PROVE  Sent(k, ds) \in Seq(Byte) /\ Len(Sent(k, ds)) \in Nat
<1>1. Join(Replies(k, ds)) \in Seq(Byte)
    BY RepliesIs, JoinType
<1>2. Sent(k, ds) \in Seq(Byte)
    BY <1>1, HandshakeIs, Lengths DEF Sent
<1> QED BY <1>2, LenProperties

LEMMA SentFirst ==
    ASSUME ServerAssumption, NEW k \in Nat
    PROVE  Sent(k, <<>>) = Handshake(k) /\ Len(Sent(k, <<>>)) = Hdr
<1>1. <<>> \in Seq(Served) /\ Len(<<>>) = 0
    OBVIOUS
<1>2. Replies(k, <<>>) \in Seq(Seq(Byte)) /\ Len(Replies(k, <<>>)) = 0
    BY <1>1, RepliesIs
<1>3. Replies(k, <<>>) = <<>>
    BY <1>2, NoLength
<1>4. Sent(k, <<>>) = Handshake(k)
    BY <1>3, JoinEmpty, HandshakeIs, ConcatEmptySeq DEF Sent
<1> QED BY <1>4, HandshakeIs

\* One request more is executed.
LEMMA SentNext ==
    ASSUME ServerAssumption, NEW k \in Nat, NEW ds \in Seq(Served), NEW d \in Served
    PROVE  /\ Sent(k, Append(ds, d)) = Sent(k, ds) \o Bytes(<<k, Len(ds) + 1>>, d.reply)
           /\ Len(Sent(k, Append(ds, d))) = Len(Sent(k, ds)) + (Hdr + d.reply)
<1> DEFINE N == Len(ds)
           x == Bytes(<<k, N + 1>>, d.reply)
           rs == Replies(k, ds)
           e == Append(ds, d)
<1>1. N \in Nat /\ MaxBody \in Nat
    BY LenProperties DEF ServerAssumption
<1>2. x \in Seq(Byte) /\ Len(x) = Hdr + d.reply
  <2>1. d.reply \in Nat /\ <<k, N + 1>> \in Nat \X Nat
    BY <1>1 DEF Served
  <2> QED BY <2>1, BytesIs
<1>3. /\ e \in Seq(Served) /\ Len(e) = N + 1 /\ e[N + 1] = d
      /\ \A i \in 1..N : e[i] = ds[i]
    BY AppendProperties
<1>4. /\ rs \in Seq(Seq(Byte)) /\ Len(rs) = N
      /\ \A i \in 1..N : rs[i] = Bytes(<<k, i>>, ds[i].reply)
    BY RepliesIs
<1>5. /\ Replies(k, e) \in Seq(Seq(Byte)) /\ Len(Replies(k, e)) = N + 1
      /\ \A i \in 1..N + 1 : Replies(k, e)[i] = Bytes(<<k, i>>, e[i].reply)
    BY <1>3, RepliesIs, ZenonT(40)
<1> HIDE DEF e, rs
<1>6. Replies(k, e) = Append(rs, x)
  <2>1. /\ Append(rs, x) \in Seq(Seq(Byte)) /\ Len(Append(rs, x)) = N + 1
        /\ Append(rs, x)[N + 1] = x /\ \A i \in 1..N : Append(rs, x)[i] = rs[i]
    <3> HIDE DEF N, x
    <3> QED BY <1>2, <1>4, AppendProperties
  <2>2. Replies(k, e)[N + 1] = x
    <3>1. N + 1 \in 1..N + 1
      BY <1>1
    <3> QED BY <3>1, <1>3, <1>5, Zenon
  <2>3. ASSUME NEW i \in 1..N PROVE Replies(k, e)[i] = rs[i]
    <3>1. i \in 1..N + 1
      BY <1>1
    <3> QED BY <3>1, <1>3, <1>4, <1>5, Zenon
  <2> HIDE DEF N, x
  <2>4. ASSUME NEW i \in 1..N + 1 PROVE Replies(k, e)[i] = Append(rs, x)[i]
    <3>1. i = N + 1 \/ i \in 1..N
      BY <1>1
    <3> QED BY <2>1, <2>2, <2>3, <3>1
  <2> QED BY <1>5, <2>1, <2>4, SeqEqual
<1>7. Join(Replies(k, e)) = Join(rs) \o x /\ Join(rs) \in Seq(Byte)
    BY <1>2, <1>4, <1>6, JoinAppend, JoinType
<1> DEFINE h == Handshake(k)
           j == Join(rs)
<1>8. h \in Seq(Byte)
    BY HandshakeIs
<1> HIDE DEF h, x
<1>9. h \o (j \o x) = (h \o j) \o x
  <2> HIDE DEF j
  <2>1. j \in Seq(Byte)
    BY <1>7 DEF j
  <2>2. Cat(Cat(h, j), x) = Cat(h, Cat(j, x))
    BY <1>2, <1>8, <2>1, Groups
  <2> QED BY <2>2, Zenon DEF Cat
<1>10. Sent(k, e) = h \o (j \o x) /\ Sent(k, ds) = h \o j
    BY <1>7, Zenon DEF Sent, h, rs
<1>11. Sent(k, e) = Sent(k, ds) \o x
    BY <1>9, <1>10, Zenon
<1>12. Len(Sent(k, ds) \o x) = Len(Sent(k, ds)) + Len(x)
    BY <1>2, SentType, Lengths
<1>13. Len(Sent(k, e)) = Len(Sent(k, ds)) + (Hdr + d.reply)
    BY <1>2, <1>11, <1>12, Zenon
<1> QED BY <1>11, <1>13, Zenon DEF e, x, N

-----------------------------------------------------------------------------
(* A step of one client leaves the others alone.                           *)

\* What the invariant says of a client does not change.
Same(c) ==
    /\ state'[c] = state[c] /\ up'[c] = up[c] /\ conn'[c] = conn[c]
    /\ nleft'[c] = nleft[c] /\ iov'[c] = iov[c] /\ bufPtr'[c] = bufPtr[c]
    /\ ahead'[c] = ahead[c] /\ rpcmsg'[c] = rpcmsg[c] /\ len'[c] = len[c]
    /\ in'[c] = in[c] /\ inq'[c] = inq[c] /\ outq'[c] = outq[c]
    /\ tosend'[c] = tosend[c] /\ asked'[c] = asked[c] /\ heard'[c] = heard[c]
    /\ done'[c] = done[c]

LEMMA SameReceiving ==
    ASSUME NEW c, Same(c), Receiving(c) PROVE Receiving(c)'
<1>1. NoRequest(c) => NoRequest(c)'
    BY Zenon DEF Same, NoRequest
<1>2. \A n : InHeader(c, n) => InHeader(c, n)'
    BY Zenon DEF Same, InHeader, Stream
<1>3. \A n : InBody(c, n) => InBody(c, n)'
    BY Zenon DEF Same, InBody, Stream
<1>4. /\ nleft'[c] = nleft[c] /\ bufPtr'[c] = bufPtr[c] /\ in'[c] = in[c]
      /\ rpcmsg'[c] = rpcmsg[c] /\ asked'[c] = asked[c] /\ done'[c] = done[c]
    BY Zenon DEF Same
<1>5. CASE NoRequest(c) /\ bufPtr[c] = "rpcmsg" /\ rpcmsg[c] = <<>> /\ nleft[c] = Hdr
    BY <1>1, <1>4, <1>5 DEF Receiving
<1>6. CASE asked[c] = Len(done[c]) + 1 /\ \E n \in 0..MaxBody : InHeader(c, n) \/ InBody(c, n)
    BY <1>2, <1>3, <1>4, <1>6 DEF Receiving
<1> QED BY <1>5, <1>6, Zenon DEF Receiving

LEMMA SameInv ==
    ASSUME NEW c, Same(c), ClientInv(c), bufsize' = bufsize, c \in ready' <=> c \in ready,
           Expected(c)' = Expected(c)
    PROVE  ClientInv(c)'
<1>1. Fresh(c) => Fresh(c)'
    BY Zenon DEF Same, Fresh
<1>2. Counted(c) => Counted(c)'
    BY Zenon DEF Same, Counted
<1>3. Sending(c) => Sending(c)'
    BY Zenon DEF Same, Sending, NoRequest
<1>4. Executed(c) => Executed(c)'
    BY Zenon DEF Same, Executed
<1>5. Receiving(c) => Receiving(c)'
    BY SameReceiving
<1> QED BY <1>1, <1>2, <1>3, <1>4, <1>5 DEF Same, ClientInv

LEMMA SameExpected ==
    ASSUME NEW c, Same(c) PROVE Expected(c)' = Expected(c)
BY Zenon DEF Same, Expected

LEMMA OneClient ==
    ASSUME ServerInv, NEW c \in Clients, Streams', Values', ClientInv(c)',
           bufsize' = bufsize,
           \A d \in Clients \ {c} : Same(d) /\ (d \in ready' <=> d \in ready)
    PROVE  ServerInv'
<1>1. ASSUME NEW d \in Clients, d # c PROVE ClientInv(d)'
    BY <1>1, SameInv, SameExpected DEF ServerInv
<1> QED BY <1>1 DEF ServerInv

\* The bounds, as numbers.
LEMMA Numbers ==
    ASSUME ServerAssumption
    PROVE  /\ Hdr \in Nat /\ Hdr > 0 /\ MaxBody \in Nat /\ MaxConns \in Nat
           /\ MaxLost \in Nat /\ Room \in Nat /\ MinSend \in Nat /\ MinSend > 0
BY DEF ServerAssumption

LEMMA InvInit ==
    ASSUME ServerAssumption, Init PROVE ServerInv
<1>1. Streams
  <2>1. /\ <<>> \in Seq(Byte) /\ <<>> \in Seq(Seq(Byte)) /\ <<>> \in Seq(Served)
        /\ 0 \in Nat
    OBVIOUS
  <2>2. bufsize \in Nat
    BY Zenon DEF Init, ServerAssumption
  <2>3. /\ rpcmsg \in [Clients -> Seq(Byte)] /\ in \in [Clients -> Seq(Byte)]
        /\ ahead \in [Clients -> Seq(Byte)] /\ inq \in [Clients -> Seq(Byte)]
        /\ tosend \in [Clients -> Seq(Byte)] /\ outq \in [Clients -> Seq(Byte)]
        /\ heard \in [Clients -> Seq(Byte)]
    BY <2>1, Zenon DEF Init
  <2>4. /\ iov \in [Clients -> Seq(Seq(Byte))] /\ asked \in [Clients -> Nat]
        /\ done \in [Clients -> Seq(Served)]
    BY <2>1, Zenon DEF Init
  <2> QED BY <2>2, <2>3, <2>4, Zenon DEF Streams
<1>2. Values
  <2>1. 0 \in 0..Hdr + MaxBody /\ 0 \in 0..MaxBody /\ 0 \in 0..MaxConns /\ 0 \in 0..MaxLost
    BY Numbers
  <2>2. /\ nleft \in [Clients -> 0..Hdr + MaxBody] /\ len \in [Clients -> 0..MaxBody]
        /\ conn \in [Clients -> 0..MaxConns] /\ nlost \in 0..MaxLost
    BY <2>1, Zenon DEF Init
  <2>3. /\ state \in [Clients -> {"Retry", "Connecting", "RecvData", "SendData"}]
        /\ bufPtr \in [Clients -> {"rpcmsg", "in"}]
        /\ up \in [Clients -> {"no", "asked", "yes", "closed"}]
    BY DEF Init
  <2>4. ready \subseteq Clients /\ trigger \in BOOLEAN /\ running \in BOOLEAN
    BY DEF Init
  <2> QED BY <2>2, <2>3, <2>4 DEF Values
<1>3. ASSUME NEW c \in Clients PROVE ClientInv(c)
  <2>1. Fresh(c) /\ done[c] = <<>>
    BY DEF Init, Fresh
  <2>2. Executed(c)
    BY <2>1 DEF Executed
  <2>3. state[c] = "Retry" /\ up[c] = "no" /\ ready = {}
    BY DEF Init
  <2>4. Len(rpcmsg[c]) = 0 /\ Len(in[c]) = 0 /\ Len(ahead[c]) = 0 /\ Len(inq[c]) = 0
        /\ Len(outq[c]) = 0
    BY DEF Init
  <2>5. Hdr \in Nat /\ MaxBody \in Nat /\ bufsize \in Nat /\ Room \in Nat
    BY DEF Init, ServerAssumption
  <2>6. ahead[c] = <<>>
    BY <2>1 DEF Fresh
  <2> QED BY <2>1, <2>2, <2>3, <2>4, <2>5, <2>6 DEF ClientInv, Open
<1> QED BY <1>1, <1>2, <1>3 DEF ServerInv

-----------------------------------------------------------------------------
(* The top of the loop.                                                    *)

LEMMA InvUnchanged ==
    ASSUME ServerInv, UNCHANGED vars PROVE ServerInv'
<1>1. Streams' /\ Values'
    BY Zenon DEF ServerInv, vars, Streams, Values
<1>2. ASSUME NEW c \in Clients PROVE ClientInv(c)'
  <2>1. Same(c) /\ bufsize' = bufsize /\ ready' = ready
    BY Zenon DEF vars, Same
  <2> QED BY <2>1, SameInv, SameExpected DEF ServerInv
<1> QED BY <1>1, <1>2 DEF ServerInv

LEMMA InvRetry ==
    ASSUME ServerAssumption, ServerInv, NEW C \in SUBSET Clients, Retry(C)
    PROVE  ServerInv'
<1>1. /\ ready = {} /\ ready' = {} /\ \A c \in C : state[c] = "Retry" /\ conn[c] < MaxConns
      /\ state' = [c \in Clients |-> IF c \in C THEN "Connecting" ELSE state[c]]
      /\ conn' = [c \in Clients |-> IF c \in C THEN conn[c] + 1 ELSE conn[c]]
      /\ up' = [c \in Clients |-> IF c \in C THEN "asked" ELSE up[c]]
      /\ UNCHANGED <<bufsize, trigger, running, nleft, iov, bufPtr, ahead, rpcmsg, len, in,
                     tosend, asked, heard, inq, outq, done, nlost>>
    BY DEF Retry, loopVars, clientVars, peerVars
<1>2. Streams'
    BY <1>1, Zenon DEF ServerInv, Streams
<1>3. Values'
  <2>1. conn' \in [Clients -> 0..MaxConns]
    BY <1>1, Numbers DEF ServerInv, Values
  <2>2. state' \in [Clients -> {"Retry", "Connecting", "RecvData", "SendData"}]
    BY <1>1 DEF ServerInv, Values
  <2>3. up' \in [Clients -> {"no", "asked", "yes", "closed"}]
    BY <1>1 DEF ServerInv, Values
  <2> QED BY <1>1, <2>1, <2>2, <2>3 DEF ServerInv, Values
<1>4. ASSUME NEW c \in Clients, c \notin C PROVE ClientInv(c)'
  <2>1. Same(c)
    BY <1>1, <1>4 DEF Same
  <2> QED BY <1>1, <2>1, SameInv, SameExpected DEF ServerInv
<1>5. ASSUME NEW c \in C PROVE ClientInv(c)'
  <2>1. ClientInv(c) /\ state[c] = "Retry"
    BY <1>1 DEF ServerInv
  <2>2. Fresh(c)
    BY <2>1 DEF ClientInv, Open
  <2>3. Fresh(c)'
    BY <1>1, <2>2, Zenon DEF Fresh
  <2>4. Executed(c)'
    BY <2>3 DEF Executed, Fresh
  <2>5. state'[c] = "Connecting" /\ up'[c] = "asked"
    BY <1>1
  <2> QED BY <1>1, <2>1, <2>3, <2>4, <2>5 DEF ClientInv, Open, Fresh
<1> QED BY <1>2, <1>3, <1>4, <1>5 DEF ServerInv

LEMMA InvPoll ==
    ASSUME ServerInv, Poll PROVE ServerInv'
<1>1. /\ ready = {} /\ ready' = {c \in Clients : state[c] # "Retry" /\ Event(c)}
      /\ UNCHANGED <<bufsize, trigger, running, state, nleft, iov, bufPtr, ahead, rpcmsg,
                     len, in, tosend, asked, heard, conn, up, inq, outq, done, nlost>>
    BY DEF Poll, loopVars, clientVars, peerVars
<1>2. Streams' /\ Values'
    BY <1>1 DEF ServerInv, Streams, Values
<1>3. ASSUME NEW c \in Clients PROVE ClientInv(c)'
  <2>1. Same(c)
    BY <1>1, Zenon DEF Same
  <2>2. Fresh(c) => Fresh(c)'
    BY <2>1, Zenon DEF Same, Fresh
  <2>3. Counted(c) => Counted(c)'
    BY <2>1, SameExpected, Zenon DEF Same, Counted
  <2>4. Sending(c) => Sending(c)'
    BY <2>1, Zenon DEF Same, Sending, NoRequest
  <2>5. Executed(c) => Executed(c)'
    BY <2>1, Zenon DEF Same, Executed
  <2>6. Receiving(c) => Receiving(c)'
    BY <2>1, SameReceiving
  <2>7. ClientInv(c) /\ ahead[c] = <<>> /\ (c \in ready' => state[c] # "Retry")
    BY <1>1 DEF ServerInv, ClientInv
  <2>8. bufsize' = bufsize
    BY <1>1
  <2> QED BY <2>1, <2>2, <2>3, <2>4, <2>5, <2>6, <2>7, <2>8 DEF ClientInv, Same
<1> QED BY <1>2, <1>3 DEF ServerInv

LEMMA InvStop ==
    ASSUME ServerAssumption, ServerInv, Stop PROVE ServerInv'
<1>1. /\ ready = {} /\ running' = FALSE
      /\ state' = [c \in Clients |-> "Retry"] /\ up' = [c \in Clients |-> "no"]
      /\ in' = [c \in Clients |-> IF state[c] = "Retry" THEN in[c] ELSE <<>>]
      /\ inq' = [c \in Clients |-> <<>>] /\ outq' = [c \in Clients |-> <<>>]
      /\ tosend' = [c \in Clients |-> <<>>] /\ asked' = [c \in Clients |-> 0]
      /\ heard' = [c \in Clients |-> <<>>] /\ done' = [c \in Clients |-> <<>>]
      /\ UNCHANGED <<bufsize, trigger, ready, nleft, iov, bufPtr, ahead, rpcmsg,
                     len, conn, nlost>>
    BY DEF Stop
<1>2. Streams'
  <2>1. <<>> \in Seq(Byte) /\ <<>> \in Seq(Served) /\ 0 \in Nat
    OBVIOUS
  <2>2. in' \in [Clients -> Seq(Byte)]
    BY <1>1, <2>1 DEF ServerInv, Streams
  <2>3. /\ inq' \in [Clients -> Seq(Byte)] /\ outq' \in [Clients -> Seq(Byte)]
        /\ tosend' \in [Clients -> Seq(Byte)] /\ heard' \in [Clients -> Seq(Byte)]
        /\ asked' \in [Clients -> Nat] /\ done' \in [Clients -> Seq(Served)]
    BY <1>1, <2>1, Zenon
  <2> QED BY <1>1, <2>2, <2>3, Zenon DEF ServerInv, Streams
<1>3. Values'
    BY <1>1 DEF ServerInv, Values
<1>4. ASSUME NEW c \in Clients PROVE ClientInv(c)'
  <2>1. ClientInv(c) /\ ahead[c] = <<>>
    BY <1>1 DEF ServerInv, ClientInv
  <2>2. Fresh(c)'
    BY <1>1, <2>1 DEF Fresh
  <2>3. Executed(c)'
    BY <2>2 DEF Executed, Fresh
  <2>4. state'[c] = "Retry" /\ up'[c] = "no" /\ ready' = {}
    BY <1>1
  <2>5. Len(in'[c]) <= MaxBody /\ Len(inq'[c]) = 0 /\ Len(outq'[c]) = 0
    BY <1>1, <2>1, Numbers DEF ClientInv
  <2>6. Len(rpcmsg'[c]) <= Hdr /\ Len(ahead'[c]) <= bufsize' /\ ahead'[c] = <<>>
    BY <1>1, <2>1 DEF ClientInv
  <2> QED BY <2>2, <2>3, <2>4, <2>5, <2>6, Numbers DEF ClientInv, Open
<1> QED BY <1>2, <1>3, <1>4 DEF ServerInv

LEMMA InvStopServers ==
    ASSUME ServerInv, StopServers PROVE ServerInv'
<1>1. /\ trigger' = TRUE
      /\ UNCHANGED <<bufsize, running, state, nleft, iov, bufPtr, ahead, rpcmsg, len, in,
                     ready, tosend, asked, heard, conn, up, inq, outq, done, nlost>>
    BY DEF StopServers, clientVars, peerVars
<1>2. Streams' /\ Values'
    BY <1>1 DEF ServerInv, Streams, Values
<1>3. ASSUME NEW c \in Clients PROVE ClientInv(c)'
  <2>1. Same(c) /\ bufsize' = bufsize /\ ready' = ready
    BY <1>1, Zenon DEF Same
  <2> QED BY <2>1, SameInv, SameExpected DEF ServerInv
<1> QED BY <1>2, <1>3 DEF ServerInv

-----------------------------------------------------------------------------
(* A client that fails, and the steps of the other ends.                   *)

LEMMA InvDrop ==
    ASSUME ServerAssumption, ServerInv, NEW c \in Clients, DropClient(c), ahead[c] = <<>>
    PROVE  ServerInv'
<1>1. /\ state' = [state EXCEPT ![c] = "Retry"]
      /\ in' = [in EXCEPT ![c] = IF state[c] = "Connecting" THEN in[c] ELSE <<>>]
      /\ ready' = ready \ {c} /\ up' = [up EXCEPT ![c] = "no"]
      /\ inq' = [inq EXCEPT ![c] = <<>>] /\ outq' = [outq EXCEPT ![c] = <<>>]
      /\ tosend' = [tosend EXCEPT ![c] = <<>>] /\ asked' = [asked EXCEPT ![c] = 0]
      /\ heard' = [heard EXCEPT ![c] = <<>>] /\ done' = [done EXCEPT ![c] = <<>>]
      /\ UNCHANGED <<bufsize, trigger, running, nleft, iov, bufPtr, ahead, rpcmsg, len,
                     conn, nlost>>
    BY DEF DropClient, OnRetry, loopVars
<1>2. Streams /\ Values /\ ClientInv(c)
    BY DEF ServerInv
<1>3. Streams'
  <2>1. <<>> \in Seq(Byte) /\ <<>> \in Seq(Served) /\ 0 \in Nat
    OBVIOUS
  <2>2. in' \in [Clients -> Seq(Byte)]
    BY <1>1, <1>2, <2>1 DEF Streams
  <2>3. /\ inq' \in [Clients -> Seq(Byte)] /\ outq' \in [Clients -> Seq(Byte)]
        /\ tosend' \in [Clients -> Seq(Byte)] /\ heard' \in [Clients -> Seq(Byte)]
        /\ asked' \in [Clients -> Nat] /\ done' \in [Clients -> Seq(Served)]
    BY <1>1, <1>2, <2>1 DEF Streams
  <2> QED BY <1>1, <1>2, <2>2, <2>3, Zenon DEF Streams
<1>4. Values'
    BY <1>1, <1>2 DEF Values
<1>5. \A d \in Clients \ {c} : Same(d) /\ (d \in ready' <=> d \in ready)
    BY <1>1, <1>2 DEF Same, Streams, Values
<1>6. ClientInv(c)'
  <2>1. Fresh(c)'
    BY <1>1, <1>2 DEF Fresh, Streams
  <2>2. Executed(c)'
    BY <2>1 DEF Executed, Fresh
  <2>3. state'[c] = "Retry" /\ up'[c] = "no" /\ c \notin ready'
    BY <1>1, <1>2 DEF Values
  <2>4. Len(in'[c]) <= MaxBody /\ Len(inq'[c]) = 0 /\ Len(outq'[c]) = 0
    <3>1. in'[c] = in[c] \/ in'[c] = <<>>
      BY <1>1, <1>2 DEF Streams
    <3>2. inq'[c] = <<>> /\ outq'[c] = <<>>
      BY <2>1 DEF Fresh
    <3> QED BY <1>2, <3>1, <3>2, Numbers DEF ClientInv
  <2>5. Len(rpcmsg'[c]) <= Hdr /\ Len(ahead'[c]) <= bufsize' /\ ahead'[c] = <<>>
    BY <1>1, <1>2 DEF ClientInv
  <2> QED BY <2>1, <2>2, <2>3, <2>4, <2>5, Numbers DEF ClientInv, Open
<1>7. bufsize' = bufsize
    BY <1>1
<1> QED BY <1>3, <1>4, <1>5, <1>6, <1>7, OneClient

LEMMA InvConnectFailed ==
    ASSUME ServerAssumption, ServerInv, NEW c \in Clients, ConnectFailed(c)
    PROVE  ServerInv'
<1>1. ahead[c] = <<>>
    BY DEF ServerInv, ClientInv, Open, Fresh, ConnectFailed
<1> QED BY <1>1, InvDrop DEF ConnectFailed

\* A client whose events are handled, and nothing else.
LEMMA InvHandled ==
    ASSUME ServerInv, NEW c \in Clients, ready' = ready \ {c}, ahead[c] = <<>>,
           UNCHANGED <<loopVars, state, clientVars, peerVars, conn, up, inq, outq, done,
                       nlost>>
    PROVE  ServerInv'
<1>1. UNCHANGED <<bufsize, trigger, running, state, nleft, iov, bufPtr, ahead, rpcmsg, len,
                  in, tosend, asked, heard, conn, up, inq, outq, done, nlost>>
    BY DEF loopVars, clientVars, peerVars
<1>2. Streams' /\ Values'
    BY <1>1 DEF ServerInv, Streams, Values
<1>3. \A d \in Clients : Same(d)
    BY <1>1, Zenon DEF Same
<1>4. ClientInv(c)'
  <2>1. Same(c) /\ bufsize' = bufsize
    BY <1>1, <1>3
  <2>2. Fresh(c) => Fresh(c)'
    BY <2>1, Zenon DEF Same, Fresh
  <2>3. Counted(c) => Counted(c)'
    BY <2>1, SameExpected, Zenon DEF Same, Counted
  <2>4. Sending(c) => Sending(c)'
    BY <2>1, Zenon DEF Same, Sending, NoRequest
  <2>5. Executed(c) => Executed(c)'
    BY <2>1, Zenon DEF Same, Executed
  <2>6. Receiving(c) => Receiving(c)'
    BY <2>1, SameReceiving
  <2>7. ClientInv(c) /\ c \notin ready'
    BY DEF ServerInv
  <2> QED BY <2>1, <2>2, <2>3, <2>4, <2>5, <2>6, <2>7 DEF ClientInv, Same
<1> QED BY <1>1, <1>2, <1>3, <1>4, OneClient

LEMMA InvRecvNone ==
    ASSUME ServerAssumption, ServerInv, NEW c \in Clients, RecvNone(c)
    PROVE  ServerInv'
<1>1. CASE up[c] = "closed"
    BY <1>1, InvDrop DEF RecvNone
<1>2. CASE up[c] # "closed"
    BY <1>2, InvHandled DEF RecvNone
<1> QED BY <1>1, <1>2

LEMMA InvSendNone ==
    ASSUME ServerAssumption, ServerInv, NEW c \in Clients, SendNone(c)
    PROVE  ServerInv'
<1>1. ahead[c] = <<>>
    BY DEF ServerInv, ClientInv, Sending, NoRequest, SendNone
<1>2. CASE DropClient(c)
    BY <1>1, <1>2, InvDrop
<1>3. CASE ~DropClient(c)
    BY <1>1, <1>3, InvHandled DEF SendNone
<1> QED BY <1>2, <1>3

\* The connection is in another state, and nothing else.
LEMMA InvUp ==
    ASSUME ServerInv, NEW c \in Clients, NEW u \in {"yes", "closed"}, up[c] # "no",
           up' = [up EXCEPT ![c] = u], nlost' \in 0..MaxLost,
           UNCHANGED <<loopVars, state, clientVars, ready, peerVars, conn, inq, outq, done>>
    PROVE  ServerInv'
<1>1. UNCHANGED <<bufsize, trigger, running, state, nleft, iov, bufPtr, ahead, rpcmsg, len,
                  in, ready, tosend, asked, heard, conn, inq, outq, done>>
    BY DEF loopVars, clientVars, peerVars
<1>2. Streams /\ Values /\ ClientInv(c)
    BY DEF ServerInv
<1>3. Streams' /\ Values'
  <2>1. up' \in [Clients -> {"no", "asked", "yes", "closed"}]
    BY <1>2 DEF Values
  <2> QED BY <1>1, <1>2, <2>1 DEF Streams, Values
<1>4. \A d \in Clients \ {c} : Same(d) /\ (d \in ready' <=> d \in ready)
    BY <1>1, <1>2 DEF Same, Values
<1>5. ClientInv(c)'
  <2>1. Fresh(c) => Fresh(c)'
    BY <1>1, Zenon DEF Fresh
  <2>2. Counted(c) => Counted(c)'
    <3>1. Expected(c)' = Expected(c)
      BY <1>1, Zenon DEF Expected
    <3> QED BY <1>1, <3>1, Zenon DEF Counted
  <2>3. Sending(c) => Sending(c)'
    BY <1>1, Zenon DEF Sending, NoRequest
  <2>4. Executed(c) => Executed(c)'
    BY <1>1, Zenon DEF Executed
  <2>5. Receiving(c) => Receiving(c)'
    <3>1. NoRequest(c) => NoRequest(c)'
      BY <1>1, Zenon DEF NoRequest
    <3>2. \A n : InHeader(c, n) => InHeader(c, n)'
      BY <1>1, Zenon DEF InHeader, Stream
    <3>3. \A n : InBody(c, n) => InBody(c, n)'
      BY <1>1, Zenon DEF InBody, Stream
    <3>4. /\ nleft' = nleft /\ bufPtr' = bufPtr /\ in' = in
          /\ rpcmsg' = rpcmsg /\ asked' = asked /\ done' = done
      BY <1>1
    <3> QED BY <3>1, <3>2, <3>3, <3>4 DEF Receiving
  <2>6. up'[c] = u
    BY <1>2 DEF Values
  <2> QED BY <1>1, <1>2, <2>1, <2>2, <2>3, <2>4, <2>5, <2>6 DEF ClientInv
<1> QED BY <1>1, <1>3, <1>4, <1>5, OneClient

LEMMA InvAccept ==
    ASSUME ServerAssumption, ServerInv, NEW c \in Clients, Accept(c)
    PROVE  ServerInv'
<1>1. nlost' \in 0..MaxLost
    BY DEF Accept, ServerInv, Values
<1> QED BY <1>1, InvUp DEF Accept

LEMMA InvClose ==
    ASSUME ServerAssumption, ServerInv, NEW c \in Clients, Close(c)
    PROVE  ServerInv'
<1>1. nlost' \in 0..MaxLost
    BY Numbers DEF Close, ServerInv, Values
<1> QED BY <1>1, InvUp DEF Close

\* The lengths of what a client gets: none is negative.
LEMMA Lens ==
    ASSUME ServerAssumption, ServerInv, NEW c \in Clients
    PROVE  /\ Len(heard[c]) \in Nat /\ Len(outq[c]) \in Nat /\ nleft[c] \in Nat
           /\ conn[c] \in Nat /\ asked[c] \in Nat /\ Len(done[c]) \in Nat
           /\ Len(Expected(c)) \in Nat /\ Expected(c) \in Seq(Byte)
           /\ <<conn[c], asked[c]>> \in Nat \X Nat
<1>1. heard[c] \in Seq(Byte) /\ outq[c] \in Seq(Byte) /\ done[c] \in Seq(Served)
      /\ asked[c] \in Nat
    BY DEF ServerInv, Streams
<1>2. nleft[c] \in Nat /\ conn[c] \in Nat
    BY Numbers DEF ServerInv, Values
<1>3. Len(Expected(c)) \in Nat /\ Expected(c) \in Seq(Byte)
    BY <1>1, <1>2, ExpectedIs, SentType
<1> QED BY <1>1, <1>2, <1>3, LenProperties

\* A client that has got every reply is one whose next request the server
\* waits for.
LEMMA AnsweredReceives ==
    ASSUME ServerAssumption, ServerInv, NEW c \in Clients, up[c] = "yes", Answered(c)
    PROVE  /\ state[c] = "RecvData" /\ NoRequest(c)
           /\ bufPtr[c] = "rpcmsg" /\ rpcmsg[c] = <<>> /\ nleft[c] = Hdr
<1>1. ClientInv(c) /\ Values
    BY DEF ServerInv
<1>2. state[c] \in Open
  <2>1. ASSUME state[c] \notin Open PROVE FALSE
    <3>1. heard[c] = <<>> /\ done[c] = <<>>
      BY <1>1, <2>1 DEF ClientInv, Fresh
    <3>2. Expected(c) = Sent(conn[c], <<>>)
      BY <3>1, ExpectedIs
    <3>3. Len(Expected(c)) = Hdr
      BY <3>2, Lens, SentFirst
    <3>4. Len(heard[c]) = 0
      BY <3>1
    <3> QED BY <3>3, <3>4, Numbers DEF Answered
  <2> QED BY <2>1
<1>3. state[c] # "SendData"
  <2>1. ASSUME state[c] = "SendData" PROVE FALSE
    <3>1. Len(heard[c]) + Len(outq[c]) + nleft[c] = Len(Expected(c)) /\ nleft[c] > 0
      BY <1>1, <1>2, <2>1 DEF ClientInv, Counted, Sending
    <3>2. Len(heard[c]) = Len(Expected(c))
      BY Zenon DEF Answered
    <3>3. Len(heard[c]) \in Nat /\ Len(outq[c]) \in Nat /\ nleft[c] \in Nat
      BY Lens
    <3> QED BY ONLY <3>1, <3>2, <3>3
  <2> QED BY <2>1
<1>4. state[c] = "RecvData" /\ Receiving(c)
    BY <1>1, <1>2, <1>3 DEF Open, ClientInv
<1>5. asked[c] # Len(done[c]) + 1
    BY Lens DEF Answered
<1> QED BY <1>4, <1>5 DEF Receiving

LEMMA InvAsk ==
    ASSUME ServerAssumption, ServerInv, NEW c \in Clients, NEW n \in 0..MaxBody, Ask(c, n)
    PROVE  ServerInv'
<1> DEFINE q == <<conn[c], asked[c] + 1>>
<1>1. /\ asked' = [asked EXCEPT ![c] = asked[c] + 1]
      /\ tosend' = [tosend EXCEPT ![c] = Bytes(q, n)]
      /\ UNCHANGED <<bufsize, trigger, running, state, nleft, iov, bufPtr, ahead, rpcmsg,
                     len, in, ready, heard, conn, up, inq, outq, done, nlost>>
    BY DEF Ask, loopVars, clientVars
<1>2. Streams /\ Values /\ ClientInv(c)
    BY DEF ServerInv
<1>3. n \in Nat /\ q \in Nat \X Nat /\ Bytes(q, n) \in Seq(Byte)
  <2>1. n \in Nat /\ q \in Nat \X Nat
    <3>1. n \in Nat
      BY Numbers
    <3>2. conn[c] \in Nat /\ asked[c] + 1 \in Nat
      <4>1. conn[c] \in Nat /\ asked[c] \in Nat
        BY Lens, Zenon
      <4> QED BY <4>1
    <3> QED BY <3>1, <3>2, Zenon
  <2> HIDE DEF q
  <2> QED BY <2>1, BytesIs
<1>4. Streams'
  <2> HIDE DEF q
  <2>1. asked' \in [Clients -> Nat]
    BY <1>1, <1>2 DEF Streams
  <2>2. tosend' \in [Clients -> Seq(Byte)]
    BY <1>1, <1>2, <1>3 DEF Streams
  <2> QED BY <1>1, <1>2, <2>1, <2>2, Zenon DEF Streams
<1>5. Values'
    BY <1>1, <1>2, Zenon DEF Values
<1>6. /\ asked'[c] = asked[c] + 1 /\ tosend'[c] = Bytes(q, n)
      /\ \A d \in Clients \ {c} : asked'[d] = asked[d] /\ tosend'[d] = tosend[d]
    BY <1>1, <1>2 DEF Streams
<1>7. \A d \in Clients \ {c} : Same(d) /\ (d \in ready' <=> d \in ready)
    BY <1>1, <1>6, Zenon DEF Same
<1>8. /\ state[c] = "RecvData" /\ NoRequest(c)
      /\ bufPtr[c] = "rpcmsg" /\ rpcmsg[c] = <<>> /\ nleft[c] = Hdr
    BY AnsweredReceives DEF Ask
<1>9. ClientInv(c)'
  <2>1. Receiving(c)'
    <3>1. Stream(rpcmsg[c], c)' = Bytes(<<conn'[c], asked'[c]>>, n)
      <4>1. rpcmsg'[c] = <<>> /\ ahead'[c] = <<>> /\ inq'[c] = <<>> /\ conn'[c] = conn[c]
        BY <1>1, <1>8 DEF NoRequest
      <4>2. ((<<>> \o <<>>) \o <<>>) \o Bytes(q, n) = Bytes(q, n)
        <5> HIDE DEF q
        <5>1. <<>> \in Seq(Byte)
          OBVIOUS
        <5> QED BY <5>1, <1>3, ConcatEmptySeq
      <4> QED BY <1>6, <4>1, <4>2, Zenon DEF Stream
    <3>2. bufPtr'[c] = "rpcmsg" /\ nleft'[c] = Hdr /\ Len(rpcmsg'[c]) = 0
      BY <1>1, <1>8
    <3>3. InHeader(c, n)'
      BY <3>1, <3>2, Numbers DEF InHeader
    <3>4. asked'[c] = Len(done'[c]) + 1
      BY <1>1, <1>6, <1>8 DEF NoRequest
    <3>5. in'[c] = <<>>
      BY <1>1, <1>2, <1>8 DEF ClientInv, Receiving
    <3> QED BY <3>2, <3>3, <3>4, <3>5, Numbers DEF Receiving
  <2>2. Expected(c)' = Expected(c)
    BY <1>1, Zenon DEF Expected
  <2>3. Counted(c)'
    <3>1. Counted(c)
      BY <1>2, <1>8 DEF ClientInv, Open
    <3> QED BY <1>1, <2>2, <3>1, Zenon DEF Counted
  <2>4. Executed(c)'
    <3>1. Executed(c)
      BY <1>2 DEF ClientInv
    <3> QED BY <1>1, <3>1, Zenon DEF Executed
  <2>5. state'[c] = "RecvData" /\ up'[c] = up[c]
    BY <1>1, <1>8
  <2> HIDE DEF q
  <2> QED BY <1>1, <1>2, <1>8, <2>1, <2>3, <2>4, <2>5 DEF ClientInv, Open
<1> QED BY <1>1, <1>4, <1>5, <1>7, <1>9, OneClient

LEMMA InvArrive ==
    ASSUME ServerAssumption, ServerInv, NEW c \in Clients, NEW n \in Nat, Arrive(c, n)
    PROVE  ServerInv'
<1> DEFINE part == SubSeq(tosend[c], 1, n)
           rest == Drop(tosend[c], n)
<1>1. /\ n \in 1..Len(tosend[c]) /\ up[c] = "yes"
      /\ inq' = [inq EXCEPT ![c] = inq[c] \o part]
      /\ tosend' = [tosend EXCEPT ![c] = rest]
      /\ UNCHANGED <<bufsize, trigger, running, state, nleft, iov, bufPtr, ahead, rpcmsg,
                     len, in, ready, asked, heard, conn, up, outq, done, nlost>>
    BY DEF Arrive, loopVars, clientVars
<1>2. Streams /\ Values /\ ClientInv(c)
    BY DEF ServerInv
<1>3. inq[c] \in Seq(Byte) /\ tosend[c] \in Seq(Byte) /\ ahead[c] \in Seq(Byte)
      /\ rpcmsg[c] \in Seq(Byte) /\ in[c] \in Seq(Byte)
    BY <1>2 DEF Streams
<1>4. /\ part \in Seq(Byte) /\ rest \in Seq(Byte) /\ Len(part) = n
      /\ part \o rest = tosend[c]
  <2>1. n <= Len(tosend[c])
    BY <1>1
  <2> QED BY <1>3, <2>1, Cut
<1>5. inq[c] \o part \in Seq(Byte)
    BY <1>3, <1>4, Lengths
<1> HIDE DEF part, rest
<1>6. Streams'
    BY <1>1, <1>2, <1>4, <1>5 DEF Streams
<1>7. Values'
    BY <1>1, <1>2, Zenon DEF Values
<1>8. /\ inq'[c] = inq[c] \o part /\ tosend'[c] = rest
      /\ \A d \in Clients \ {c} : inq'[d] = inq[d] /\ tosend'[d] = tosend[d]
    BY <1>1, <1>2 DEF Streams
<1>9. \A d \in Clients \ {c} : Same(d) /\ (d \in ready' <=> d \in ready)
    BY <1>1, <1>8, Zenon DEF Same
<1>10. tosend[c] # <<>>
    BY <1>1, <1>3
<1>11. state[c] = "RecvData" /\ Receiving(c) /\ asked[c] = Len(done[c]) + 1
  <2>1. state[c] \in Open /\ state[c] # "SendData"
    BY <1>2, <1>10 DEF ClientInv, Fresh, Sending, NoRequest
  <2>2. state[c] = "RecvData" /\ Receiving(c)
    BY <1>2, <2>1 DEF ClientInv, Open
  <2> QED BY <1>10, <2>2 DEF Receiving, NoRequest
<1>12. ASSUME NEW p \in Seq(Byte)
       PROVE  /\ Row(p, ahead[c], inq[c], tosend[c]) = Row(p, ahead[c], inq'[c], tosend'[c])
              /\ Len(Row(p, ahead[c], inq'[c], tosend'[c]))
                    = Len(p) + Len(ahead[c]) + Len(inq'[c]) + Len(tosend'[c])
  <2>1. /\ tosend[c] = Cat(part, rest) /\ inq'[c] = Cat(inq[c], part) /\ tosend'[c] = rest
        /\ Cat(inq[c], part) \in Seq(Byte)
    BY <1>4, <1>5, <1>8, Zenon DEF Cat
  <2>2. Row(p, ahead[c], inq[c], Cat(part, rest)) = Row(p, ahead[c], Cat(inq[c], part), rest)
    BY <1>3, <1>4, Arrived
  <2>3. Len(Row(p, ahead[c], Cat(inq[c], part), rest))
           = Len(p) + Len(ahead[c]) + Len(Cat(inq[c], part)) + Len(rest)
    <3>1. /\ Cat(inq[c], part) \in Seq(Byte) /\ p \in Seq(Byte)
          /\ ahead[c] \in Seq(Byte) /\ rest \in Seq(Byte)
      BY <1>3, <1>4, <2>1
    <3>2. RowLength(p, ahead[c], Cat(inq[c], part), rest)
      BY ONLY <3>1, RowLen
    <3> QED BY <3>2, Zenon DEF RowLength
  <2> QED BY <2>1, <2>2, <2>3, Zenon
<1>13. PICK k \in 0..MaxBody : InHeader(c, k) \/ InBody(c, k)
    BY <1>10, <1>11 DEF Receiving, NoRequest
<1>14. InHeader(c, k) => InHeader(c, k)'
    BY <1>1, <1>3, <1>12, Zenon DEF InHeader, Stream, Row, Cat
<1>15. InBody(c, k) => InBody(c, k)'
    BY <1>1, <1>3, <1>12, Zenon DEF InBody, Stream, Row, Cat
<1>16. Len(inq'[c]) <= Hdr + MaxBody
  <2>1. /\ Len(rpcmsg[c]) \in Nat /\ Len(in[c]) \in Nat /\ Len(ahead[c]) \in Nat
        /\ Len(inq'[c]) \in Nat /\ Len(tosend'[c]) \in Nat
    BY <1>3, <1>4, <1>5, <1>8, LenProperties
  <2>2. k \in Nat /\ k <= MaxBody /\ <<conn[c], asked[c]>> \in Nat \X Nat
    BY <1>13, Numbers, Lens
  <2>3. CASE InHeader(c, k)
    <3>1. Stream(rpcmsg[c], c)' = Bytes(<<conn[c], asked[c]>>, k)
      BY <1>1, <1>14, <2>3, Zenon DEF InHeader
    <3>2. Len(Stream(rpcmsg[c], c)') = Hdr + k
      BY <2>2, <3>1, BytesIs
    <3>3. Len(Stream(rpcmsg[c], c)')
             = Len(rpcmsg[c]) + Len(ahead[c]) + Len(inq'[c]) + Len(tosend'[c])
      <4>1. rpcmsg'[c] = rpcmsg[c] /\ ahead'[c] = ahead[c]
        BY <1>1
      <4>2. Stream(rpcmsg[c], c)' = Row(rpcmsg[c], ahead[c], inq'[c], tosend'[c])
        BY <4>1, Zenon DEF Stream, Row, Cat
      <4> QED BY <1>3, <1>12, <4>2, Zenon
    <3>4. Len(inq'[c]) <= Hdr + k
      BY <2>1, <2>2, <3>2, <3>3, Numbers, Part, Zenon
    <3> QED BY <2>1, <2>2, <3>4, Numbers
  <2>4. CASE InBody(c, k)
    <3>1. Stream(in[c], c)' = Body(<<conn[c], asked[c]>>, k)
      BY <1>1, <1>15, <2>4, Zenon DEF InBody
    <3>2. Len(Stream(in[c], c)') = k
      BY <2>2, <3>1, BodyIs
    <3>3. Len(Stream(in[c], c)')
             = Len(in[c]) + Len(ahead[c]) + Len(inq'[c]) + Len(tosend'[c])
      <4>1. in'[c] = in[c] /\ ahead'[c] = ahead[c]
        BY <1>1
      <4>2. Stream(in[c], c)' = Row(in[c], ahead[c], inq'[c], tosend'[c])
        BY <4>1, Zenon DEF Stream, Row, Cat
      <4> QED BY <1>3, <1>12, <4>2, Zenon
    <3>4. Len(inq'[c]) <= k
      BY <2>1, <2>2, <3>2, <3>3, Numbers, Part, Zenon
    <3> QED BY <2>1, <2>2, <3>4, Numbers
  <2> QED BY <1>13, <2>3, <2>4
<1>17. ClientInv(c)'
  <2>1. Receiving(c)'
    <3>1. InHeader(c, k)' \/ InBody(c, k)'
      BY <1>13, <1>14, <1>15
    <3> QED BY <1>1, <1>11, <3>1 DEF Receiving
  <2>2. Counted(c)'
    <3>1. Expected(c)' = Expected(c)
      BY <1>1, Zenon DEF Expected
    <3>2. Counted(c)
      BY <1>2, <1>11 DEF ClientInv, Open
    <3> QED BY <1>1, <3>1, <3>2, Zenon DEF Counted
  <2>3. Executed(c)'
    <3>1. Executed(c)
      BY <1>2 DEF ClientInv
    <3> QED BY <1>1, <3>1, Zenon DEF Executed
  <2>4. state'[c] = "RecvData" /\ up'[c] = up[c]
    BY <1>1, <1>11
  <2> QED BY <1>1, <1>2, <1>11, <1>16, <2>1, <2>2, <2>3, <2>4 DEF ClientInv, Open
<1> QED BY <1>1, <1>6, <1>7, <1>9, <1>17, OneClient

LEMMA InvHear ==
    ASSUME ServerAssumption, ServerInv, NEW c \in Clients, Hear(c)
    PROVE  ServerInv'
<1>1. /\ up[c] = "yes" /\ outq[c] # <<>>
      /\ heard' = [heard EXCEPT ![c] = heard[c] \o outq[c]]
      /\ outq' = [outq EXCEPT ![c] = <<>>]
      /\ UNCHANGED <<bufsize, trigger, running, state, nleft, iov, bufPtr, ahead, rpcmsg,
                     len, in, ready, asked, tosend, conn, up, inq, done, nlost>>
    BY DEF Hear, loopVars, clientVars
<1>2. Streams /\ Values /\ ClientInv(c)
    BY DEF ServerInv
<1>3. heard[c] \in Seq(Byte) /\ outq[c] \in Seq(Byte)
    BY <1>2 DEF Streams
<1>4. /\ heard[c] \o outq[c] \in Seq(Byte)
      /\ Len(heard[c] \o outq[c]) = Len(heard[c]) + Len(outq[c])
    BY <1>3, Lengths
<1>5. Streams'
  <2>1. <<>> \in Seq(Byte)
    OBVIOUS
  <2> QED BY <1>1, <1>2, <1>4, <2>1 DEF Streams
<1>6. Values'
    BY <1>1, <1>2, Zenon DEF Values
<1>7. /\ heard'[c] = heard[c] \o outq[c] /\ outq'[c] = <<>>
      /\ \A d \in Clients \ {c} : heard'[d] = heard[d] /\ outq'[d] = outq[d]
    BY <1>1, <1>2 DEF Streams
<1>8. \A d \in Clients \ {c} : Same(d) /\ (d \in ready' <=> d \in ready)
    BY <1>1, <1>7, Zenon DEF Same
<1>9. state[c] \in Open
    BY <1>1, <1>2 DEF ClientInv, Fresh
<1>10. ClientInv(c)'
  <2>1. Receiving(c) => Receiving(c)'
    <3>1. NoRequest(c) => NoRequest(c)'
      BY <1>1, Zenon DEF NoRequest
    <3>2. \A n : InHeader(c, n) => InHeader(c, n)'
      BY <1>1, Zenon DEF InHeader, Stream
    <3>3. \A n : InBody(c, n) => InBody(c, n)'
      BY <1>1, Zenon DEF InBody, Stream
    <3>4. /\ nleft' = nleft /\ bufPtr' = bufPtr /\ in' = in
          /\ rpcmsg' = rpcmsg /\ asked' = asked /\ done' = done
      BY <1>1
    <3> QED BY <3>1, <3>2, <3>3, <3>4 DEF Receiving
  <2>2. Sending(c) => Sending(c)'
    BY <1>1, Zenon DEF Sending, NoRequest
  <2>3. Executed(c) => Executed(c)'
    BY <1>1, Zenon DEF Executed
  <2>4. Counted(c)'
    <3>1. Expected(c)' = Expected(c)
      BY <1>1, Zenon DEF Expected
    <3> DEFINE x == IF state[c] = "SendData" THEN nleft[c] ELSE 0
    <3>2. Len(heard[c]) + Len(outq[c]) + x = Len(Expected(c))
      BY <1>2, <1>9, Zenon DEF ClientInv, Counted
    <3>3. Len(heard[c]) \in Nat /\ Len(outq[c]) \in Nat /\ x \in Nat
      BY Lens
    <3>4. Len(heard'[c]) = Len(heard[c]) + Len(outq[c]) /\ Len(outq'[c]) = 0
      BY <1>4, <1>7
    <3> HIDE DEF x
    <3>5. Len(heard'[c]) + Len(outq'[c]) + x = Len(Expected(c)')
      <4>1. Len(heard[c]) + Len(outq[c]) + x = Len(Expected(c)')
        BY <3>1, <3>2, Zenon
      <4> DEFINE h == Len(heard[c])
                 o == Len(outq[c])
                 h2 == Len(heard'[c])
                 o2 == Len(outq'[c])
                 s == Len(Expected(c)')
      <4>2. h \in Nat /\ o \in Nat /\ h + o + x = s /\ h2 = h + o /\ o2 = 0
        BY <3>3, <3>4, <4>1, Zenon
      <4> HIDE DEF h, o, h2, o2, s
      <4>3. h2 + o2 + x = s
        BY ONLY <3>3, <4>2
      <4> QED BY <4>3, Zenon DEF h2, o2, s
    <3> QED BY <1>1, <3>5, Zenon DEF Counted, x
  <2>5. Len(outq'[c]) = 0 /\ Room >= 0
    BY <1>7, Numbers
  <2>6. /\ state'[c] = state[c] /\ up'[c] = up[c] /\ rpcmsg'[c] = rpcmsg[c]
        /\ in'[c] = in[c] /\ ahead'[c] = ahead[c] /\ inq'[c] = inq[c]
        /\ ready' = ready /\ bufsize' = bufsize
    BY <1>1
  <2> QED BY <1>2, <1>9, <2>1, <2>2, <2>3, <2>4, <2>5, <2>6 DEF ClientInv
<1> QED BY <1>1, <1>5, <1>6, <1>8, <1>10, OneClient

-----------------------------------------------------------------------------
(* Connections and sends.                                                  *)

\* The sums of the lengths of what a client has got and will get.
LEMMA SumZero == ASSUME NEW h, NEW o, NEW x \in Nat, h = 0, o = 0 PROVE h + o + x = x
OBVIOUS

LEMMA InvConnected ==
    ASSUME ServerAssumption, ServerInv, NEW c \in Clients, Connected(c)
    PROVE  ServerInv'
<1> DEFINE h == Handshake(conn[c])
<1>1. /\ state[c] = "Connecting" /\ iov' = [iov EXCEPT ![c] = <<h>>]
      /\ nleft' = [nleft EXCEPT ![c] = Len(Join(<<h>>))]
      /\ state' = [state EXCEPT ![c] = "SendData"]
      /\ ahead' = [ahead EXCEPT ![c] = <<>>] /\ in' = [in EXCEPT ![c] = <<>>]
      /\ ready' = ready \ {c}
      /\ UNCHANGED <<bufsize, trigger, running, bufPtr, rpcmsg, len, tosend, asked, heard,
                     conn, up, inq, outq, done, nlost>>
    BY DEF Connected, SendVec, loopVars, peerVars
<1>2. Streams /\ Values /\ ClientInv(c)
    BY DEF ServerInv
<1>3. h \in Seq(Byte) /\ Len(h) = Hdr
    BY Lens, HandshakeIs
<1> HIDE DEF h
<1>4. <<h>> \in Seq(Seq(Byte)) /\ Len(<<h>>) = 1 /\ <<>> \in Seq(Byte)
    BY <1>3
<1>5. Join(<<h>>) = h /\ Len(Join(<<h>>)) = Hdr
    BY <1>3, JoinOne
<1>6. Streams'
  <2>1. iov' \in [Clients -> Seq(Seq(Byte))]
    BY <1>1, <1>2, <1>4 DEF Streams
  <2>2. ahead' \in [Clients -> Seq(Byte)] /\ in' \in [Clients -> Seq(Byte)]
    BY <1>1, <1>2, <1>4 DEF Streams
  <2> QED BY <1>1, <1>2, <2>1, <2>2, Zenon DEF Streams
<1>7. Values'
  <2>1. Hdr \in 0..Hdr + MaxBody
    BY Numbers
  <2>2. nleft' \in [Clients -> 0..Hdr + MaxBody]
    BY <1>1, <1>2, <1>5, <2>1 DEF Values
  <2>3. state' \in [Clients -> {"Retry", "Connecting", "RecvData", "SendData"}]
    BY <1>1, <1>2 DEF Values
  <2> QED BY <1>1, <1>2, <2>2, <2>3 DEF Values
<1>8. /\ iov'[c] = <<h>> /\ nleft'[c] = Hdr /\ state'[c] = "SendData" /\ ahead'[c] = <<>>
      /\ in'[c] = <<>> /\ c \notin ready'
    BY <1>1, <1>2, <1>5 DEF Streams, Values
<1>9. \A d \in Clients \ {c} : Same(d) /\ (d \in ready' <=> d \in ready)
    BY <1>1, <1>2 DEF Same, Streams, Values
<1>10. Fresh(c)
    BY <1>1, <1>2 DEF ClientInv, Open
<1>11. ClientInv(c)'
  <2>1. Sending(c)'
    <3>1. NoRequest(c)'
      BY <1>1, <1>8, <1>10 DEF Fresh, NoRequest
    <3>2. nleft'[c] > 0 /\ Len(iov'[c]) \in {1, 2} /\ Len(Join(iov'[c])) <= nleft'[c]
      BY <1>4, <1>5, <1>8, Numbers
    <3> QED BY <3>1, <3>2 DEF Sending
  <2>2. Counted(c)'
    <3>1. Expected(c)' = Sent(conn[c], <<>>)
      BY <1>1, <1>10, ExpectedIs, Zenon DEF Fresh, Expected, Sent, Replies
    <3>2. Len(Expected(c)') = Hdr
      BY <3>1, Lens, SentFirst
    <3>3. Len(heard'[c]) = 0 /\ Len(outq'[c]) = 0
      BY <1>1, <1>10 DEF Fresh
    <3>4. Len(heard'[c]) + Len(outq'[c]) + Hdr = Hdr
      BY ONLY <3>3, ServerAssumption, Numbers, SumZero
    <3> QED BY <1>8, <3>2, <3>4, Zenon DEF Counted
  <2>3. Executed(c)'
    BY <1>1, <1>10 DEF Fresh, Executed
  <2>4. Len(in'[c]) = 0 /\ Len(ahead'[c]) = 0 /\ Len(inq'[c]) = 0 /\ Len(outq'[c]) = 0
    BY <1>1, <1>8, <1>10 DEF Fresh
  <2>5. up'[c] # "no" /\ rpcmsg'[c] = rpcmsg[c]
    BY <1>1, <1>2 DEF ClientInv
  <2>6. bufsize' \in Nat
    BY <1>6 DEF Streams
  <2> QED BY <1>2, <1>8, <2>1, <2>2, <2>3, <2>4, <2>5, <2>6, Numbers DEF ClientInv, Open
<1> QED BY <1>1, <1>6, <1>7, <1>9, <1>11, OneClient

\* A send: what it changes, and how much it takes.
LEMMA SendTakes ==
    ASSUME ServerAssumption, ServerInv, NEW c \in Clients, NEW n \in Nat, Send(c, n)
    PROVE  /\ Join(iov[c]) \in Seq(Byte) /\ n > 0 /\ n <= Len(Join(iov[c]))
           /\ Len(Join(iov[c])) <= nleft[c] /\ Len(iov[c]) \in {1, 2}
           /\ Len(outq[c]) + n <= Room /\ NoRequest(c) /\ state[c] = "SendData"
           /\ SubSeq(Join(iov[c]), 1, n) \in Seq(Byte)
           /\ Len(SubSeq(Join(iov[c]), 1, n)) = n
           /\ outq[c] \o SubSeq(Join(iov[c]), 1, n) \in Seq(Byte)
           /\ Len(outq[c] \o SubSeq(Join(iov[c]), 1, n)) = Len(outq[c]) + n
           /\ UpdateIov(iov[c], n) \in Seq(Seq(Byte))
           /\ Len(UpdateIov(iov[c], n)) = Len(iov[c])
           /\ Len(Join(UpdateIov(iov[c], n))) <= nleft[c] - n
<1> DEFINE all == Join(iov[c])
<1>1. Sending(c) /\ iov[c] \in Seq(Seq(Byte)) /\ outq[c] \in Seq(Byte) /\ nleft[c] \in Nat
    BY Numbers DEF Send, ServerInv, ClientInv, Streams, Values
<1>2. all \in Seq(Byte) /\ Len(all) \in Nat /\ Len(outq[c]) \in Nat
    BY <1>1, JoinType, LenProperties
<1>3. n \in 1..Least(Len(all), Room - Len(outq[c])) /\ state[c] = "SendData"
    BY DEF Send
<1>4. /\ Len(all) <= nleft[c] /\ NoRequest(c) /\ Len(iov[c]) \in {1, 2}
    BY <1>1 DEF Sending
<1> HIDE DEF all
<1>5. n > 0 /\ n <= Len(all) /\ Len(outq[c]) + n <= Room
  <2> DEFINE a == Len(all)
             b == Len(outq[c])
  <2>1. a \in Nat /\ b \in Nat /\ n \in 1..Least(a, Room - b)
    BY <1>2, <1>3
  <2> HIDE DEF a, b
  <2>2. n > 0 /\ n <= a /\ b + n <= Room
    BY ONLY <2>1, n \in Nat, ServerAssumption, Numbers DEF Least
  <2> QED BY <2>2 DEF a, b
<1>6. SubSeq(all, 1, n) \in Seq(Byte) /\ Len(SubSeq(all, 1, n)) = n
    BY <1>2, <1>5, Cut
<1>7. /\ outq[c] \o SubSeq(all, 1, n) \in Seq(Byte)
      /\ Len(outq[c] \o SubSeq(all, 1, n)) = Len(outq[c]) + Len(SubSeq(all, 1, n))
    BY <1>1, <1>6, Lengths
<1>8. /\ UpdateIov(iov[c], n) \in Seq(Seq(Byte)) /\ Len(UpdateIov(iov[c], n)) = Len(iov[c])
      /\ Len(Join(UpdateIov(iov[c], n))) <= Len(all) - n
    BY <1>1, <1>4, <1>5, Updated DEF all
<1>9. Len(Join(UpdateIov(iov[c], n))) <= nleft[c] - n
  <2> DEFINE a == Len(all)
             b == Len(Join(UpdateIov(iov[c], n)))
             l == nleft[c]
  <2>1. Join(UpdateIov(iov[c], n)) \in Seq(Byte)
    BY <1>8, JoinType
  <2>2. a \in Nat /\ b \in Nat /\ l \in Nat /\ b <= a - n /\ a <= l
    BY <1>1, <1>2, <1>4, <1>8, <2>1, LenProperties
  <2> HIDE DEF a, b, l
  <2>3. b <= l - n
    BY ONLY <2>2, n \in Nat
  <2> QED BY <2>3 DEF b, l
<1> QED BY <1>2, <1>3, <1>4, <1>5, <1>6, <1>7, <1>8, <1>9, Zenon DEF all

LEMMA InvSend ==
    ASSUME ServerAssumption, ServerInv, NEW c \in Clients, NEW n \in Nat, Send(c, n)
    PROVE  ServerInv'
<1> DEFINE part == SubSeq(Join(iov[c]), 1, n)
           rest == UpdateIov(iov[c], n)
           out  == outq[c] \o part
<1>1. /\ n > 0 /\ n <= nleft[c] /\ Len(outq[c]) + n <= Room /\ NoRequest(c)
      /\ state[c] = "SendData" /\ out \in Seq(Byte) /\ Len(out) = Len(outq[c]) + n
      /\ rest \in Seq(Seq(Byte)) /\ Len(rest) \in {1, 2} /\ Len(Join(rest)) <= nleft[c] - n
  <2>1. n <= nleft[c]
    <3> DEFINE a == Len(Join(iov[c]))
               l == nleft[c]
    <3>1. a \in Nat /\ l \in Nat /\ n <= a /\ a <= l
      BY SendTakes, Lens, LenProperties
    <3> HIDE DEF a, l
    <3>2. n <= l
      BY ONLY <3>1, n \in Nat
    <3> QED BY <3>2 DEF l
  <2> QED BY <2>1, SendTakes, Zenon
<1>2. /\ outq' = [outq EXCEPT ![c] = out] /\ iov' = [iov EXCEPT ![c] = rest]
      /\ ready' \in {ready, ready \ {c}} /\ c \in ready
      /\ UNCHANGED <<bufsize, trigger, running, ahead, len, tosend, asked, heard, conn,
                     up, inq, done, nlost>>
    BY DEF Send, loopVars, peerVars
<1>3. \/ /\ nleft[c] = n /\ nleft' = [nleft EXCEPT ![c] = Hdr]
         /\ bufPtr' = [bufPtr EXCEPT ![c] = "rpcmsg"]
         /\ rpcmsg' = [rpcmsg EXCEPT ![c] = <<>>]
         /\ state' = [state EXCEPT ![c] = "RecvData"] /\ in' = [in EXCEPT ![c] = <<>>]
      \/ /\ nleft[c] # n /\ nleft' = [nleft EXCEPT ![c] = nleft[c] - n]
         /\ UNCHANGED <<bufPtr, rpcmsg, state, in>>
    BY DEF Send, RpsSend
<1>4. Streams /\ Values /\ ClientInv(c)
    BY DEF ServerInv
<1> HIDE DEF part, rest, out
<1>5. <<>> \in Seq(Byte) /\ Len(<<>>) = 0
    OBVIOUS
<1>6. Streams'
  <2>1. outq' \in [Clients -> Seq(Byte)] /\ iov' \in [Clients -> Seq(Seq(Byte))]
    BY <1>1, <1>2, <1>4 DEF Streams
  <2>2. rpcmsg \in [Clients -> Seq(Byte)] /\ in \in [Clients -> Seq(Byte)]
    BY <1>4 DEF Streams
  <2>3. /\ rpcmsg' = rpcmsg \/ rpcmsg' = [rpcmsg EXCEPT ![c] = <<>>]
        /\ in' = in \/ in' = [in EXCEPT ![c] = <<>>]
    BY <1>3, Zenon
  <2>4. rpcmsg' \in [Clients -> Seq(Byte)] /\ in' \in [Clients -> Seq(Byte)]
    BY ONLY <1>5, <2>2, <2>3
  <2> QED BY <1>2, <1>4, <2>1, <2>4, Zenon DEF Streams
<1>7. Values'
  <2>1. Hdr \in 0..Hdr + MaxBody /\ nleft[c] \in 0..Hdr + MaxBody
    BY <1>4, Numbers DEF Values
  <2>2. nleft[c] # n => nleft[c] - n \in 0..Hdr + MaxBody
    BY <1>1, <2>1, Numbers, SMTT(30)
  <2>3. nleft' \in [Clients -> 0..Hdr + MaxBody]
    BY <1>3, <1>4, <2>1, <2>2, ZenonT(40) DEF Values
  <2>4. /\ state' \in [Clients -> {"Retry", "Connecting", "RecvData", "SendData"}]
        /\ bufPtr' \in [Clients -> {"rpcmsg", "in"}]
    BY <1>3, <1>4 DEF Values
  <2>5. ready' \subseteq Clients
    BY <1>2, <1>4 DEF Values
  <2> QED BY <1>2, <1>4, <2>3, <2>4, <2>5, Zenon DEF Values
<1>8. \A d \in Clients \ {c} : Same(d) /\ (d \in ready' <=> d \in ready)
  <2>1. \A d \in Clients \ {c} : d \in ready' <=> d \in ready
    BY <1>2
  <2>2. \A d \in Clients \ {c} : outq'[d] = outq[d] /\ iov'[d] = iov[d]
    BY <1>2, <1>4 DEF Streams
  <2>3. \A d \in Clients \ {c} : /\ nleft'[d] = nleft[d] /\ bufPtr'[d] = bufPtr[d]
                                 /\ rpcmsg'[d] = rpcmsg[d] /\ state'[d] = state[d]
                                 /\ in'[d] = in[d]
    BY <1>3, <1>4, ZenonT(40) DEF Streams, Values
  <2> QED BY <1>2, <2>1, <2>2, <2>3, Zenon DEF Same
<1>9. NoRequest(c)' /\ ahead'[c] = <<>>
    BY <1>1, <1>2 DEF NoRequest
<1>10. outq'[c] = out /\ iov'[c] = rest
    BY <1>2, <1>4 DEF Streams
<1>11. Expected(c)' = Expected(c)
    BY <1>2, Zenon DEF Expected
<1>12. Len(heard[c]) + Len(outq[c]) + nleft[c] = Len(Expected(c))
    BY <1>1, <1>4, Zenon DEF ClientInv, Counted, Open
<1>13. Len(heard[c]) \in Nat /\ Len(outq[c]) \in Nat /\ nleft[c] \in Nat
    BY Lens
<1>14. Executed(c)'
  <2>1. Executed(c)
    BY <1>4 DEF ClientInv
  <2> QED BY <1>2, <2>1, Zenon DEF Executed
<1> DEFINE a == Len(heard[c])
           b == Len(outq[c])
           l == nleft[c]
           s == Len(Expected(c))
           b2 == Len(outq'[c])
<1>15. /\ a \in Nat /\ b \in Nat /\ l \in Nat /\ a + b + l = s /\ b2 = b + n
       /\ n > 0 /\ n <= l /\ b + n <= Room
    BY <1>1, <1>10, <1>12, <1>13, Zenon
<1> HIDE DEF a, b, l, s, b2
<1>16. b2 <= Room /\ (l = n => a + b2 + 0 = s) /\ (l # n => a + b2 + (l - n) = s /\ l - n > 0)
    BY ONLY <1>15, n \in Nat, ServerAssumption, Numbers
<1>17. ASSUME nleft[c] = n PROVE ClientInv(c)'
  <2>1. /\ nleft'[c] = Hdr /\ bufPtr'[c] = "rpcmsg" /\ rpcmsg'[c] = <<>>
        /\ state'[c] = "RecvData" /\ in'[c] = <<>>
    BY <1>3, <1>4, <1>17 DEF Streams, Values
  <2>2. Receiving(c)'
    BY <1>9, <2>1, Numbers DEF Receiving
  <2>3. Counted(c)'
    <3>1. a + b2 + 0 = s
      BY <1>16, <1>17 DEF l
    <3>2. heard'[c] = heard[c] /\ state'[c] # "SendData"
      BY <1>2, <2>1
    <3> QED BY <1>11, <3>1, <3>2, Zenon DEF Counted, a, b2, s
  <2>4. Len(outq'[c]) <= Room
    BY <1>16 DEF b2
  <2> QED BY <1>2, <1>4, <1>5, <1>9, <1>14, <2>1, <2>2, <2>3, <2>4, Numbers
          DEF ClientInv, Open
<1>18. ASSUME nleft[c] # n PROVE ClientInv(c)'
  <2>1. nleft'[c] = nleft[c] - n /\ state'[c] = "SendData" /\ UNCHANGED <<rpcmsg, in>>
    BY <1>1, <1>3, <1>4, <1>18 DEF Values
  <2>2. Sending(c)'
    <3>1. nleft'[c] > 0
      BY <1>16, <1>18, <2>1 DEF l
    <3> QED BY <1>1, <1>9, <1>10, <2>1, <3>1, Zenon DEF Sending
  <2>3. Counted(c)'
    <3>1. a + b2 + (nleft[c] - n) = s
      BY <1>16, <1>18 DEF l
    <3>2. heard'[c] = heard[c]
      BY <1>2
    <3> QED BY <1>11, <2>1, <3>1, <3>2, Zenon DEF Counted, a, b2, s
  <2>4. Len(outq'[c]) <= Room
    BY <1>16 DEF b2
  <2> QED BY <1>1, <1>2, <1>4, <1>9, <1>14, <2>1, <2>2, <2>3, <2>4 DEF ClientInv, Open
<1> QED BY <1>2, <1>6, <1>7, <1>8, <1>17, <1>18, OneClient

-----------------------------------------------------------------------------
(* Receiving.                                                              *)

\* got is what comes next of the bytes in the read-ahead buffer and the
\* socket, and no more than is wanted.
Took(c, got) ==
    /\ c \in ready /\ state[c] = "RecvData"
    /\ got \in Seq(Byte) /\ Len(got) > 0 /\ Len(got) <= nleft[c]
    /\ ahead' \in [Clients -> Seq(Byte)] /\ inq' \in [Clients -> Seq(Byte)]
    /\ \A d \in Clients \ {c} : ahead'[d] = ahead[d] /\ inq'[d] = inq[d]
    /\ Len(ahead'[c]) <= bufsize /\ Len(inq'[c]) <= Len(inq[c])
    /\ Cat(ahead[c], inq[c]) = Cat(Cat(got, ahead'[c]), inq'[c])

LEMMA LeastIs ==
    ASSUME NEW a \in Nat, NEW b \in Nat
    PROVE  Least(a, b) \in Nat /\ Least(a, b) <= a /\ Least(a, b) <= b
BY DEF Least

LEMMA TookDirect ==
    ASSUME ServerAssumption, ServerInv, NEW c \in Clients, RecvDirect(c)
    PROVE  \E got : Took(c, got) /\ Received(c, got)
<1> DEFINE n == Least(nleft[c], Len(inq[c]))
           got == SubSeq(inq[c], 1, n)
           rest == Drop(inq[c], n)
<1>1. /\ c \in ready /\ state[c] = "RecvData" /\ bufsize = 0 /\ n > 0
      /\ inq' = [inq EXCEPT ![c] = rest] /\ ahead' = ahead /\ Received(c, got)
    BY DEF RecvDirect
<1>2. Streams /\ Values /\ ClientInv(c)
    BY DEF ServerInv
<1>3. /\ inq[c] \in Seq(Byte) /\ Len(inq[c]) \in Nat /\ nleft[c] \in Nat
      /\ ahead[c] \in Seq(Byte) /\ Len(ahead[c]) \in Nat
  <2>1. inq[c] \in Seq(Byte) /\ ahead[c] \in Seq(Byte)
    BY <1>2 DEF Streams
  <2> QED BY <2>1, Lens, LenProperties
<1>4. n \in Nat /\ n <= nleft[c] /\ n <= Len(inq[c])
    BY <1>3, LeastIs
<1> HIDE DEF n
<1>5. /\ got \in Seq(Byte) /\ rest \in Seq(Byte) /\ Len(got) = n
      /\ Len(rest) = Len(inq[c]) - n /\ got \o rest = inq[c]
    BY <1>3, <1>4, Cut
<1> HIDE DEF got, rest
<1>6. Len(rest) <= Len(inq[c])
    BY <1>3, <1>4, <1>5
<1>7. ahead[c] = <<>>
    BY <1>1, <1>2, <1>3, NoLength DEF ClientInv
<1>8. Cat(ahead[c], inq[c]) = Cat(Cat(got, ahead[c]), rest)
  <2>1. <<>> \o inq[c] = inq[c] /\ got \o <<>> = got
    BY <1>3, <1>5, ConcatEmptySeq
  <2> QED BY <1>5, <1>7, <2>1, Zenon DEF Cat
<1>9. /\ inq' \in [Clients -> Seq(Byte)] /\ ahead' \in [Clients -> Seq(Byte)]
      /\ inq'[c] = rest /\ \A d \in Clients \ {c} : inq'[d] = inq[d]
    BY <1>1, <1>2, <1>5 DEF Streams
<1>10. Len(ahead[c]) <= bufsize
    BY <1>2 DEF ClientInv
<1>11. Took(c, got)
    BY <1>1, <1>4, <1>5, <1>6, <1>8, <1>9, <1>10, Zenon DEF Took
<1> QED BY <1>1, <1>11, Zenon

LEMMA TookAhead ==
    ASSUME ServerAssumption, ServerInv, NEW c \in Clients, RecvAhead(c)
    PROVE  \E got : Took(c, got) /\ Received(c, got)
<1> DEFINE fill == IF ahead[c] # <<>> THEN 0 ELSE Least(bufsize, Len(inq[c]))
           sub  == SubSeq(inq[c], 1, fill)
           rest == Drop(inq[c], fill)
           have == ahead[c] \o sub
           n    == Least(nleft[c], Len(have))
           got  == SubSeq(have, 1, n)
           left == Drop(have, n)
<1>1. /\ c \in ready /\ state[c] = "RecvData" /\ n > 0
      /\ inq' = [inq EXCEPT ![c] = rest] /\ ahead' = [ahead EXCEPT ![c] = left]
      /\ Received(c, got)
    BY DEF RecvAhead
<1>2. Streams /\ Values /\ ClientInv(c)
    BY DEF ServerInv
<1>3. /\ inq[c] \in Seq(Byte) /\ Len(inq[c]) \in Nat /\ nleft[c] \in Nat
      /\ ahead[c] \in Seq(Byte) /\ Len(ahead[c]) \in Nat /\ bufsize \in Nat
      /\ Len(ahead[c]) <= bufsize
  <2>1. inq[c] \in Seq(Byte) /\ ahead[c] \in Seq(Byte) /\ bufsize \in Nat
    BY <1>2 DEF Streams
  <2>2. Len(ahead[c]) <= bufsize
    BY <1>2 DEF ClientInv
  <2> QED BY <2>1, <2>2, Lens, LenProperties
<1>4. fill \in Nat /\ fill <= Len(inq[c]) /\ Len(ahead[c]) + fill <= bufsize
  <2>1. CASE ahead[c] # <<>>
    BY <1>3, <2>1
  <2>2. CASE ahead[c] = <<>>
    <3>1. Len(ahead[c]) = 0 /\ fill = Least(bufsize, Len(inq[c]))
      BY <2>2
    <3> HIDE DEF fill
    <3>2. fill \in Nat /\ fill <= bufsize /\ fill <= Len(inq[c])
      BY <1>3, <3>1, LeastIs
    <3>3. Len(ahead[c]) + fill = fill
      BY ONLY <3>1, <3>2
    <3> QED BY <3>2, <3>3, Zenon
  <2> QED BY <2>1, <2>2
<1> HIDE DEF fill
<1>5. /\ sub \in Seq(Byte) /\ rest \in Seq(Byte) /\ Len(sub) = fill
      /\ Len(rest) = Len(inq[c]) - fill /\ sub \o rest = inq[c]
    BY <1>3, <1>4, Cut
<1> HIDE DEF sub, rest
<1>6. have \in Seq(Byte) /\ Len(have) = Len(ahead[c]) + fill
    BY <1>3, <1>5, Lengths
<1>7. Len(have) \in Nat /\ Len(have) <= bufsize /\ Len(rest) <= Len(inq[c])
    BY <1>3, <1>4, <1>5, <1>6
<1>8. n \in Nat /\ n <= nleft[c] /\ n <= Len(have)
    BY <1>3, <1>7, LeastIs
<1>9. have = Cat(ahead[c], sub)
    BY Zenon DEF Cat
<1> HIDE DEF n, have
<1>10. /\ got \in Seq(Byte) /\ left \in Seq(Byte) /\ Len(got) = n
       /\ Len(left) = Len(have) - n /\ got \o left = have
    BY <1>6, <1>8, Cut
<1> HIDE DEF got, left
<1>11. Len(left) <= bufsize
    BY <1>3, <1>7, <1>8, <1>10
<1>12. Cat(ahead[c], inq[c]) = Cat(Cat(got, left), rest)
  <2>1. Cat(Cat(ahead[c], sub), rest) = Cat(ahead[c], Cat(sub, rest))
    <3>1. ahead[c] \in Seq(Byte) /\ sub \in Seq(Byte) /\ rest \in Seq(Byte)
      BY <1>3, <1>5
    <3>2. Grouped(ahead[c], sub, rest)
      BY ONLY <3>1, Grouping
    <3> QED BY <3>2, Zenon DEF Grouped
  <2>2. Cat(sub, rest) = inq[c] /\ Cat(got, left) = have
    BY <1>5, <1>10, Zenon DEF Cat
  <2> QED BY <1>9, <2>1, <2>2, Zenon
<1>13. /\ inq' \in [Clients -> Seq(Byte)] /\ inq'[c] = rest
       /\ \A d \in Clients \ {c} : inq'[d] = inq[d]
    BY <1>1, <1>2, <1>5 DEF Streams
<1>14. /\ ahead' \in [Clients -> Seq(Byte)] /\ ahead'[c] = left
       /\ \A d \in Clients \ {c} : ahead'[d] = ahead[d]
    BY <1>1, <1>2, <1>10 DEF Streams
<1>15. Took(c, got)
    BY <1>1, <1>7, <1>8, <1>10, <1>11, <1>12, <1>13, <1>14, Zenon DEF Took
<1> QED BY <1>1, <1>15, Zenon

\* What is taken moves from what is to come to what is received.
LEMMA TookMoves ==
    ASSUME ServerInv, NEW c \in Clients, NEW got, Took(c, got), NEW p \in Seq(Byte)
    PROVE  /\ Stream(p, c) = Row(Cat(p, got), ahead'[c], inq'[c], tosend[c])
           /\ Cat(p, got) \in Seq(Byte) /\ Len(Cat(p, got)) = Len(p) + Len(got)
<1>1. /\ ahead[c] \in Seq(Byte) /\ inq[c] \in Seq(Byte) /\ tosend[c] \in Seq(Byte)
      /\ got \in Seq(Byte) /\ ahead'[c] \in Seq(Byte) /\ inq'[c] \in Seq(Byte)
    BY DEF ServerInv, Streams, Took
<1>2. Cat(ahead[c], inq[c]) = Cat(Cat(got, ahead'[c]), inq'[c])
    BY Zenon DEF Took
<1>3. Row(p, ahead[c], inq[c], tosend[c]) = Row(Cat(p, got), ahead'[c], inq'[c], tosend[c])
  <2> DEFINE a == ahead[c]
             i == inq[c]
             t == tosend[c]
             b == ahead'[c]
             j == inq'[c]
  <2>1. /\ a \in Seq(Byte) /\ i \in Seq(Byte) /\ t \in Seq(Byte)
        /\ got \in Seq(Byte) /\ b \in Seq(Byte) /\ j \in Seq(Byte)
        /\ Splits(a, i, got, b, j)
    BY <1>1, <1>2, Zenon DEF Splits
  <2> HIDE DEF a, i, t, b, j
  <2>2. Moves(p, a, i, t, got, b, j)
    BY ONLY <2>1, p \in Seq(Byte), Moved
  <2> QED BY <2>2, Zenon DEF Moves, a, i, t, b, j
<1>4. Stream(p, c) = Row(p, ahead[c], inq[c], tosend[c])
    BY Zenon DEF Stream, Row, Cat
<1>5. Cat(p, got) \in Seq(Byte) /\ Len(Cat(p, got)) = Len(p) + Len(got)
    BY <1>1, CatLen
<1> QED BY <1>3, <1>4, <1>5, Zenon

\* What is taken is of a request.
LEMMA TookRequest ==
    ASSUME ServerAssumption, ServerInv, NEW c \in Clients, NEW got, Took(c, got)
    PROVE  /\ asked[c] = Len(done[c]) + 1 /\ (bufPtr[c] = "rpcmsg" => in[c] = <<>>)
           /\ \E n \in 0..MaxBody : InHeader(c, n) \/ InBody(c, n)
<1>1. Receiving(c)
    BY DEF Took, ServerInv, ClientInv
<1>2. ~ NoRequest(c)
  <2>1. /\ ahead[c] \in Seq(Byte) /\ inq[c] \in Seq(Byte) /\ got \in Seq(Byte)
        /\ ahead'[c] \in Seq(Byte) /\ inq'[c] \in Seq(Byte)
    BY DEF ServerInv, Streams, Took
  <2>2. Len(Cat(ahead[c], inq[c])) = Len(ahead[c]) + Len(inq[c])
    BY <2>1, CatLen
  <2>3. Cat(got, ahead'[c]) \in Seq(Byte) /\ Len(Cat(got, ahead'[c])) = Len(got) + Len(ahead'[c])
    BY <2>1, CatLen
  <2>4. Len(Cat(Cat(got, ahead'[c]), inq'[c])) = Len(Cat(got, ahead'[c])) + Len(inq'[c])
    BY <2>1, <2>3, CatLen
  <2>5. /\ Len(got) \in Nat /\ Len(ahead'[c]) \in Nat /\ Len(inq'[c]) \in Nat
        /\ Len(got) > 0
    BY <2>1, LenProperties DEF Took
  <2>6. Len(ahead[c]) + Len(inq[c]) # 0
    <3>1. Len(ahead[c]) + Len(inq[c]) = (Len(got) + Len(ahead'[c])) + Len(inq'[c])
      BY <2>2, <2>3, <2>4, Zenon DEF Took
    <3> DEFINE x == Len(ahead[c]) + Len(inq[c])
               g == Len(got)
               b == Len(ahead'[c])
               j == Len(inq'[c])
    <3>2. x = (g + b) + j /\ g \in Nat /\ b \in Nat /\ j \in Nat /\ g > 0
      BY <2>5, <3>1, Zenon
    <3> HIDE DEF x, g, b, j
    <3>3. x # 0
      BY ONLY <3>2
    <3> QED BY <3>3 DEF x
  <2>7. ahead[c] = <<>> /\ inq[c] = <<>> => Len(ahead[c]) + Len(inq[c]) = 0
    OBVIOUS
  <2> QED BY <2>6, <2>7, Zenon DEF NoRequest
<1> QED BY <1>1, <1>2, Zenon DEF Receiving

\* Of what is received and is to come, the first Len(h) bytes are received.
Begins(p, a, i, t, h, b) == p = h /\ Row(<<>>, a, i, t) = b

LEMMA Begun ==
    ASSUME NEW S, NEW p \in Seq(S), NEW a \in Seq(S), NEW i \in Seq(S), NEW t \in Seq(S),
           NEW h \in Seq(S), NEW b \in Seq(S),
           Row(p, a, i, t) = Cat(h, b), Len(p) = Len(h)
    PROVE  Begins(p, a, i, t, h, b)
<1> DEFINE r == Cat(Cat(a, i), t)
<1>1. Row(p, a, i, t) = Cat(p, r) /\ r \in Seq(S)
    BY FrontRow
<1>2. Row(<<>>, a, i, t) = r
  <2>1. <<>> \o a = a
    BY ConcatEmptySeq
  <2> QED BY <2>1, Zenon DEF Row, Cat
<1> HIDE DEF r
<1>3. p \o r = h \o b
    BY <1>1, Zenon DEF Cat
<1>4. p = h /\ r = b
    BY ONLY <1>1, <1>3, Len(p) = Len(h), p \in Seq(S), h \in Seq(S), b \in Seq(S), SameCut
<1> QED BY <1>2, <1>4, Zenon DEF Begins

LEMMA NothingLeft ==
    ASSUME NEW S, NEW a \in Seq(S), NEW i \in Seq(S), NEW t \in Seq(S),
           Row(<<>>, a, i, t) = <<>>
    PROVE  a = <<>> /\ i = <<>> /\ t = <<>>
<1>1. <<>> \in Seq(S) /\ Len(<<>>) = 0
    OBVIOUS
<1>2. RowLength(<<>>, a, i, t)
    BY ONLY <1>1, RowLen, a \in Seq(S), i \in Seq(S), t \in Seq(S)
<1>3. Len(<<>>) = Len(<<>>) + Len(a) + Len(i) + Len(t)
    BY <1>2, Zenon DEF RowLength
<1>4. Len(a) \in Nat /\ Len(i) \in Nat /\ Len(t) \in Nat
    BY LenProperties
<1>5. Len(a) = 0 /\ Len(i) = 0 /\ Len(t) = 0
    BY ONLY <1>1, <1>3, <1>4
<1> QED BY <1>5, NoLength

\* The header is complete when all that is wanted of it comes.
LEMMA HeaderComplete ==
    ASSUME ServerAssumption, ServerInv, NEW c \in Clients, NEW got, Took(c, got),
           Len(got) = nleft[c], NEW n \in 0..MaxBody, InHeader(c, n)
    PROVE  LET q == <<conn[c], asked[c]>> IN
           /\ rpcmsg[c] \o got = Header(q, n)
           /\ Row(<<>>, ahead'[c], inq'[c], tosend[c]) = Body(q, n)
<1> DEFINE q == <<conn[c], asked[c]>>
           p == Cat(rpcmsg[c], got)
<1>1. n \in Nat /\ q \in Nat \X Nat
    BY Lens, Numbers
<1> HIDE DEF q
<1>2. rpcmsg[c] \in Seq(Byte) /\ tosend[c] \in Seq(Byte)
    BY DEF ServerInv, Streams
<1>3. ahead'[c] \in Seq(Byte) /\ inq'[c] \in Seq(Byte)
    BY DEF Took
<1>4. /\ Stream(rpcmsg[c], c) = Row(p, ahead'[c], inq'[c], tosend[c])
      /\ p \in Seq(Byte) /\ Len(p) = Len(rpcmsg[c]) + Len(got)
    BY <1>2, TookMoves
<1>5. /\ Len(rpcmsg[c]) + nleft[c] = Hdr /\ Stream(rpcmsg[c], c) = Bytes(q, n)
    BY DEF InHeader, q
<1>6. /\ Header(q, n) \in Seq(Byte) /\ Body(q, n) \in Seq(Byte) /\ Len(Header(q, n)) = Hdr
      /\ Bytes(q, n) = Cat(Header(q, n), Body(q, n))
    BY <1>1, HeaderIs, BodyIs, BytesIs DEF Cat
<1>7. Len(p) = Len(Header(q, n))
    BY <1>4, <1>5, <1>6, Zenon
<1>8. Row(p, ahead'[c], inq'[c], tosend[c]) = Cat(Header(q, n), Body(q, n))
    BY <1>4, <1>5, <1>6, Zenon
<1>9. Begins(p, ahead'[c], inq'[c], tosend[c], Header(q, n), Body(q, n))
  <2> HIDE DEF p
  <2> QED BY ONLY <1>2, <1>3, <1>4, <1>6, <1>7, <1>8, Begun
<1> QED BY <1>9, Zenon DEF Begins, q, Cat

\* The same of the body, of which the request is complete.
LEMMA BodyComplete ==
    ASSUME ServerAssumption, ServerInv, NEW c \in Clients, NEW got, Took(c, got),
           Len(got) = nleft[c], NEW n \in 0..MaxBody, InBody(c, n)
    PROVE  LET q == <<conn[c], asked[c]>> IN
           /\ in[c] \o got = Body(q, n)
           /\ Row(<<>>, ahead'[c], inq'[c], tosend[c]) = <<>>
<1> DEFINE q == <<conn[c], asked[c]>>
           p == Cat(in[c], got)
<1>1. n \in Nat /\ q \in Nat \X Nat
    BY Lens, Numbers
<1> HIDE DEF q
<1>2. in[c] \in Seq(Byte) /\ tosend[c] \in Seq(Byte)
    BY DEF ServerInv, Streams
<1>3. ahead'[c] \in Seq(Byte) /\ inq'[c] \in Seq(Byte)
    BY DEF Took
<1>4. /\ Stream(in[c], c) = Row(p, ahead'[c], inq'[c], tosend[c])
      /\ p \in Seq(Byte) /\ Len(p) = Len(in[c]) + Len(got)
    BY <1>2, TookMoves
<1>5. Len(in[c]) + nleft[c] = n /\ Stream(in[c], c) = Body(q, n)
    BY DEF InBody, q
<1>6. Body(q, n) \in Seq(Byte) /\ Len(Body(q, n)) = n /\ <<>> \in Seq(Byte)
    BY <1>1, BodyIs
<1>7. Len(p) = Len(Body(q, n))
    BY <1>4, <1>5, <1>6, Zenon
<1>8. Row(p, ahead'[c], inq'[c], tosend[c]) = Cat(Body(q, n), <<>>)
  <2>1. Body(q, n) \o <<>> = Body(q, n)
    BY <1>6, ConcatEmptySeq
  <2> QED BY <1>4, <1>5, <2>1, Zenon DEF Cat
<1>9. Begins(p, ahead'[c], inq'[c], tosend[c], Body(q, n), <<>>)
  <2> HIDE DEF p
  <2> QED BY ONLY <1>2, <1>3, <1>4, <1>6, <1>7, <1>8, Begun
<1> QED BY <1>9, Zenon DEF Begins, q, Cat

\* The header is complete and has a body.
WantsBody(c, n) ==
    LET q == <<conn[c], asked[c]>> IN
    /\ n # 0 /\ Row(<<>>, ahead'[c], inq'[c], tosend[c]) = Body(q, n)
    /\ rpcmsg' = [rpcmsg EXCEPT ![c] = Header(q, n)]
    /\ len' = [len EXCEPT ![c] = 0] /\ in' = [in EXCEPT ![c] = <<>>]
    /\ nleft' = [nleft EXCEPT ![c] = n] /\ bufPtr' = [bufPtr EXCEPT ![c] = "in"]
    /\ UNCHANGED <<state, iov, done>>

\* The request is complete, and is executed.
Executes(c, n, m) ==
    LET q == <<conn[c], asked[c]>> IN
    /\ ahead'[c] = <<>> /\ inq'[c] = <<>> /\ tosend[c] = <<>>
    /\ rpcmsg' = [rpcmsg EXCEPT ![c] = Header(q, m)]
    /\ len' = [len EXCEPT ![c] = m] /\ in' = [in EXCEPT ![c] = Body(q, n)]
    /\ SendVec(c, <<Header(q, m), Body(q, m)>>)
    /\ done' = [done EXCEPT ![c] = Append(done[c],
                   [req |-> Header(q, n), body |-> Body(q, n), reply |-> m])]
    /\ UNCHANGED bufPtr

LEMMA Completed ==
    ASSUME ServerAssumption, ServerInv, NEW c \in Clients, NEW got, Took(c, got),
           Len(got) = nleft[c], RpsRecv(c, got), tosend' = tosend
    PROVE  \E n \in 0..MaxBody : WantsBody(c, n) \/ \E m \in 0..MaxBody : Executes(c, n, m)
<1> DEFINE q   == <<conn[c], asked[c]>>
           msg == IF bufPtr[c] = "rpcmsg" THEN rpcmsg[c] \o got ELSE rpcmsg[c]
           k   == IF bufPtr[c] = "rpcmsg" THEN msg[1][2] ELSE len[c]
           arg == IF bufPtr[c] = "rpcmsg" THEN in[c] ELSE in[c] \o got
<1>1. \/ /\ k # 0
         /\ rpcmsg' = [rpcmsg EXCEPT ![c] = msg] /\ len' = [len EXCEPT ![c] = 0]
         /\ in' = [in EXCEPT ![c] = <<>>] /\ nleft' = [nleft EXCEPT ![c] = k]
         /\ bufPtr' = [bufPtr EXCEPT ![c] = "in"]
         /\ UNCHANGED <<state, iov, done>>
      \/ /\ k = 0
         /\ in' = [in EXCEPT ![c] = arg]
         /\ \E m \in 0..MaxBody :
               /\ SendVec(c, <<Header(msg[1][1], m), Body(msg[1][1], m)>>)
               /\ len' = [len EXCEPT ![c] = m]
               /\ rpcmsg' = [rpcmsg EXCEPT ![c] = Header(msg[1][1], m)]
               /\ done' = [done EXCEPT ![c] = Append(done[c],
                              [req |-> msg, body |-> arg, reply |-> m])]
         /\ UNCHANGED bufPtr
    BY Zenon DEF RpsRecv
<1>2. PICK n \in 0..MaxBody : InHeader(c, n) \/ InBody(c, n)
    BY TookRequest
<1>3. n \in Nat /\ q \in Nat \X Nat
    BY Lens, Numbers
<1>4. Header(q, n)[1] = <<q, n, 1>>
  <2> HIDE DEF q
  <2> QED BY <1>3, HeaderIs
<1>5. Header(q, n)[1][2] = n /\ Header(q, n)[1][1] = q
  <2> HIDE DEF q
  <2> QED BY <1>4
<1>6. ahead'[c] \in Seq(Byte) /\ inq'[c] \in Seq(Byte) /\ tosend[c] \in Seq(Byte)
    BY DEF Took, ServerInv, Streams
<1>7. /\ msg = Header(q, n) /\ (k # 0 => k = n)
      /\ k # 0 => Row(<<>>, ahead'[c], inq'[c], tosend[c]) = Body(q, n)
      /\ k = 0 => /\ arg = Body(q, n)
                  /\ Row(<<>>, ahead'[c], inq'[c], tosend[c]) = <<>>
  <2>1. CASE InHeader(c, n)
    <3>1. bufPtr[c] = "rpcmsg" /\ in[c] = <<>>
      BY <2>1, TookRequest DEF InHeader
    <3>2. /\ rpcmsg[c] \o got = Header(q, n)
          /\ Row(<<>>, ahead'[c], inq'[c], tosend[c]) = Body(q, n)
      BY <2>1, HeaderComplete, Zenon
    <3>3. msg = Header(q, n) /\ k = n /\ arg = <<>>
      BY <1>5, <3>1, <3>2, Zenon
    <3>4. Body(q, 0) = <<>>
      BY NoBody, Zenon
    <3> HIDE DEF q, msg, k, arg
    <3> QED BY <3>2, <3>3, <3>4, Zenon
  <2>2. CASE InBody(c, n)
    <3>1. bufPtr[c] # "rpcmsg" /\ rpcmsg[c] = Header(q, n) /\ len[c] = 0
      BY <2>2 DEF InBody
    <3>2. /\ in[c] \o got = Body(q, n)
          /\ Row(<<>>, ahead'[c], inq'[c], tosend[c]) = <<>>
      BY <2>2, BodyComplete, Zenon
    <3>3. msg = Header(q, n) /\ k = 0 /\ arg = Body(q, n)
      BY <3>1, <3>2, Zenon
    <3> HIDE DEF q, msg, k, arg
    <3> QED BY <3>2, <3>3, Zenon
  <2> QED BY <1>2, <2>1, <2>2
<1>8. msg[1][1] = q
    BY <1>5, <1>7, Zenon
<1> HIDE DEF q, msg, k, arg
<1>9. k # 0 => WantsBody(c, n)
    BY <1>1, <1>7, Zenon DEF WantsBody, q
<1>10. k = 0 => \E m \in 0..MaxBody : Executes(c, n, m)
  <2> SUFFICES ASSUME k = 0 PROVE \E m \in 0..MaxBody : Executes(c, n, m)
    OBVIOUS
  <2>1. /\ in' = [in EXCEPT ![c] = Body(q, n)] /\ UNCHANGED bufPtr
        /\ \E m \in 0..MaxBody :
               /\ SendVec(c, <<Header(q, m), Body(q, m)>>)
               /\ len' = [len EXCEPT ![c] = m]
               /\ rpcmsg' = [rpcmsg EXCEPT ![c] = Header(q, m)]
               /\ done' = [done EXCEPT ![c] = Append(done[c],
                              [req |-> Header(q, n), body |-> Body(q, n), reply |-> m])]
    BY <1>1, <1>7, <1>8, Zenon
  <2>2. ahead'[c] = <<>> /\ inq'[c] = <<>> /\ tosend[c] = <<>>
    <3>1. Row(<<>>, ahead'[c], inq'[c], tosend[c]) = <<>>
      BY <1>7
    <3> QED BY ONLY <1>6, <3>1, NothingLeft
  <2> QED BY <2>1, <2>2, Zenon DEF Executes, q
<1> QED BY <1>9, <1>10, Zenon

LEMMA ReceivedFrame ==
    ASSUME NEW c \in Clients, NEW got, Took(c, got), Received(c, got)
    PROVE  /\ ready' = ready
           /\ UNCHANGED <<bufsize, trigger, running, tosend, asked, heard, conn, up, outq,
                          nlost>>
<1>1. state[c] # "SendData"
    BY DEF Took
<1> QED BY <1>1 DEF Received, Stays, loopVars, peerVars

\* A part of what is wanted.
LEMMA InvPart ==
    ASSUME ServerAssumption, ServerInv, NEW c \in Clients, NEW got, Took(c, got),
           Received(c, got), Len(got) # nleft[c]
    PROVE  ServerInv'
<1> DEFINE r == rpcmsg[c] \o got
           b == in[c] \o got
           l == nleft[c] - Len(got)
<1>1. /\ ready' = ready /\ nleft' = [nleft EXCEPT ![c] = l]
      /\ UNCHANGED <<bufsize, trigger, running, tosend, asked, heard, conn, up, outq, nlost,
                     state, iov, bufPtr, len, done>>
    BY ReceivedFrame DEF Received
<1>2. IF bufPtr[c] = "rpcmsg" THEN rpcmsg' = [rpcmsg EXCEPT ![c] = r] /\ UNCHANGED in
      ELSE in' = [in EXCEPT ![c] = b] /\ UNCHANGED rpcmsg
    BY Zenon DEF Received
<1>3. Streams /\ Values /\ ClientInv(c)
    BY DEF ServerInv
<1>4. /\ rpcmsg[c] \in Seq(Byte) /\ in[c] \in Seq(Byte) /\ got \in Seq(Byte)
      /\ state[c] = "RecvData" /\ c \in ready
    BY <1>3 DEF Streams, Took
<1>5. /\ r \in Seq(Byte) /\ Len(r) = Len(rpcmsg[c]) + Len(got)
      /\ b \in Seq(Byte) /\ Len(b) = Len(in[c]) + Len(got)
    BY <1>4, Lengths
<1>6. /\ Stream(rpcmsg[c], c) = Row(r, ahead'[c], inq'[c], tosend[c])
      /\ Stream(in[c], c) = Row(b, ahead'[c], inq'[c], tosend[c])
    BY <1>4, TookMoves, Zenon DEF Cat
<1>7. PICK n \in 0..MaxBody : InHeader(c, n) \/ InBody(c, n)
    BY TookRequest
<1>8. n \in Nat /\ n <= MaxBody
    BY Numbers
<1> DEFINE g == Len(got)
           k == nleft[c]
           x == Len(rpcmsg[c])
           y == Len(in[c])
<1>9. g \in Nat /\ g > 0 /\ g <= k /\ g # k /\ k \in Nat /\ x \in Nat /\ y \in Nat /\ l = k - g
    BY <1>4, Lens, LenProperties DEF Took
<1>10. k \in 0..Hdr + MaxBody
    BY <1>3 DEF Values
<1> HIDE DEF r, b
<1>11. nleft'[c] = l
    BY <1>1, <1>3 DEF Values
<1> HIDE DEF g, k, x, y, l
<1>12. /\ l \in 0..Hdr + MaxBody /\ l > 0
       /\ \A z \in Nat : (x + k = z => (x + g) + l = z /\ x + g <= z)
                         /\ (y + k = z => (y + g) + l = z /\ y + g <= z)
    BY ONLY <1>9, <1>10, ServerAssumption, Numbers
<1>13. Streams'
  <2>1. rpcmsg' \in [Clients -> Seq(Byte)] /\ in' \in [Clients -> Seq(Byte)]
    BY <1>2, <1>3, <1>5 DEF Streams
  <2>2. ahead' \in [Clients -> Seq(Byte)] /\ inq' \in [Clients -> Seq(Byte)]
    BY DEF Took
  <2> QED BY <1>1, <1>3, <2>1, <2>2, Zenon DEF Streams
<1>14. Values'
  <2>1. nleft' \in [Clients -> 0..Hdr + MaxBody]
    BY <1>1, <1>3, <1>12 DEF Values
  <2> QED BY <1>1, <1>3, <2>1, Zenon DEF Values
<1>15. \A d \in Clients \ {c} : Same(d) /\ (d \in ready' <=> d \in ready)
  <2>1. \A d \in Clients \ {c} : rpcmsg'[d] = rpcmsg[d] /\ in'[d] = in[d]
    BY <1>2, <1>3 DEF Streams
  <2>2. \A d \in Clients \ {c} : nleft'[d] = nleft[d]
    BY <1>1, <1>3 DEF Values
  <2>3. \A d \in Clients \ {c} : ahead'[d] = ahead[d] /\ inq'[d] = inq[d]
    BY Zenon DEF Took
  <2> QED BY <1>1, <2>1, <2>2, <2>3, Zenon DEF Same
<1>16. /\ InHeader(c, n)' \/ InBody(c, n)'
       /\ Len(rpcmsg'[c]) <= Hdr /\ Len(in'[c]) <= MaxBody
       /\ bufPtr'[c] = "rpcmsg" => in'[c] = <<>>
  <2>1. CASE InHeader(c, n)
    <3>1. bufPtr[c] = "rpcmsg" /\ x + k = Hdr
      BY <2>1 DEF InHeader, x, k
    <3>2. rpcmsg'[c] = r /\ in'[c] = in[c]
      BY <1>2, <1>3, <3>1 DEF Streams
    <3>3. (x + g) + l = Hdr /\ x + g <= Hdr
      BY <1>12, <3>1, Numbers
    <3>4. Len(rpcmsg'[c]) + nleft'[c] = Hdr /\ Len(rpcmsg'[c]) <= Hdr
      BY <1>5, <1>11, <3>2, <3>3, Zenon DEF x, g
    <3>5. Stream(rpcmsg[c], c)' = Bytes(<<conn'[c], asked'[c]>>, n)
      BY <1>1, <1>6, <2>1, <3>2, Zenon DEF InHeader, Stream, Row, Cat
    <3>6. InHeader(c, n)'
      BY <1>1, <3>1, <3>4, <3>5, Zenon DEF InHeader
    <3>7. Len(in'[c]) <= MaxBody
      BY <1>3, <3>2 DEF ClientInv
    <3>8. in'[c] = <<>>
      BY <3>1, <3>2, TookRequest
    <3> QED BY <3>4, <3>6, <3>7, <3>8
  <2>2. CASE InBody(c, n)
    <3>1. bufPtr[c] = "in" /\ y + k = n
      BY <2>2 DEF InBody, y, k
    <3>2. rpcmsg'[c] = rpcmsg[c] /\ in'[c] = b
      BY <1>2, <1>3, <3>1 DEF Streams
    <3>3. (y + g) + l = n /\ y + g <= n
      BY <1>8, <1>12, <3>1
    <3>4. Len(in'[c]) + nleft'[c] = n /\ Len(in'[c]) <= n
      BY <1>5, <1>11, <3>2, <3>3, Zenon DEF y, g
    <3>5. Stream(in[c], c)' = Body(<<conn'[c], asked'[c]>>, n)
      BY <1>1, <1>6, <2>2, <3>2, Zenon DEF InBody, Stream, Row, Cat
    <3>6. InBody(c, n)'
      BY <1>1, <2>2, <3>1, <3>2, <3>4, <3>5, Zenon DEF InBody
    <3>7. Len(rpcmsg'[c]) <= Hdr
      BY <1>3, <3>2 DEF ClientInv
    <3>8. Len(in'[c]) <= MaxBody
      <4>1. Len(in'[c]) \in Nat
        BY <1>5, <3>2, LenProperties
      <4> QED BY <1>8, <3>4, <4>1, Numbers
    <3> QED BY <1>1, <3>1, <3>6, <3>7, <3>8
  <2> QED BY <1>7, <2>1, <2>2
<1>17. ClientInv(c)'
  <2>1. Receiving(c)'
    <3>1. asked'[c] = Len(done'[c]) + 1
      BY <1>1, TookRequest
    <3>2. nleft'[c] > 0
      BY <1>11, <1>12
    <3> QED BY <1>16, <3>1, <3>2, Zenon DEF Receiving
  <2>2. Counted(c)'
    <3>1. Expected(c)' = Expected(c)
      BY <1>1, Zenon DEF Expected
    <3>2. Counted(c)
      BY <1>3, <1>4 DEF ClientInv, Open
    <3> QED BY <1>1, <1>4, <3>1, <3>2 DEF Counted
  <2>3. Executed(c)'
    <3>1. Executed(c)
      BY <1>3 DEF ClientInv
    <3> QED BY <1>1, <3>1, Zenon DEF Executed
  <2>4. Len(ahead'[c]) <= bufsize' /\ Len(inq'[c]) <= Hdr + MaxBody
    <3>1. /\ Len(ahead'[c]) <= bufsize /\ Len(inq'[c]) <= Len(inq[c])
          /\ inq'[c] \in Seq(Byte) /\ inq[c] \in Seq(Byte)
      BY <1>3 DEF Took, Streams
    <3>2. Len(inq[c]) <= Hdr + MaxBody
      BY <1>3 DEF ClientInv
    <3>3. Len(inq'[c]) \in Nat /\ Len(inq[c]) \in Nat
      BY <3>1, LenProperties
    <3> QED BY <1>1, <3>1, <3>2, <3>3, Numbers
  <2>5. state'[c] = "RecvData" /\ c \in ready' /\ up'[c] = up[c] /\ outq'[c] = outq[c]
    BY <1>1, <1>4
  <2> QED BY <1>3, <1>4, <1>16, <2>1, <2>2, <2>3, <2>4, <2>5 DEF ClientInv, Open
<1> QED BY <1>1, <1>13, <1>14, <1>15, <1>17, OneClient

\* The header of a request with a body.
LEMMA InvWants ==
    ASSUME ServerAssumption, ServerInv, NEW c \in Clients, NEW got, Took(c, got),
           Received(c, got), NEW n \in 0..MaxBody, WantsBody(c, n)
    PROVE  ServerInv'
<1> DEFINE q == <<conn[c], asked[c]>>
           h == Header(q, n)
<1>1. /\ ready' = ready /\ nleft' = [nleft EXCEPT ![c] = n]
      /\ rpcmsg' = [rpcmsg EXCEPT ![c] = h] /\ in' = [in EXCEPT ![c] = <<>>]
      /\ len' = [len EXCEPT ![c] = 0] /\ bufPtr' = [bufPtr EXCEPT ![c] = "in"]
      /\ UNCHANGED <<bufsize, trigger, running, tosend, asked, heard, conn, up, outq, nlost,
                     state, iov, done>>
      /\ Row(<<>>, ahead'[c], inq'[c], tosend[c]) = Body(q, n) /\ n # 0
    BY ReceivedFrame DEF WantsBody
<1>2. Streams /\ Values /\ ClientInv(c)
    BY DEF ServerInv
<1>3. n \in Nat /\ n > 0 /\ n <= MaxBody /\ q \in Nat \X Nat
  <2>1. n # 0
    BY <1>1
  <2>2. n \in Nat /\ n > 0 /\ n <= MaxBody
    BY ONLY <2>1, n \in 0..MaxBody, ServerAssumption, Numbers
  <2> QED BY <2>2, Lens, Zenon
<1> HIDE DEF q
<1>4. h \in Seq(Byte) /\ Len(h) = Hdr /\ <<>> \in Seq(Byte) /\ Len(<<>>) = 0
  <2>1. Header(q, n) \in Seq(Byte) /\ Len(Header(q, n)) = Hdr
    BY ONLY <1>3, ServerAssumption, HeaderIs
  <2> QED BY <2>1
<1> HIDE DEF h
<1>5. state[c] = "RecvData" /\ c \in ready
    BY DEF Took
<1>6. Streams'
  <2>1. rpcmsg' \in [Clients -> Seq(Byte)] /\ in' \in [Clients -> Seq(Byte)]
    BY <1>1, <1>2, <1>4 DEF Streams
  <2>2. ahead' \in [Clients -> Seq(Byte)] /\ inq' \in [Clients -> Seq(Byte)]
    BY DEF Took
  <2> QED BY <1>1, <1>2, <2>1, <2>2, Zenon DEF Streams
<1>7. Values'
  <2>1. n \in 0..Hdr + MaxBody /\ 0 \in 0..MaxBody
    BY <1>3, Numbers
  <2>2. nleft' \in [Clients -> 0..Hdr + MaxBody] /\ len' \in [Clients -> 0..MaxBody]
    BY <1>1, <1>2, <2>1 DEF Values
  <2>3. bufPtr' \in [Clients -> {"rpcmsg", "in"}]
    BY <1>1, <1>2 DEF Values
  <2> QED BY <1>1, <1>2, <2>2, <2>3, Zenon DEF Values
<1>8. \A d \in Clients \ {c} : Same(d) /\ (d \in ready' <=> d \in ready)
  <2>1. \A d \in Clients \ {c} : rpcmsg'[d] = rpcmsg[d] /\ in'[d] = in[d]
    BY <1>1, <1>2 DEF Streams
  <2>2. \A d \in Clients \ {c} : /\ nleft'[d] = nleft[d] /\ len'[d] = len[d]
                                 /\ bufPtr'[d] = bufPtr[d]
    BY <1>1, <1>2 DEF Values
  <2>3. \A d \in Clients \ {c} : ahead'[d] = ahead[d] /\ inq'[d] = inq[d]
    BY Zenon DEF Took
  <2> QED BY <1>1, <2>1, <2>2, <2>3, Zenon DEF Same
<1>9. /\ nleft'[c] = n /\ len'[c] = 0 /\ bufPtr'[c] = "in" /\ rpcmsg'[c] = h
      /\ in'[c] = <<>>
    BY <1>1, <1>2 DEF Streams, Values
<1>10. ClientInv(c)'
  <2>1. InBody(c, n)'
    <3>1. Stream(in[c], c)' = Body(<<conn'[c], asked'[c]>>, n)
      BY <1>1, <1>9, Zenon DEF Stream, Row, Cat, q
    <3>2. Len(in'[c]) + nleft'[c] = n
      BY <1>3, <1>4, <1>9
    <3>3. rpcmsg'[c] = Header(<<conn'[c], asked'[c]>>, n)
      BY <1>1, <1>9, Zenon DEF q, h
    <3> QED BY <1>9, <3>1, <3>2, <3>3, Zenon DEF InBody
  <2>2. Receiving(c)'
    <3>1. asked'[c] = Len(done'[c]) + 1
      BY <1>1, TookRequest
    <3> QED BY <1>3, <1>9, <2>1, <3>1 DEF Receiving
  <2>3. Counted(c)'
    <3>1. Expected(c)' = Expected(c)
      BY <1>1, Zenon DEF Expected
    <3>2. Counted(c)
      BY <1>2, <1>5 DEF ClientInv, Open
    <3> QED BY <1>1, <1>5, <3>1, <3>2 DEF Counted
  <2>4. Executed(c)'
    <3>1. Executed(c)
      BY <1>2 DEF ClientInv
    <3> QED BY <1>1, <3>1, Zenon DEF Executed
  <2>5. Len(ahead'[c]) <= bufsize' /\ Len(inq'[c]) <= Hdr + MaxBody
    <3>1. /\ Len(ahead'[c]) <= bufsize /\ Len(inq'[c]) <= Len(inq[c])
          /\ inq'[c] \in Seq(Byte) /\ inq[c] \in Seq(Byte)
      BY <1>2 DEF Took, Streams
    <3>2. Len(inq[c]) <= Hdr + MaxBody
      BY <1>2 DEF ClientInv
    <3>3. Len(inq'[c]) \in Nat /\ Len(inq[c]) \in Nat
      BY <3>1, LenProperties
    <3> QED BY <1>1, <3>1, <3>2, <3>3, Numbers
  <2>6. Len(rpcmsg'[c]) <= Hdr /\ Len(in'[c]) <= MaxBody
    BY <1>4, <1>9, Numbers
  <2>7. state'[c] = "RecvData" /\ c \in ready' /\ up'[c] = up[c] /\ outq'[c] = outq[c]
    BY <1>1, <1>5
  <2> QED BY <1>2, <1>5, <2>2, <2>3, <2>4, <2>5, <2>6, <2>7 DEF ClientInv, Open
<1> QED BY <1>1, <1>6, <1>7, <1>8, <1>10, OneClient

\* The reply of a request that is executed.
LEMMA ExecuteReply ==
    ASSUME ServerAssumption, ServerInv, NEW c \in Clients, NEW n \in 0..MaxBody,
           NEW m \in 0..MaxBody, Executes(c, n, m), asked[c] = Len(done[c]) + 1
    PROVE  LET q == <<conn[c], asked[c]>>
               d == [req |-> Header(q, n), body |-> Body(q, n), reply |-> m]
               e == Append(done[c], d)
           IN  /\ q \in Nat \X Nat /\ d \in Served /\ e \in Seq(Served)
               /\ Header(q, m) \in Seq(Byte) /\ Len(Header(q, m)) = Hdr
               /\ Body(q, n) \in Seq(Byte) /\ Len(Body(q, n)) = n
               /\ <<Header(q, m), Body(q, m)>> \in Seq(Seq(Byte))
               /\ Join(<<Header(q, m), Body(q, m)>>) = Bytes(q, m)
               /\ Len(Bytes(q, m)) = Hdr + m /\ Bytes(q, m) \in Seq(Byte)
               /\ Sent(conn[c], e) = Expected(c) \o Bytes(q, m)
               /\ Len(Sent(conn[c], e)) = Len(Expected(c)) + (Hdr + m)
<1> DEFINE q == <<conn[c], asked[c]>>
           d == [req |-> Header(q, n), body |-> Body(q, n), reply |-> m]
           e == Append(done[c], d)
<1>1. n \in Nat /\ m \in Nat /\ q \in Nat \X Nat /\ conn[c] \in Nat
    BY Lens, Numbers, SMTT(30)
<1>2. done[c] \in Seq(Served)
    BY DEF ServerInv, Streams
<1>3. Expected(c) = Sent(conn[c], done[c]) /\ <<conn[c], Len(done[c]) + 1>> = q
    BY ExpectedIs
<1> HIDE DEF q
<1>4. /\ Header(q, n) \in Seq(Byte) /\ Header(q, m) \in Seq(Byte)
      /\ Len(Header(q, m)) = Hdr /\ Body(q, m) \in Seq(Byte)
      /\ Body(q, n) \in Seq(Byte) /\ Len(Body(q, n)) = n
    BY <1>1, HeaderIs, BodyIs
<1>5. /\ Bytes(q, m) \in Seq(Byte) /\ Len(Bytes(q, m)) = Hdr + m
      /\ Bytes(q, m) = Header(q, m) \o Body(q, m)
    BY <1>1, BytesIs
<1>6. Join(<<Header(q, m), Body(q, m)>>) = Bytes(q, m)
    BY <1>4, <1>5, JoinTwo
<1>7. <<Header(q, m), Body(q, m)>> \in Seq(Seq(Byte))
    BY <1>4
<1>8. d \in Served /\ d.reply = m
    BY <1>4 DEF Served
<1> HIDE DEF d
<1>9. e \in Seq(Served)
    BY <1>2, <1>8, AppendProperties
<1>10. /\ Sent(conn[c], e) = Sent(conn[c], done[c]) \o Bytes(<<conn[c], Len(done[c]) + 1>>, m)
       /\ Len(Sent(conn[c], e)) = Len(Sent(conn[c], done[c])) + (Hdr + m)
  <2>1. /\ Sent(conn[c], e)
              = Sent(conn[c], done[c]) \o Bytes(<<conn[c], Len(done[c]) + 1>>, d.reply)
        /\ Len(Sent(conn[c], e)) = Len(Sent(conn[c], done[c])) + (Hdr + d.reply)
    BY <1>1, <1>2, <1>8, SentNext, Zenon
  <2> QED BY <1>8, <2>1, Zenon
<1> HIDE DEF e
<1>11. /\ Sent(conn[c], e) = Expected(c) \o Bytes(q, m)
       /\ Len(Sent(conn[c], e)) = Len(Expected(c)) + (Hdr + m)
    BY <1>3, <1>10, Zenon
<1> QED BY <1>1, <1>4, <1>5, <1>6, <1>7, <1>8, <1>9, <1>11, Zenon DEF q, d, e

LEMMA InvExecutes ==
    ASSUME ServerAssumption, ServerInv, NEW c \in Clients, NEW got, Took(c, got),
           Received(c, got), NEW n \in 0..MaxBody, NEW m \in 0..MaxBody, Executes(c, n, m)
    PROVE  ServerInv'
<1> DEFINE q == <<conn[c], asked[c]>>
           h == Header(q, m)
           b == Body(q, n)
           v == <<Header(q, m), Body(q, m)>>
           d == [req |-> Header(q, n), body |-> Body(q, n), reply |-> m]
           e == Append(done[c], d)
<1>1. /\ ready' = ready /\ nleft' = [nleft EXCEPT ![c] = Len(Join(v))]
      /\ iov' = [iov EXCEPT ![c] = v] /\ state' = [state EXCEPT ![c] = "SendData"]
      /\ rpcmsg' = [rpcmsg EXCEPT ![c] = h] /\ in' = [in EXCEPT ![c] = b]
      /\ len' = [len EXCEPT ![c] = m] /\ done' = [done EXCEPT ![c] = e]
      /\ UNCHANGED <<bufsize, trigger, running, tosend, asked, heard, conn, up, outq, nlost,
                     bufPtr>>
      /\ ahead'[c] = <<>> /\ inq'[c] = <<>> /\ tosend[c] = <<>>
    BY ReceivedFrame DEF Executes, SendVec
<1>2. Streams /\ Values /\ ClientInv(c)
    BY DEF ServerInv
<1>3. asked[c] = Len(done[c]) + 1
    BY TookRequest
<1>4. /\ e \in Seq(Served) /\ h \in Seq(Byte) /\ Len(h) = Hdr
      /\ b \in Seq(Byte) /\ Len(b) = n /\ v \in Seq(Seq(Byte))
      /\ Len(Join(v)) = Hdr + m
      /\ Len(Sent(conn[c], e)) = Len(Expected(c)) + (Hdr + m)
  <2>1. e \in Seq(Served) /\ Len(Sent(conn[c], e)) = Len(Expected(c)) + (Hdr + m)
    BY <1>3, ExecuteReply, ZenonT(40)
  <2>2. Join(v) = Bytes(q, m) /\ Len(Bytes(q, m)) = Hdr + m
    BY <1>3, ExecuteReply, ZenonT(40)
  <2>3. h \in Seq(Byte) /\ Len(h) = Hdr
    <3>1. m \in Nat /\ q \in Nat \X Nat
      BY Lens, Numbers
    <3> HIDE DEF q
    <3> QED BY ONLY <3>1, ServerAssumption, HeaderIs DEF h
  <2>4. v \in Seq(Seq(Byte))
    BY <1>3, ExecuteReply, Zenon
  <2>5. b \in Seq(Byte) /\ Len(b) = n
    BY <1>3, ExecuteReply, Zenon
  <2> HIDE DEF q, h, b, v, d, e
  <2> QED BY <2>1, <2>2, <2>3, <2>4, <2>5, Zenon
<1>5. Len(v) = 2
    OBVIOUS
<1>6. /\ Len(e) = Len(done[c]) + 1 /\ e[Len(done[c]) + 1] = d
      /\ \A i \in 1..Len(done[c]) : e[i] = done[c][i]
  <2>1. done[c] \in Seq(Served) /\ d \in Served
    BY <1>2, <1>3, ExecuteReply, Zenon DEF Streams
  <2> HIDE DEF d
  <2> QED BY <2>1, AppendProperties
<1>7. d.req = Header(q, n) /\ d.body = Body(q, n)
    OBVIOUS
<1> HIDE DEF q, h, b, v, d, e
<1>8. state[c] = "RecvData" /\ c \in ready
    BY DEF Took
<1>9. Streams'
  <2>1. rpcmsg' \in [Clients -> Seq(Byte)] /\ in' \in [Clients -> Seq(Byte)]
    BY <1>1, <1>2, <1>4 DEF Streams
  <2>2. ahead' \in [Clients -> Seq(Byte)] /\ inq' \in [Clients -> Seq(Byte)]
    BY DEF Took
  <2>3. iov' \in [Clients -> Seq(Seq(Byte))]
    BY <1>1, <1>2, <1>4 DEF Streams
  <2>4. done' \in [Clients -> Seq(Served)]
    BY <1>1, <1>2, <1>4 DEF Streams
  <2> QED BY <1>1, <1>2, <2>1, <2>2, <2>3, <2>4, Zenon DEF Streams
<1>10. Hdr + m \in 0..Hdr + MaxBody /\ Hdr + m > 0 /\ n <= MaxBody
    BY Numbers
<1>11. Values'
  <2>1. nleft' \in [Clients -> 0..Hdr + MaxBody] /\ len' \in [Clients -> 0..MaxBody]
    BY <1>1, <1>2, <1>4, <1>10 DEF Values
  <2>2. state' \in [Clients -> {"Retry", "Connecting", "RecvData", "SendData"}]
    BY <1>1, <1>2 DEF Values
  <2> QED BY <1>1, <1>2, <2>1, <2>2, Zenon DEF Values
<1>12. \A x \in Clients \ {c} : Same(x) /\ (x \in ready' <=> x \in ready)
  <2>1. \A x \in Clients \ {c} : /\ rpcmsg'[x] = rpcmsg[x] /\ in'[x] = in[x]
                                 /\ iov'[x] = iov[x] /\ done'[x] = done[x]
    BY <1>1, <1>2 DEF Streams
  <2>2. \A x \in Clients \ {c} : /\ nleft'[x] = nleft[x] /\ len'[x] = len[x]
                                 /\ state'[x] = state[x]
    BY <1>1, <1>2 DEF Values
  <2>3. \A x \in Clients \ {c} : ahead'[x] = ahead[x] /\ inq'[x] = inq[x]
    BY Zenon DEF Took
  <2> QED BY <1>1, <2>1, <2>2, <2>3, Zenon DEF Same
<1>13. /\ nleft'[c] = Hdr + m /\ state'[c] = "SendData" /\ rpcmsg'[c] = h /\ in'[c] = b
       /\ iov'[c] = v /\ done'[c] = e
    BY <1>1, <1>2, <1>4 DEF Streams, Values
<1>14. ClientInv(c)'
  <2>1. Sending(c)'
    <3>1. asked'[c] = Len(done'[c])
      BY <1>1, <1>3, <1>6, <1>13
    <3>2. NoRequest(c)'
      BY <1>1, <3>1 DEF NoRequest
    <3>3. nleft'[c] > 0 /\ Len(iov'[c]) \in {1, 2}
      BY <1>5, <1>10, <1>13
    <3>4. Len(Join(iov'[c])) <= nleft'[c]
      <4>1. Len(Join(iov'[c])) = Hdr + m
        BY <1>4, <1>13
      <4> QED BY <1>13, <4>1, Numbers
    <3> QED BY <3>2, <3>3, <3>4, Zenon DEF Sending
  <2>2. Counted(c)'
    <3> DEFINE g == Len(heard[c])
               o == Len(outq[c])
               s == Len(Expected(c))
               s2 == Len(Expected(c)')
    <3>1. g + o + 0 = s
      BY <1>2, <1>8 DEF ClientInv, Open, Counted
    <3>2. g \in Nat /\ o \in Nat /\ s \in Nat
      BY Lens
    <3>3. s2 = s + (Hdr + m)
      <4>1. Expected(c)' = Sent(conn[c], e)
        <5>1. conn'[c] = conn[c] /\ done'[c] = e
          BY <1>1, <1>13
        <5> QED BY ONLY <5>1, Zenon DEF Expected, Sent, Replies
      <4> QED BY <1>4, <4>1, Zenon
    <3> HIDE DEF g, o, s, s2
    <3>4. g + o + (Hdr + m) = s2
      BY ONLY <3>1, <3>2, <3>3, m \in 0..MaxBody, ServerAssumption, Numbers
    <3>5. heard'[c] = heard[c] /\ outq'[c] = outq[c]
      BY <1>1
    <3> QED BY <1>13, <3>4, <3>5, Zenon DEF Counted, g, o, s2
  <2>3. Executed(c)'
    <3>1. ASSUME NEW i \in 1..Len(done[c]) + 1
          PROVE  \E k \in 0..MaxBody : /\ e[i].req = Header(<<conn[c], i>>, k)
                                       /\ e[i].body = Body(<<conn[c], i>>, k)
      <4>1. CASE i = Len(done[c]) + 1
        <5>1. e[i] = d /\ <<conn[c], i>> = q
          BY <1>3, <1>6, <4>1, Zenon DEF q
        <5> QED BY <1>7, <5>1, Zenon
      <4>2. CASE i # Len(done[c]) + 1
        <5>1. i \in 1..Len(done[c])
          BY <4>2, Lens
        <5>2. e[i] = done[c][i]
          BY <1>6, <5>1
        <5>3. Executed(c)
          BY <1>2 DEF ClientInv
        <5> QED BY <5>1, <5>2, <5>3, Zenon DEF Executed
      <4> QED BY <4>1, <4>2
    <3>2. done'[c] = e /\ Len(e) = Len(done[c]) + 1 /\ conn'[c] = conn[c]
      BY <1>1, <1>6, <1>13
    <3> QED BY <3>1, <3>2, Zenon DEF Executed
  <2>4. Len(ahead'[c]) <= bufsize' /\ Len(inq'[c]) <= Hdr + MaxBody
    <3>1. Len(ahead'[c]) = 0 /\ Len(inq'[c]) = 0
      BY <1>1
    <3>2. bufsize' \in Nat
      BY <1>1, <1>2 DEF Streams
    <3> QED BY <3>1, <3>2, Numbers
  <2>5. Len(rpcmsg'[c]) <= Hdr /\ Len(in'[c]) <= MaxBody
    BY <1>4, <1>10, <1>13, Numbers
  <2>6. c \in ready' /\ up'[c] = up[c] /\ outq'[c] = outq[c]
    BY <1>1, <1>8
  <2> QED BY <1>2, <1>8, <1>13, <2>1, <2>2, <2>3, <2>4, <2>5, <2>6 DEF ClientInv, Open
<1> QED BY <1>1, <1>9, <1>11, <1>12, <1>14, OneClient

LEMMA InvReceived ==
    ASSUME ServerAssumption, ServerInv, NEW c \in Clients, NEW got, Took(c, got),
           Received(c, got)
    PROVE  ServerInv'
<1>1. CASE Len(got) # nleft[c]
    BY <1>1, InvPart
<1>2. CASE Len(got) = nleft[c]
  <2>1. RpsRecv(c, got)
    BY <1>2, Zenon DEF Received
  <2>2. tosend' = tosend
    BY ReceivedFrame
  <2>3. PICK n \in 0..MaxBody :
            WantsBody(c, n) \/ \E m \in 0..MaxBody : Executes(c, n, m)
    BY <1>2, <2>1, <2>2, Completed
  <2>4. CASE WantsBody(c, n)
    BY <2>4, InvWants
  <2>5. ASSUME NEW m \in 0..MaxBody, Executes(c, n, m) PROVE ServerInv'
    BY <2>5, InvExecutes
  <2> QED BY <2>3, <2>4, <2>5
<1> QED BY <1>1, <1>2

-----------------------------------------------------------------------------
(* The invariant of the server.                                            *)

LEMMA InvHandle ==
    ASSUME ServerAssumption, ServerInv, NEW c \in Clients, Handle(c)
    PROVE  ServerInv'
<1>1. CASE Connected(c)
    BY <1>1, InvConnected
<1>2. CASE ConnectFailed(c)
    BY <1>2, InvConnectFailed
<1>3. CASE RecvDirect(c)
    BY <1>3, TookDirect, InvReceived
<1>4. CASE RecvAhead(c)
    BY <1>4, TookAhead, InvReceived
<1>5. CASE RecvNone(c)
    BY <1>5, InvRecvNone
<1>6. ASSUME NEW n \in 1..Room, Send(c, n) PROVE ServerInv'
  <2>1. n \in Nat
    BY Numbers
  <2> QED BY <1>6, <2>1, InvSend
<1>7. CASE SendNone(c)
    BY <1>7, InvSendNone
<1> QED BY <1>1, <1>2, <1>3, <1>4, <1>5, <1>6, <1>7 DEF Handle

LEMMA InvPeer ==
    ASSUME ServerAssumption, ServerInv, NEW c \in Clients, Peer(c)
    PROVE  ServerInv'
<1>1. CASE Accept(c)
    BY <1>1, InvAccept
<1>2. CASE Hear(c)
    BY <1>2, InvHear
<1>3. ASSUME NEW n \in 1..Hdr + MaxBody, Arrive(c, n) PROVE ServerInv'
  <2>1. n \in Nat
    BY Numbers
  <2> QED BY <1>3, <2>1, InvArrive
<1> QED BY <1>1, <1>2, <1>3 DEF Peer

LEMMA InvStep ==
    ASSUME ServerAssumption, ServerInv, [Next]_vars PROVE ServerInv'
<1>1. ASSUME NEW C \in SUBSET Clients, Retry(C) PROVE ServerInv'
    BY <1>1, InvRetry
<1>2. CASE Poll
    BY <1>2, InvPoll
<1>3. CASE Stop
    BY <1>3, InvStop
<1>4. CASE StopServers
    BY <1>4, InvStopServers
<1>5. ASSUME NEW c \in Clients, Handle(c) PROVE ServerInv'
    BY <1>5, InvHandle
<1>6. ASSUME NEW c \in Clients, Peer(c) PROVE ServerInv'
    BY <1>6, InvPeer
<1>7. ASSUME NEW c \in Clients, Close(c) PROVE ServerInv'
    BY <1>7, InvClose
<1>8. ASSUME NEW c \in Clients, NEW n \in 0..MaxBody, Ask(c, n) PROVE ServerInv'
    BY <1>8, InvAsk
<1>9. CASE UNCHANGED vars
    BY <1>9, InvUnchanged
<1> QED BY <1>1, <1>2, <1>3, <1>4, <1>5, <1>6, <1>7, <1>8, <1>9, Zenon DEF Next

LEMMA ServerInvariant == Spec => []ServerInv
<1>1. Init => ServerInv
    BY InvInit, ServerAssumption
<1>2. ServerInv /\ [Next]_vars => ServerInv'
    BY InvStep, ServerAssumption
<1> QED BY <1>1, <1>2, PTL DEF Spec

\* The states and counters of the Client structs and of CData have their
\* types, the buffers of Callback and RpsProc (the header, the request, the
\* read-ahead buffer of bufsize bytes) never hold more than their size, and
\* only a client on the retry list has no socket.
THEOREM ServerTypeCorrect == Spec => []TypeOK
<1>1. ServerInv => TypeOK
  <2> SUFFICES ASSUME ServerInv PROVE TypeOK
    OBVIOUS
  <2>1. Values /\ \A c \in Clients : ClientInv(c)
    BY DEF ServerInv
  <2>2. ASSUME NEW c \in Clients
        PROVE  /\ Len(rpcmsg[c]) <= Hdr /\ Len(in[c]) <= MaxBody
               /\ Len(ahead[c]) <= bufsize
               /\ Len(inq[c]) <= Hdr + MaxBody /\ Len(outq[c]) <= Room
               /\ state[c] = "Retry" <=> up[c] = "no"
               /\ c \in ready => state[c] # "Retry"
    BY <2>1, Zenon DEF ClientInv
  <2> QED BY <2>1, <2>2, Zenon DEF TypeOK, Values
<1> QED BY <1>1, ServerInvariant, PTL

\* Whatever part of a request each recv of Callback gets, through the
\* read-ahead buffer or not, RpsProc executes over a connection what the
\* client asked, in its order and once each, with the bytes of its own body.
THEOREM OnlyAsked == Spec => []ExecutesAsked
<1>1. ServerInv => ExecutesAsked
  <2> SUFFICES ASSUME ServerInv, NEW c \in Clients
               PROVE  /\ Len(done[c]) \in {asked[c], asked[c] - 1}
                      /\ \A i \in 1..Len(done[c]) :
                            LET d == done[c][i]  n == d.req[1][2] IN
                            /\ d.req = Header(<<conn[c], i>>, n)
                            /\ d.body = Body(<<conn[c], i>>, n)
    BY Zenon DEF ExecutesAsked
  <2>1. Values /\ ClientInv(c)
    BY DEF ServerInv
  <2>2. asked[c] = Len(done[c]) \/ asked[c] = Len(done[c]) + 1
    <3>1. CASE state[c] \notin Open
      <4>1. done[c] = <<>> /\ asked[c] = 0
        BY <2>1, <3>1 DEF ClientInv, Fresh
      <4> QED BY <4>1
    <3>2. CASE state[c] = "RecvData"
      BY <2>1, <3>2 DEF ClientInv, Receiving, NoRequest
    <3>3. CASE state[c] = "SendData"
      BY <2>1, <3>3 DEF ClientInv, Sending, NoRequest
    <3> QED BY <3>1, <3>2, <3>3 DEF Open
  <2>3. Len(done[c]) \in {asked[c], asked[c] - 1}
    <3>1. Len(done[c]) \in Nat /\ asked[c] \in Nat
      BY ServerAssumption, Lens
    <3> QED BY <2>2, <3>1
  <2>4. ASSUME NEW i \in 1..Len(done[c])
        PROVE  LET d == done[c][i]  n == d.req[1][2] IN
               /\ d.req = Header(<<conn[c], i>>, n)
               /\ d.body = Body(<<conn[c], i>>, n)
    <3> DEFINE q == <<conn[c], i>>
    <3>1. PICK n \in 0..MaxBody : /\ done[c][i].req = Header(q, n)
                                  /\ done[c][i].body = Body(q, n)
      BY <2>1, Zenon DEF ClientInv, Executed
    <3>2. n \in Nat /\ q \in Nat \X Nat
      <4>1. n \in Nat /\ i \in Nat
        BY ServerAssumption, Numbers, Lens
      <4>2. conn[c] \in Nat
        BY ServerAssumption, Lens
      <4> QED BY <4>1, <4>2
    <3> HIDE DEF q
    <3>3. Header(q, n)[1] = <<q, n, 1>>
      BY ONLY <3>2, ServerAssumption, HeaderIs
    <3>4. Header(q, n)[1][2] = n
      BY <3>3
    <3> QED BY <3>1, <3>4, Zenon DEF q
  <2> QED BY <2>3, <2>4, Zenon
<1> QED BY <1>1, ServerInvariant, PTL

\* While there are bytes in the read-ahead buffer the loop of DciServer stays
\* with the client: it never goes back to poll, which would not see them.
THEOREM NothingStranded == Spec => []NotStranded
<1>1. ServerInv => NotStranded
    BY Zenon DEF ServerInv, ClientInv, NotStranded
<1> QED BY <1>1, ServerInvariant, PTL

-----------------------------------------------------------------------------
(* The replies, when a send that is cut takes a whole header.              *)

\* What Whole says of a client does not change.
Alike(c) ==
    /\ state'[c] = state[c] /\ heard'[c] = heard[c] /\ outq'[c] = outq[c]
    /\ iov'[c] = iov[c] /\ nleft'[c] = nleft[c] /\ conn'[c] = conn[c] /\ done'[c] = done[c]

LEMMA AlikeWhole ==
    ASSUME NEW c, Alike(c), Whole(c) PROVE Whole(c)'
<1>1. Expected(c)' = Expected(c)
    BY Zenon DEF Alike, Expected
<1> QED BY <1>1, Zenon DEF Alike, Whole

LEMMA WholeAll ==
    ASSUME WholeInv, UNCHANGED <<state, heard, outq, iov, nleft, conn, done>>
    PROVE  WholeInv'
<1>1. ASSUME NEW c \in Clients PROVE Whole(c)'
  <2>1. Alike(c) /\ Whole(c)
    BY DEF Alike, WholeInv
  <2> QED BY <2>1, AlikeWhole
<1> QED BY <1>1 DEF WholeInv

LEMMA WholeOne ==
    ASSUME WholeInv, NEW c \in Clients, Whole(c)', \A d \in Clients \ {c} : Alike(d)
    PROVE  WholeInv'
<1>1. ASSUME NEW d \in Clients, d # c PROVE Whole(d)'
  <2>1. Alike(d) /\ Whole(d)
    BY <1>1 DEF WholeInv
  <2> QED BY <2>1, AlikeWhole
<1> QED BY <1>1 DEF WholeInv

LEMMA WholeDrop ==
    ASSUME ServerInv, WholeInv, NEW c \in Clients, DropClient(c)
    PROVE  WholeInv'
<1>1. Streams /\ Values
    BY DEF ServerInv
<1>2. /\ state' = [state EXCEPT ![c] = "Retry"] /\ outq' = [outq EXCEPT ![c] = <<>>]
      /\ heard' = [heard EXCEPT ![c] = <<>>] /\ done' = [done EXCEPT ![c] = <<>>]
      /\ UNCHANGED <<nleft, iov, conn>>
    BY DEF DropClient, OnRetry
<1>3. state'[c] = "Retry"
    BY <1>1, <1>2 DEF Values
<1>4. \A d \in Clients \ {c} : Alike(d)
    BY <1>1, <1>2 DEF Alike, Streams, Values
<1>5. Whole(c)'
    BY <1>3 DEF Whole
<1> QED BY <1>4, <1>5, WholeOne

LEMMA WholeConnected ==
    ASSUME ServerAssumption, ServerInv, WholeInv, NEW c \in Clients, Connected(c)
    PROVE  WholeInv'
<1> DEFINE h == Handshake(conn[c])
<1>1. Streams /\ Values /\ Fresh(c)
    BY DEF ServerInv, ClientInv, Connected, Open
<1>2. /\ state' = [state EXCEPT ![c] = "SendData"] /\ iov' = [iov EXCEPT ![c] = <<h>>]
      /\ nleft' = [nleft EXCEPT ![c] = Len(Join(<<h>>))]
      /\ UNCHANGED <<heard, outq, conn, done>>
    BY DEF Connected, SendVec, peerVars
<1>3. h \in Seq(Byte) /\ Sent(conn[c], <<>>) = h
    BY Lens, HandshakeIs, SentFirst
<1> HIDE DEF h
<1>4. Join(<<h>>) = h /\ Len(<<h>>) = 1
    BY <1>3, JoinOne
<1>5. \A d \in Clients \ {c} : Alike(d)
    BY <1>1, <1>2 DEF Alike, Streams, Values
<1>6. state'[c] = "SendData" /\ iov'[c] = <<h>> /\ nleft'[c] = Len(Join(<<h>>))
    BY <1>1, <1>2 DEF Streams, Values
<1>7. heard'[c] = <<>> /\ outq'[c] = <<>> /\ done'[c] = <<>> /\ conn'[c] = conn[c]
    BY <1>1, <1>2 DEF Fresh
<1>8. Expected(c)' = h
    BY ONLY <1>3, <1>7, Zenon DEF Expected, Sent, Replies
<1>9. (<<>> \o <<>>) \o h = h
  <2>1. <<>> \o <<>> = <<>> /\ <<>> \o h = h
    <3>1. <<>> \in Seq(Byte)
      OBVIOUS
    <3> QED BY <1>3, <3>1, ConcatEmptySeq
  <2> QED BY <2>1, Zenon
<1>10. Whole(c)'
  <2>1. state'[c] # "RecvData" /\ Len(iov'[c]) # 2
    BY <1>4, <1>6
  <2>2. heard'[c] \o outq'[c] \o Join(iov'[c]) = Expected(c)'
    BY <1>4, <1>6, <1>7, <1>8, <1>9, Zenon
  <2>3. Len(Join(iov'[c])) = nleft'[c]
    BY <1>6, Zenon
  <2> QED BY <2>1, <2>2, <2>3, Zenon DEF Whole
<1> QED BY <1>5, <1>10, WholeOne

LEMMA WholeHear ==
    ASSUME ServerInv, WholeInv, NEW c \in Clients, Hear(c)
    PROVE  WholeInv'
<1>1. Streams /\ Values /\ Whole(c)
    BY DEF ServerInv, WholeInv
<1>2. /\ heard' = [heard EXCEPT ![c] = heard[c] \o outq[c]] /\ outq' = [outq EXCEPT ![c] = <<>>]
      /\ UNCHANGED <<state, iov, nleft, conn, done>>
    BY DEF Hear, clientVars
<1>3. \A d \in Clients \ {c} : Alike(d)
    BY <1>1, <1>2 DEF Alike, Streams
<1>4. heard'[c] \o outq'[c] = heard[c] \o outq[c]
  <2>1. heard[c] \in Seq(Byte) /\ outq[c] \in Seq(Byte)
    BY <1>1 DEF Streams
  <2>2. heard[c] \o outq[c] \in Seq(Byte)
    BY <2>1, Lengths
  <2>3. (heard[c] \o outq[c]) \o <<>> = heard[c] \o outq[c]
    BY <2>2, ConcatEmptySeq
  <2>4. heard'[c] = heard[c] \o outq[c] /\ outq'[c] = <<>>
    BY <1>1, <1>2 DEF Streams
  <2> QED BY <2>3, <2>4, Zenon
<1>5. Expected(c)' = Expected(c)
    BY <1>2, Zenon DEF Expected
<1>6. Whole(c)'
    BY <1>1, <1>2, <1>4, <1>5, Zenon DEF Whole
<1> QED BY <1>3, <1>6, WholeOne

LEMMA WholeExecutes ==
    ASSUME ServerAssumption, ServerInv, WholeInv, NEW c \in Clients, NEW got, Took(c, got),
           Received(c, got), NEW n \in 0..MaxBody, NEW m \in 0..MaxBody, Executes(c, n, m)
    PROVE  WholeInv'
<1> DEFINE q == <<conn[c], asked[c]>>
           v == <<Header(q, m), Body(q, m)>>
           d == [req |-> Header(q, n), body |-> Body(q, n), reply |-> m]
           e == Append(done[c], d)
<1>1. Streams /\ Values /\ Whole(c) /\ state[c] = "RecvData"
    BY DEF ServerInv, WholeInv, Took
<1>2. /\ nleft' = [nleft EXCEPT ![c] = Len(Join(v))]
      /\ iov' = [iov EXCEPT ![c] = v] /\ state' = [state EXCEPT ![c] = "SendData"]
      /\ done' = [done EXCEPT ![c] = e] /\ UNCHANGED <<heard, outq, conn>>
    BY ReceivedFrame DEF Executes, SendVec
<1>3. asked[c] = Len(done[c]) + 1
    BY TookRequest
<1>4. Join(v) = Bytes(q, m) /\ Sent(conn[c], e) = Expected(c) \o Bytes(q, m)
    BY <1>3, ExecuteReply, ZenonT(40)
<1>5. v[1] = Header(q, m)
    OBVIOUS
<1>6. Len(Header(q, m)) = Hdr
  <2>1. m \in Nat /\ q \in Nat \X Nat
    BY Lens, Numbers
  <2> HIDE DEF q
  <2> QED BY ONLY <2>1, ServerAssumption, HeaderIs
<1> HIDE DEF q, v, d, e
<1>7. \A x \in Clients \ {c} : Alike(x)
    BY <1>1, <1>2 DEF Alike, Streams, Values
<1>8. /\ nleft'[c] = Len(Join(v)) /\ iov'[c] = v /\ state'[c] = "SendData" /\ done'[c] = e
      /\ conn'[c] = conn[c] /\ heard'[c] = heard[c] /\ outq'[c] = outq[c]
    BY <1>1, <1>2 DEF Streams, Values
<1>9. Expected(c)' = Sent(conn[c], e)
    BY ONLY <1>8, Zenon DEF Expected, Sent, Replies
<1>10. heard[c] \o outq[c] = Expected(c)
    BY <1>1 DEF Whole
<1>11. Whole(c)'
  <2>1. heard'[c] \o outq'[c] \o Join(iov'[c]) = Expected(c)'
    BY <1>4, <1>8, <1>9, <1>10, Zenon
  <2>2. Len(iov'[c][1]) = Hdr
    BY <1>5, <1>6, <1>8, Zenon
  <2> QED BY <1>8, <2>1, <2>2 DEF Whole
<1> QED BY <1>7, <1>11, WholeOne

LEMMA WholeReceived ==
    ASSUME ServerAssumption, ServerInv, WholeInv, NEW c \in Clients, NEW got, Took(c, got),
           Received(c, got)
    PROVE  WholeInv'
<1>1. Streams /\ Values /\ Whole(c) /\ state[c] = "RecvData"
    BY DEF ServerInv, WholeInv, Took
<1>2. ASSUME NEW l, nleft' = [nleft EXCEPT ![c] = l], UNCHANGED <<state, iov, done>>
      PROVE  WholeInv'
  <2>1. UNCHANGED <<heard, outq, conn>>
    BY ReceivedFrame
  <2>2. \A d \in Clients \ {c} : Alike(d)
    BY <1>1, <1>2, <2>1 DEF Alike, Values
  <2>3. Expected(c)' = Expected(c)
    BY <1>2, <2>1, Zenon DEF Expected
  <2>4. Whole(c)'
    BY <1>1, <1>2, <2>1, <2>3 DEF Whole
  <2> QED BY <2>2, <2>4, WholeOne
<1>3. CASE Len(got) # nleft[c]
  <2>1. nleft' = [nleft EXCEPT ![c] = nleft[c] - Len(got)] /\ UNCHANGED <<state, iov, done>>
    BY <1>3 DEF Received
  <2> QED BY <1>2, <2>1
<1>4. CASE Len(got) = nleft[c]
  <2>1. RpsRecv(c, got)
    BY <1>4, Zenon DEF Received
  <2>2. tosend' = tosend
    BY ReceivedFrame
  <2>3. PICK n \in 0..MaxBody :
            WantsBody(c, n) \/ \E m \in 0..MaxBody : Executes(c, n, m)
    BY <1>4, <2>1, <2>2, Completed
  <2>4. CASE WantsBody(c, n)
    BY <1>2, <2>4 DEF WantsBody
  <2>5. ASSUME NEW m \in 0..MaxBody, Executes(c, n, m) PROVE WholeInv'
    BY <2>5, WholeExecutes
  <2> QED BY <2>3, <2>4, <2>5
<1> QED BY <1>3, <1>4

\* A send that is cut takes the whole of a buffer that is a header.
LEMMA SendDrops ==
    ASSUME ServerAssumption, MinSend >= Hdr, ServerInv, WholeInv,
           NEW c \in Clients, NEW n \in Nat, Send(c, n)
    PROVE  /\ Join(UpdateIov(iov[c], n)) = Drop(Join(iov[c]), n)
           /\ Len(iov[c]) = 2 => Len(UpdateIov(iov[c], n)[1]) = 0
<1>1. /\ iov[c] \in Seq(Seq(Byte)) /\ Len(iov[c]) \in {1, 2} /\ n <= Len(Join(iov[c]))
      /\ state[c] = "SendData" /\ Whole(c)
    BY SendTakes DEF ServerInv, Streams, WholeInv
<1>2. ASSUME Len(iov[c]) = 2 PROVE n >= Len(iov[c][1])
  <2> DEFINE x == iov[c][1]
             y == iov[c][2]
  <2>1. x \in Seq(Byte) /\ y \in Seq(Byte) /\ iov[c] = <<x, y>>
    <3>1. 1 \in 1..Len(iov[c]) /\ 2 \in 1..Len(iov[c])
      BY <1>2
    <3>2. x \in Seq(Byte) /\ y \in Seq(Byte)
      BY <1>1, <3>1, ElementOfSeq
    <3>3. iov[c] = <<x, y>>
      <4> DEFINE s == iov[c]
                 t == <<x, y>>
      <4>1. /\ s \in Seq(Seq(Byte)) /\ t \in Seq(Seq(Byte)) /\ Len(s) = Len(t)
            /\ \A i \in 1..Len(s) : s[i] = t[i]
        BY <1>1, <1>2, <3>2
      <4> HIDE DEF s, t
      <4>2. s = t
        BY ONLY <4>1, SeqEqual
      <4> QED BY <4>2 DEF s, t
    <3> QED BY <3>2, <3>3
  <2> HIDE DEF x, y
  <2>2. Join(iov[c]) = x \o y
    BY <2>1, JoinTwo
  <2>3. Len(x \o y) = Len(x) + Len(y) /\ Len(x) \in Nat /\ Len(y) \in Nat
    BY <2>1, Lengths, LenProperties
  <2>4. Len(x) \in {0, Hdr}
    BY <1>1, <1>2 DEF Whole, x
  <2>5. n = Len(Join(iov[c])) \/ n >= MinSend
    BY DEF Send
  <2> DEFINE a == Len(x)
             b == Len(y)
             s == Len(Join(iov[c]))
  <2>6. s = a + b /\ a \in Nat /\ b \in Nat /\ a \in {0, Hdr} /\ (n = s \/ n >= MinSend)
    BY <2>2, <2>3, <2>4, <2>5, Zenon
  <2> HIDE DEF a, b, s
  <2>7. n >= a
    BY ONLY <2>6, n \in Nat, MinSend >= Hdr, ServerAssumption, Numbers
  <2> QED BY <2>7 DEF a, x
<1> QED BY <1>1, <1>2, Updated

LEMMA WholeSend ==
    ASSUME ServerAssumption, MinSend >= Hdr, ServerInv, WholeInv,
           NEW c \in Clients, NEW n \in Nat, Send(c, n)
    PROVE  WholeInv'
<1> DEFINE all  == Join(iov[c])
           part == SubSeq(all, 1, n)
           rest == UpdateIov(iov[c], n)
           left == Drop(all, n)
<1>1. /\ outq' = [outq EXCEPT ![c] = outq[c] \o part] /\ iov' = [iov EXCEPT ![c] = rest]
      /\ UNCHANGED <<heard, conn, done>> /\ state[c] = "SendData"
    BY DEF Send, peerVars
<1>2. \/ /\ nleft[c] = n /\ nleft' = [nleft EXCEPT ![c] = Hdr]
         /\ state' = [state EXCEPT ![c] = "RecvData"]
      \/ /\ nleft[c] # n /\ nleft' = [nleft EXCEPT ![c] = nleft[c] - n]
         /\ state' = state
    BY DEF Send, RpsSend
<1>3. Streams /\ Values /\ Whole(c)
    BY DEF ServerInv, WholeInv
<1>4. heard[c] \in Seq(Byte) /\ outq[c] \in Seq(Byte)
    BY <1>3 DEF Streams
<1>5. /\ all \in Seq(Byte) /\ n <= Len(all) /\ Len(rest) = Len(iov[c])
    BY SendTakes
<1>6. Join(rest) = left /\ (Len(rest) = 2 => Len(rest[1]) = 0)
    BY <1>5, SendDrops
<1>7. /\ heard[c] \o outq[c] \o all = Expected(c) /\ Len(all) = nleft[c]
    BY <1>1, <1>3 DEF Whole
<1> HIDE DEF all, rest
<1>8. /\ part \in Seq(Byte) /\ left \in Seq(Byte) /\ Len(left) = Len(all) - n
      /\ part \o left = all
    BY <1>5, Cut
<1> HIDE DEF part, left
<1>9. (heard[c] \o (outq[c] \o part)) \o left = heard[c] \o outq[c] \o all
  <2> DEFINE h == heard[c]
             o == outq[c]
  <2>1. h \in Seq(Byte) /\ o \in Seq(Byte)
    BY <1>4
  <2> HIDE DEF h, o
  <2>2. Cat(h, o) \in Seq(Byte) /\ Cat(o, part) \in Seq(Byte)
    BY ONLY <1>8, <2>1, Groups
  <2>3. Grouped(h, o, part) /\ Grouped(Cat(h, o), part, left)
    BY ONLY <1>8, <2>1, <2>2, Grouping
  <2>4. Cat(part, left) = all
    BY <1>8, Zenon DEF Cat
  <2>5. Cat(Cat(h, Cat(o, part)), left) = Cat(Cat(h, o), all)
    BY <2>3, <2>4, Zenon DEF Grouped
  <2> QED BY <2>5, Zenon DEF Cat, h, o
<1>10. outq'[c] = outq[c] \o part /\ iov'[c] = rest /\ heard'[c] = heard[c]
    BY <1>1, <1>3 DEF Streams
<1>11. Expected(c)' = Expected(c)
    BY <1>1, Zenon DEF Expected
<1>12. heard'[c] \o outq'[c] \o left = Expected(c)'
    BY <1>7, <1>9, <1>10, <1>11, Zenon
<1>13. \A d \in Clients \ {c} : Alike(d)
    BY <1>1, <1>2, <1>3 DEF Alike, Streams, Values
<1>14. Whole(c)'
  <2>1. CASE nleft[c] = n
    <3>1. state'[c] = "RecvData"
      BY <1>2, <1>3, <2>1 DEF Values
    <3>2. left = <<>>
      <4>1. Len(left) = 0
        BY <1>7, <1>8, <2>1
      <4> QED BY <1>8, <4>1, NoLength
    <3>3. heard'[c] \o outq'[c] \in Seq(Byte)
      <4>1. outq[c] \o part \in Seq(Byte)
        BY <1>4, <1>8, Lengths
      <4>2. heard[c] \o (outq[c] \o part) \in Seq(Byte)
        BY <1>4, <4>1, Lengths
      <4> QED BY <1>10, <4>2, Zenon
    <3>4. (heard'[c] \o outq'[c]) \o <<>> = heard'[c] \o outq'[c]
      BY ONLY <3>3, ConcatEmptySeq
    <3>5. heard'[c] \o outq'[c] = Expected(c)'
      BY <1>12, <3>2, <3>4, Zenon
    <3> QED BY <3>1, <3>5 DEF Whole
  <2>2. CASE nleft[c] # n
    <3>1. state'[c] = "SendData" /\ nleft'[c] = nleft[c] - n
      BY <1>1, <1>2, <1>3, <2>2 DEF Values
    <3>2. Len(Join(iov'[c])) = nleft'[c]
      BY <1>6, <1>7, <1>8, <1>10, <3>1, Zenon
    <3>3. heard'[c] \o outq'[c] \o Join(iov'[c]) = Expected(c)'
      BY <1>6, <1>10, <1>12, Zenon
    <3>4. Len(iov'[c]) = 2 => Len(iov'[c][1]) = 0
      BY <1>6, <1>10, Zenon
    <3> QED BY <3>1, <3>2, <3>3, <3>4 DEF Whole
  <2> QED BY <2>1, <2>2
<1> QED BY <1>13, <1>14, WholeOne

LEMMA WholeHandle ==
    ASSUME ServerAssumption, MinSend >= Hdr, ServerInv, WholeInv, NEW c \in Clients, Handle(c)
    PROVE  WholeInv'
<1>1. CASE Connected(c)
    BY <1>1, WholeConnected
<1>2. CASE ConnectFailed(c)
    BY <1>2, WholeDrop DEF ConnectFailed
<1>3. CASE RecvDirect(c)
    BY <1>3, TookDirect, WholeReceived
<1>4. CASE RecvAhead(c)
    BY <1>4, TookAhead, WholeReceived
<1>5. CASE RecvNone(c)
  <2>1. CASE DropClient(c)
    BY <2>1, WholeDrop
  <2>2. CASE UNCHANGED <<state, heard, outq, iov, nleft, conn, done>>
    BY <2>2, WholeAll
  <2> QED BY <1>5, <2>1, <2>2 DEF RecvNone, clientVars, peerVars
<1>6. ASSUME NEW n \in 1..Room, Send(c, n) PROVE WholeInv'
  <2>1. n \in Nat
    BY Numbers
  <2> QED BY <1>6, <2>1, WholeSend
<1>7. CASE SendNone(c)
  <2>1. CASE DropClient(c)
    BY <2>1, WholeDrop
  <2>2. CASE UNCHANGED <<state, heard, outq, iov, nleft, conn, done>>
    BY <2>2, WholeAll
  <2> QED BY <1>7, <2>1, <2>2 DEF SendNone, clientVars, peerVars
<1> QED BY <1>1, <1>2, <1>3, <1>4, <1>5, <1>6, <1>7 DEF Handle

LEMMA WholeRetry ==
    ASSUME ServerInv, WholeInv, NEW C \in SUBSET Clients, Retry(C)
    PROVE  WholeInv'
<1>1. ASSUME NEW c \in Clients PROVE Whole(c)'
  <2>1. CASE c \in C
    <3>1. state'[c] = "Connecting"
      BY <2>1 DEF Retry
    <3> QED BY <3>1 DEF Whole
  <2>2. CASE c \notin C
    <3>1. Alike(c) /\ Whole(c)
      BY <2>2 DEF Retry, Alike, clientVars, peerVars, WholeInv
    <3> QED BY <3>1, AlikeWhole
  <2> QED BY <2>1, <2>2
<1> QED BY <1>1 DEF WholeInv

LEMMA WholeStep ==
    ASSUME ServerAssumption, MinSend >= Hdr, ServerInv, WholeInv, [Next]_vars
    PROVE  WholeInv'
<1>1. ASSUME NEW C \in SUBSET Clients, Retry(C) PROVE WholeInv'
    BY <1>1, WholeRetry
<1>2. CASE Stop
  <2>1. \A c \in Clients : state'[c] = "Retry"
    BY <1>2 DEF Stop
  <2> QED BY <2>1 DEF WholeInv, Whole
<1>3. CASE UNCHANGED <<state, heard, outq, iov, nleft, conn, done>>
    BY <1>3, WholeAll
<1>4. Poll \/ StopServers \/ UNCHANGED vars
         => UNCHANGED <<state, heard, outq, iov, nleft, conn, done>>
    BY Zenon DEF Poll, StopServers, vars, clientVars, peerVars
<1>5. ASSUME NEW c \in Clients, Handle(c) PROVE WholeInv'
    BY <1>5, WholeHandle
<1>6. ASSUME NEW c \in Clients, Peer(c) PROVE WholeInv'
  <2>1. CASE Hear(c)
    BY <2>1, WholeHear
  <2>2. CASE Accept(c) \/ \E n \in 1..Hdr + MaxBody : Arrive(c, n)
    BY <1>3, <2>2, Zenon DEF Accept, Arrive, clientVars, peerVars
  <2> QED BY <1>6, <2>1, <2>2 DEF Peer
<1>7. ASSUME NEW c \in Clients, Close(c) PROVE WholeInv'
    BY <1>3, <1>7, Zenon DEF Close, clientVars, peerVars
<1>8. ASSUME NEW c \in Clients, NEW n \in 0..MaxBody, Ask(c, n) PROVE WholeInv'
    BY <1>3, <1>8, Zenon DEF Ask, clientVars
<1> QED BY <1>1, <1>2, <1>3, <1>4, <1>5, <1>6, <1>7, <1>8, Zenon DEF Next

LEMMA WholeInvariant ==
    ASSUME MinSend >= Hdr
    PROVE  Spec => [](ServerInv /\ WholeInv)
<1>1. Init => WholeInv
    BY Zenon DEF Init, WholeInv, Whole
<1>2. ServerInv /\ WholeInv /\ [Next]_vars => WholeInv'
    BY WholeStep, ServerAssumption
<1> QED BY <1>1, <1>2, ServerInvariant, PTL DEF Spec

\* Where a send that is cut takes at least a header (the loop over msg_iov in
\* Callback goes wrong when a send ends within the first of two buffers, which
\* the run server_rest shows), a client has got, will get from the socket and
\* will be sent the handshake and then every reply whole and in its order,
\* whatever part of it each sendmsg takes.
THEOREM RepliesAreWhole ==
    ASSUME MinSend >= Hdr
    PROVE  Spec => []RepliesWhole
<1>1. ServerInv /\ WholeInv => RepliesWhole
  <2> SUFFICES ASSUME ServerInv, WholeInv, NEW c \in Clients, up[c] = "yes",
                      state[c] # "Connecting"
               PROVE  heard[c] \o outq[c]
                         \o (IF state[c] = "SendData" THEN Join(iov[c]) ELSE <<>>)
                      = Expected(c)
    BY DEF RepliesWhole
  <2>1. Values /\ Streams /\ Whole(c) /\ state[c] # "Retry"
    BY DEF ServerInv, ClientInv, WholeInv
  <2>2. CASE state[c] = "SendData"
    BY <2>1, <2>2, Zenon DEF Whole
  <2>3. CASE state[c] = "RecvData"
    <3>1. heard[c] \o outq[c] = Expected(c)
      BY <2>1, <2>3 DEF Whole
    <3>2. heard[c] \in Seq(Byte) /\ outq[c] \in Seq(Byte)
      BY <2>1 DEF Streams
    <3>3. heard[c] \o outq[c] \in Seq(Byte)
      BY <3>2, Lengths
    <3>4. (heard[c] \o outq[c]) \o <<>> = heard[c] \o outq[c]
      BY ONLY <3>3, ConcatEmptySeq
    <3>5. state[c] # "SendData"
      BY <2>3
    <3> QED BY <3>1, <3>4, <3>5, Zenon
  <2> QED BY <2>1, <2>2, <2>3 DEF Values
<1> QED BY <1>1, WholeInvariant, PTL

\* In the same case the buffers of Callback hold the nleft bytes that are
\* left to send, as Dci_UpdateIov promises.
THEOREM RestIsKept ==
    ASSUME MinSend >= Hdr
    PROVE  Spec => []SendsTheRest
<1>1. WholeInv => SendsTheRest
    BY Zenon DEF WholeInv, Whole, SendsTheRest
<1> QED BY <1>1, WholeInvariant, PTL
=============================================================================
