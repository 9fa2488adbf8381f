----------------------------- MODULE ListLemmas -----------------------------
(* Lists without repetitions: what Append, Tail and \o do to their elements, *)
(* and functions defined by recursion up to a number: that they exist.       *)
EXTENDS Integers, Sequences, FiniteSets, Functions, FiniteSetTheorems,
        SequenceTheorems, WellFoundedInduction, TLAPS

LEMMA EmptyList == IsInjective(<<>>) /\ Range(<<>>) = {}
BY DEF IsInjective, Range

LEMMA TailList ==
    ASSUME NEW S, NEW s \in Seq(S), s # <<>>, IsInjective(s)
    PROVE  /\ Head(s) \in Range(s) /\ Head(s) \in S /\ Tail(s) \in Seq(S)
           /\ IsInjective(Tail(s))
           /\ Range(Tail(s)) = Range(s) \ {Head(s)}
<1>1. /\ Len(s) \in Nat \ {0} /\ DOMAIN s = 1..Len(s) /\ Head(s) = s[1]
      /\ Head(s) \in S /\ Tail(s) \in Seq(S) /\ Len(Tail(s)) = Len(s) - 1
      /\ DOMAIN Tail(s) = 1..(Len(s) - 1)
      /\ \A k \in 1..(Len(s) - 1) : Tail(s)[k] = s[k + 1]
    BY HeadTailProperties, LenProperties
<1>2. IsInjective(Tail(s))
    BY <1>1 DEF IsInjective
<1>3. ASSUME NEW x \in Range(s), x # Head(s) PROVE x \in Range(Tail(s))
  <2>1. PICK k \in 1..Len(s) : x = s[k]
    BY <1>1 DEF Range
  <2>2. k - 1 \in 1..(Len(s) - 1) /\ Tail(s)[k - 1] = x
    BY <2>1, <1>1, <1>3
  <2> QED BY <2>2, <1>1 DEF Range
<1>4. ASSUME NEW x \in Range(Tail(s)) PROVE x \in Range(s) /\ x # Head(s)
  <2>1. PICK k \in 1..(Len(s) - 1) : x = s[k + 1]
    BY <1>1 DEF Range
  <2> QED BY <2>1, <1>1 DEF Range, IsInjective
<1>5. Head(s) \in Range(s)
    BY <1>1 DEF Range
<1> QED BY <1>1, <1>2, <1>3, <1>4, <1>5

LEMMA AppendList ==
    ASSUME NEW S, NEW s \in Seq(S), NEW e \in S, IsInjective(s), e \notin Range(s)
    PROVE  /\ Append(s, e) \in Seq(S) /\ IsInjective(Append(s, e))
           /\ Range(Append(s, e)) = Range(s) \cup {e}
           /\ Len(Append(s, e)) = Len(s) + 1
<1>1. /\ Len(s) \in Nat /\ DOMAIN s = 1..Len(s)
      /\ Append(s, e) \in Seq(S) /\ Len(Append(s, e)) = Len(s) + 1
      /\ DOMAIN Append(s, e) = 1..(Len(s) + 1)
      /\ Append(s, e)[Len(s) + 1] = e
      /\ \A k \in 1..Len(s) : Append(s, e)[k] = s[k]
    BY AppendProperties, LenProperties
<1>2. \A k \in 1..Len(s) : s[k] # e
    BY <1>1 DEF Range
<1>3. IsInjective(Append(s, e))
    BY <1>1, <1>2 DEF IsInjective
<1>4. ASSUME NEW x PROVE x \in Range(Append(s, e)) <=> x \in Range(s) \cup {e}
  <2>1. ASSUME x \in Range(Append(s, e)) PROVE x \in Range(s) \cup {e}
    <3>1. PICK k \in 1..(Len(s) + 1) : x = Append(s, e)[k]
      BY <2>1, <1>1 DEF Range
    <3>2. CASE k = Len(s) + 1
      BY <3>1, <3>2, <1>1
    <3>3. CASE k \in 1..Len(s)
      BY <3>1, <3>3, <1>1 DEF Range
    <3> QED BY <3>1, <3>2, <3>3, <1>1
  <2>2. ASSUME x \in Range(s) PROVE x \in Range(Append(s, e))
    <3>1. PICK k \in 1..Len(s) : x = s[k]
      BY <2>2, <1>1 DEF Range
    <3>2. k \in DOMAIN Append(s, e) /\ Append(s, e)[k] = x
      BY <3>1, <1>1
    <3> QED BY <3>2 DEF Range
  <2>3. e \in Range(Append(s, e))
    <3>1. Len(s) + 1 \in DOMAIN Append(s, e)
      BY <1>1
    <3> QED BY <3>1, <1>1 DEF Range
  <2> QED BY <2>1, <2>2, <2>3
<1> QED BY <1>1, <1>3, <1>4

LEMMA ConcatList ==
    ASSUME NEW S, NEW s \in Seq(S), NEW q \in Seq(S), IsInjective(s),
           IsInjective(q), Range(s) \cap Range(q) = {}
    PROVE  /\ s \o q \in Seq(S) /\ IsInjective(s \o q)
           /\ Range(s \o q) = Range(s) \cup Range(q)
<1>1. /\ Len(s) \in Nat /\ DOMAIN s = 1..Len(s)
      /\ Len(q) \in Nat /\ DOMAIN q = 1..Len(q)
      /\ s \o q \in Seq(S) /\ Len(s \o q) = Len(s) + Len(q)
      /\ DOMAIN (s \o q) = 1..(Len(s) + Len(q))
      /\ \A k \in 1..(Len(s) + Len(q)) :
            (s \o q)[k] = IF k <= Len(s) THEN s[k] ELSE q[k - Len(s)]
    BY ConcatProperties, LenProperties
<1>2. \A k \in 1..Len(s), l \in 1..Len(q) : s[k] # q[l]
    BY <1>1 DEF Range
<1>3. IsInjective(s \o q)
  <2> SUFFICES ASSUME NEW a \in 1..(Len(s) + Len(q)), NEW b \in 1..(Len(s) + Len(q)),
                      (s \o q)[a] = (s \o q)[b]
               PROVE  a = b
    BY <1>1 DEF IsInjective
  <2>1. CASE a <= Len(s) /\ b <= Len(s)
    BY <2>1, <1>1 DEF IsInjective
  <2>2. CASE a > Len(s) /\ b > Len(s)
    BY <2>2, <1>1 DEF IsInjective
  <2>3. CASE a <= Len(s) /\ b > Len(s)
    BY <2>3, <1>1, <1>2
  <2>4. CASE a > Len(s) /\ b <= Len(s)
    BY <2>4, <1>1, <1>2
  <2> QED BY <2>1, <2>2, <2>3, <2>4, <1>1
<1>4. ASSUME NEW x PROVE x \in Range(s \o q) <=> x \in Range(s) \cup Range(q)
  <2>1. ASSUME x \in Range(s \o q) PROVE x \in Range(s) \cup Range(q)
    <3>1. PICK k \in 1..(Len(s) + Len(q)) : x = (s \o q)[k]
      BY <2>1, <1>1 DEF Range
    <3>2. CASE k <= Len(s)
      BY <3>1, <3>2, <1>1 DEF Range
    <3>3. CASE k > Len(s)
      <4>1. k - Len(s) \in 1..Len(q) /\ x = q[k - Len(s)]
        BY <3>1, <3>3, <1>1
      <4> QED BY <4>1, <1>1 DEF Range
    <3> QED BY <3>1, <3>2, <3>3, <1>1
  <2>2. ASSUME x \in Range(s) PROVE x \in Range(s \o q)
    <3>1. PICK k \in 1..Len(s) : x = s[k]
      BY <2>2, <1>1 DEF Range
    <3>2. k \in DOMAIN (s \o q) /\ (s \o q)[k] = x
      BY <3>1, <1>1
    <3> QED BY <3>2 DEF Range
  <2>3. ASSUME x \in Range(q) PROVE x \in Range(s \o q)
    <3>1. PICK k \in 1..Len(q) : x = q[k]
      BY <2>3, <1>1 DEF Range
    <3>2. Len(s) + k \in DOMAIN (s \o q) /\ (s \o q)[Len(s) + k] = x
      BY <3>1, <1>1
    <3> QED BY <3>2 DEF Range
  <2> QED BY <2>1, <2>2, <2>3
<1> QED BY <1>1, <1>3, <1>4

\* An injective list is as long as its set of elements.
LEMMA ListLength ==
    ASSUME NEW S, NEW s \in Seq(S), IsInjective(s)
    PROVE  IsFiniteSet(Range(s)) /\ Cardinality(Range(s)) = Len(s)
<1>1. Len(s) \in Nat /\ DOMAIN s = 1..Len(s)
    BY LenProperties
<1>2. IsFiniteSet(1..Len(s)) /\ Cardinality(1..Len(s)) = Len(s)
    BY <1>1, FS_Interval, SMTT(30)
<1>3. s \in Bijection(1..Len(s), Range(s))
    BY <1>1 DEF Bijection, Injection, Surjection, IsInjective, Range
<1> QED BY <1>2, <1>3, FS_Bijection DEF ExistsBijection

-----------------------------------------------------------------------------
(* Induction up to a number, with the set of the numbers for which the     *)
(* claim holds.                                                            *)

LEMMA Induct ==
    ASSUME NEW N \in Nat, NEW G, 0 \in G,
           \A n \in 0..N : n < N /\ n \in G => n + 1 \in G
    PROVE  \A n \in 0..N : n \in G
<1> DEFINE B == {n \in Nat : n <= N /\ n \notin G}
<1> SUFFICES ASSUME B # {} PROVE FALSE
    OBVIOUS
<1>1. B \subseteq Nat
    OBVIOUS
<1> HIDE DEF B
<1>2. PICK n \in B : \A m \in B : ~(<<m, n>> \in OpToRel(<, Nat))
    BY <1>1, NatLessThanWellFounded, WFMin
<1>3. n \in Nat /\ n <= N /\ n \notin G
    BY <1>2 DEF B
<1>4. n # 0
    BY <1>3
<1>5. n - 1 \in Nat /\ n - 1 < n /\ n - 1 \in 0..N /\ n - 1 < N /\ (n - 1) + 1 = n
    BY <1>3, <1>4
<1>6. n - 1 \notin G
    BY <1>3, <1>5
<1>7. n - 1 \in B
    BY <1>3, <1>5, <1>6 DEF B
<1>8. <<n - 1, n>> \in OpToRel(<, Nat)
    BY <1>3, <1>5 DEF OpToRel
<1> QED BY <1>2, <1>7, <1>8

\* The values of a function: s, and of g[n] those that follow.
Chain(f, s, g, N) == f[0] = s /\ \A n \in 1..N : f[n] = g[n][f[n-1]]

\* A function defined by recursion on 0..N exists: g[n] makes its n-th value
\* from the one before.
LEMMA Recursion ==
    ASSUME NEW N \in Nat, NEW S, NEW s \in S, NEW g \in [1..N -> [S -> S]]
    PROVE  \E f \in [0..N -> S] : Chain(f, s, g, N)
<1> DEFINE Is(f, n) == f[0] = s /\ \A j \in 1..n : f[j] = g[j][f[j-1]]
           G == {n \in Nat : \E f \in [0..N -> S] : Is(f, n)}
<1>1. 0 \in G
  <2>1. Is([n \in 0..N |-> s], 0)
    OBVIOUS
  <2> QED BY <2>1
<1>2. ASSUME NEW n \in 0..N, n < N, n \in G PROVE n + 1 \in G
  <2>1. PICK f \in [0..N -> S] : Is(f, n)
    BY <1>2
  <2> DEFINE h == [f EXCEPT ![n + 1] = g[n + 1][f[n]]]
  <2>2. h \in [0..N -> S]
    BY <1>2
  <2>3. \A j \in 0..n : h[j] = f[j]
    BY <1>2
  <2>4. h[n + 1] = g[n + 1][h[n]]
    BY <1>2
  <2> HIDE DEF h
  <2>5. Is(h, n + 1)
    <3>1. h[0] = s
      BY <2>1, <2>3
    <3>2. ASSUME NEW j \in 1..n+1 PROVE h[j] = g[j][h[j-1]]
      <4>1. CASE j = n + 1
        BY <4>1, <2>4
      <4>2. CASE j \in 1..n
        <5>1. j \in 0..n /\ j - 1 \in 0..n
          BY <4>2
        <5> QED BY <5>1, <4>2, <2>1, <2>3
      <4> QED BY <4>1, <4>2
    <3> QED BY <3>1, <3>2
  <2>6. n + 1 \in Nat
    BY <1>2
  <2> QED BY <2>2, <2>5, <2>6
<1>3. N \in G
  <2> HIDE DEF G
  <2>1. \A n \in 0..N : n \in G
    BY <1>1, <1>2, Induct
  <2> QED BY <2>1
<1> QED BY <1>3 DEF Chain

=============================================================================
