----------------------------- MODULE PaginateProofs -----------------------------
(***************************************************************************)
(* Proofs about Paginate, for every list, filter, limit and page size, and *)
(* however the list changes between two pages: what a loop returns, and    *)
(* says of it, is right.                                                   *)
(*                                                                         *)
(* What has been kept is what the filter passes of the prefix read so far  *)
(* (NothingChanged): selecting from a prefix and from the page after it is *)
(* selecting from the longer prefix (WhereConcat).  Once the list has      *)
(* changed, all that is left of this is that a flow run is not kept twice  *)
(* (KeptOnce) and that a client has no more than the limit (WithinCap).    *)
(***************************************************************************)
EXTENDS Paginate, FiniteSetTheorems, SequenceTheorems, WellFoundedInduction, TLAPS

-----------------------------------------------------------------------------
(* Parts of lists.                                                         *)

\* Natural numbers have a least one.
LEMMA LeastNatural ==
    ASSUME NEW T \in SUBSET Nat, T # {}
    PROVE  \E x \in T : \A y \in T : x <= y
<1> DEFINE R == OpToRel(<, Nat)
<1>1. PICK x \in T : \A y \in T : <<y, x>> \notin R
  <2>1. IsWellFoundedOn(R, Nat)
    BY NatLessThanWellFounded
  <2> HIDE DEF R
  <2>2. QED
    BY <2>1, WFMin, Zenon
<1>2. \A y \in T : <<y, x>> \in R <=> y < x
  BY DEF OpToRel
<1> HIDE DEF R
<1>3. \A y \in T : ~(y < x)
  BY <1>1, <1>2
<1>4. QED
  BY <1>3

\* The k-th of a set of indices is one of them, and has k - 1 of them before it.
LEMMA NthFacts ==
    ASSUME NEW n \in Nat, NEW I, \A j \in I : j \in Nat /\ j <= n, IsFiniteSet(I),
           NEW k \in 1 .. Cardinality(I)
    PROVE  Nth(I, k) \in I /\ Cardinality({j \in I : j < Nth(I, k)}) = k - 1
<1> DEFINE UpTo(m) == {j \in I : j <= m}
           Enough == {m \in Nat : Cardinality(UpTo(m)) >= k}
<1>0. \A j \in I : j \in Nat /\ j <= n
  OBVIOUS
<1>1. IsFiniteSet(I) /\ Cardinality(I) \in Nat
  BY FS_CardinalityType
<1>2. ASSUME NEW J \in SUBSET I PROVE IsFiniteSet(J) /\ Cardinality(J) \in Nat
  BY <1>1, <1>2, FS_Subset, FS_CardinalityType
<1>3. UpTo(n) = I
  BY <1>0
<1>4. n \in Enough
  BY <1>1, <1>3
<1>5. PICK m \in Enough : \A y \in Enough : m <= y
  <2> HIDE DEF Enough
  <2>1. Enough \in SUBSET Nat
    BY DEF Enough
  <2>2. QED
    BY <1>4, <2>1, LeastNatural
<1> DEFINE below == {j \in I : j < m}
<1>a. m \in Nat /\ Cardinality(UpTo(m)) >= k
  OBVIOUS
<1>b. ASSUME NEW y \in Nat, Cardinality(UpTo(y)) >= k PROVE m <= y
  BY <1>5, <1>b
<1> HIDE DEF Enough
<1>6. IsFiniteSet(below) /\ Cardinality(below) \in Nat
  BY <1>2
<1>7. Cardinality(below) < k
  <2>1. CASE m = 0
    <3>1. \A j \in below : FALSE
      BY <1>0, <2>1
    <3>2. QED
      BY <3>1, FS_EmptySet
  <2>2. CASE m # 0
    <3>1. m - 1 \in Nat /\ ~(m <= m - 1)
      BY <1>a, <2>2
    <3>2. UpTo(m - 1) = below
      BY <1>0, <1>a
    <3>3. ~(Cardinality(UpTo(m - 1)) >= k)
      BY <3>1, <1>b
    <3>4. QED
      BY <3>2, <3>3, <1>6
  <2>3. QED
    BY <2>1, <2>2
<1>8. m \in I
  <2>1. CASE m \notin I
    <3>1. UpTo(m) = below
      BY <2>1, <1>0, <1>a
    <3>2. QED
      BY <3>1, <1>6, <1>7, <1>a
  <2>2. QED
    BY <2>1
<1>9. Cardinality(below) = k - 1
  <2>1. UpTo(m) = below \cup {m} /\ m \notin below
    <3>1. /\ \A j \in I : j <= m <=> j < m \/ j = m
          /\ ~(m < m)
      BY <1>0, <1>a
    <3>2. QED
      BY <3>1, <1>8
  <2>2. Cardinality(UpTo(m)) = Cardinality(below) + 1
    BY <2>1, <1>6, FS_AddElement
  <2>3. QED
    BY <2>2, <1>6, <1>7, <1>a
<1>10. Nth(I, k) = CHOOSE i \in I : Cardinality({j \in I : j < i}) = k - 1
  BY DEF Nth
<1>11. QED
  BY <1>8, <1>9, <1>10

\* Indices in a list are finite in number, and so are some of them.
LEMMA FiniteIndices ==
    ASSUME NEW n \in Nat, NEW I, \A j \in I : j \in 1 .. n
    PROVE  /\ IsFiniteSet(I) /\ Cardinality(I) \in Nat
           /\ \A J \in SUBSET I : IsFiniteSet(J) /\ Cardinality(J) \in Nat
<1>1. IsFiniteSet(1 .. n) /\ I \in SUBSET (1 .. n)
  BY FS_Interval
<1>2. IsFiniteSet(I)
  BY <1>1, FS_Subset
<1>3. QED
  BY <1>2, FS_Subset, FS_CardinalityType

\* ... and it is the only one with that many before it.
LEMMA NthIs ==
    ASSUME NEW n \in Nat, NEW I, \A j \in I : j \in 1 .. n,
           NEW k \in 1 .. Cardinality(I), NEW i \in I,
           Cardinality({j \in I : j < i}) = k - 1
    PROVE  Nth(I, k) = i
<1> DEFINE m == Nth(I, k)
           before(h) == {j \in I : j < h}
<1>1. IsFiniteSet(I) /\ \A j \in I : j \in Nat /\ j <= n
  BY FiniteIndices
<1>2. m \in I /\ Cardinality(before(m)) = k - 1
  BY <1>1, NthFacts
<1> HIDE DEF m
<1>3. ASSUME NEW g \in I, NEW h \in I, g < h,
             Cardinality(before(g)) = k - 1, Cardinality(before(h)) = k - 1
      PROVE  FALSE
  <2>1. before(g) \in SUBSET before(h)
    BY <1>1, <1>3
  <2>2. g \in before(h) /\ g \notin before(g)
    BY <1>1, <1>3
  <2>3. IsFiniteSet(before(h))
    BY FiniteIndices
  <2> HIDE DEF before
  <2>4. before(h) = before(g)
    BY <2>1, <2>3, <1>3, FS_Subset
  <2>5. QED
    BY <2>2, <2>4
<1>4. ~(m < i) /\ ~(i < m)
  BY <1>2, <1>3
<1>5. m = i
  BY <1>1, <1>2, <1>4
<1>6. QED
  BY <1>5 DEF m

\* There are n numbers up to n.
LEMMA Counting ==
    ASSUME NEW n \in Nat
    PROVE  IsFiniteSet(1 .. n) /\ Cardinality(1 .. n) = n
<1>1. Cardinality(1 .. n) = IF 1 > n THEN 0 ELSE n - 1 + 1
  BY FS_Interval
<1>2. QED
  BY <1>1, FS_Interval

\* What is picked of a list: as much as there are indices, each at its own place.
LEMMA PickedFacts ==
    ASSUME NEW S, NEW s \in Seq(S), NEW I, \A j \in I : j \in 1 .. Len(s)
    PROVE  /\ Picked(s, I) \in Seq(S)
           /\ Len(Picked(s, I)) = Cardinality(I)
           /\ Cardinality(I) \in Nat
           /\ \A k \in 1 .. Cardinality(I) : Nth(I, k) \in I /\ Picked(s, I)[k] = s[Nth(I, k)]
           /\ \A i \in I : \E k \in 1 .. Cardinality(I) : Nth(I, k) = i
<1>0. Len(s) \in Nat
  OBVIOUS
<1>1. IsFiniteSet(I) /\ Cardinality(I) \in Nat /\ \A j \in I : j \in Nat /\ j <= Len(s)
  BY <1>0, FiniteIndices
<1>2. \A k \in 1 .. Cardinality(I) : Nth(I, k) \in I
  BY <1>0, <1>1, NthFacts
<1>3. Picked(s, I) = [k \in 1 .. Cardinality(I) |-> s[Nth(I, k)]]
  BY DEF Picked
<1>4. Picked(s, I) \in Seq(S)
  <2>1. \A k \in 1 .. Cardinality(I) : s[Nth(I, k)] \in S
    BY <1>2
  <2>2. QED
    BY <1>1, <1>3, <2>1
<1>5. ASSUME NEW i \in I PROVE \E k \in 1 .. Cardinality(I) : Nth(I, k) = i
  <2> DEFINE before == {j \in I : j < i}
             k == Cardinality(before) + 1
  <2>1. before \in SUBSET (I \ {i})
    BY <1>1
  <2>2. IsFiniteSet(I \ {i}) /\ Cardinality(I \ {i}) = Cardinality(I) - 1
    BY <1>1, FS_RemoveElement
  <2>3. Cardinality(before) \in Nat /\ Cardinality(before) <= Cardinality(I) - 1
    <3> HIDE DEF before
    <3>1. QED
      BY <2>1, <2>2, FS_Subset, FS_CardinalityType
  <2>4. k \in 1 .. Cardinality(I) /\ Cardinality(before) = k - 1
    BY <1>1, <2>3
  <2>5. Nth(I, k) = i
    BY <1>0, <2>4, NthIs
  <2>6. QED
    BY <2>4, <2>5
<1>6. QED
  BY <1>1, <1>2, <1>3, <1>4, <1>5

\* What a list has of a set: elements of both, none of them lost, and none twice in a list
\* without repetition.
LEMMA WhereFacts ==
    ASSUME NEW S, NEW s \in Seq(S), NEW P
    PROVE  /\ Where(s, P) \in Seq(S)
           /\ Len(Where(s, P)) \in Nat /\ Len(Where(s, P)) <= Len(s)
           /\ Range(Where(s, P)) = Range(s) \cap P
           /\ IsInjective(s) => IsInjective(Where(s, P))
<1> DEFINE I == {i \in 1 .. Len(s) : s[i] \in P}
           w == Where(s, P)
<1>0. Len(s) \in Nat /\ \A i \in I : i \in 1 .. Len(s) /\ s[i] \in P /\ s[i] \in S
  OBVIOUS
<1>1. w = Picked(s, I)
  BY DEF Where
<1>2. \A i \in 1 .. Len(s) : s[i] \in P => i \in I
  OBVIOUS
<1>3. IsFiniteSet(1 .. Len(s)) /\ Cardinality(1 .. Len(s)) = Len(s) /\ I \in SUBSET (1 .. Len(s))
  BY <1>0, Counting
<1> HIDE DEF I, w
<1>4. Cardinality(I) <= Len(s)
  BY <1>3, FS_Subset
<1>5. /\ w \in Seq(S)
      /\ Len(w) = Cardinality(I) /\ Cardinality(I) \in Nat
      /\ \A k \in 1 .. Cardinality(I) : Nth(I, k) \in I /\ w[k] = s[Nth(I, k)]
      /\ \A i \in I : \E k \in 1 .. Cardinality(I) : Nth(I, k) = i
  <2>1. \A j \in I : j \in 1 .. Len(s)
    BY <1>0
  <2>2. QED
    BY <2>1, <1>1, PickedFacts
<1>7. DOMAIN w = 1 .. Cardinality(I) /\ DOMAIN s = 1 .. Len(s)
  BY <1>5
<1>8. Range(w) = Range(s) \cap P
  <2>1. ASSUME NEW x \in Range(w) PROVE x \in Range(s) /\ x \in P
    <3>1. PICK k \in 1 .. Cardinality(I) : x = w[k]
      BY <1>7 DEF Range
    <3>2. x = s[Nth(I, k)] /\ Nth(I, k) \in I
      BY <3>1, <1>5
    <3>3. QED
      BY <3>2, <1>0, <1>7 DEF Range
  <2>2. ASSUME NEW x \in Range(s), x \in P PROVE x \in Range(w)
    <3>1. PICK i \in 1 .. Len(s) : x = s[i]
      BY <1>7 DEF Range
    <3>2. i \in I
      BY <2>2, <3>1, <1>2
    <3>3. PICK k \in 1 .. Cardinality(I) : Nth(I, k) = i
      BY <3>2, <1>5
    <3>4. x = w[k]
      BY <3>1, <3>3, <1>5
    <3>5. QED
      BY <3>4, <1>7 DEF Range
  <2>3. QED
    BY <2>1, <2>2
<1>9. ASSUME IsInjective(s) PROVE IsInjective(w)
  <2>1. SUFFICES ASSUME NEW h \in 1 .. Cardinality(I), NEW k \in 1 .. Cardinality(I),
                        w[h] = w[k]
                 PROVE  h = k
    BY <1>7 DEF IsInjective
  <2> DEFINE m == Nth(I, h)
  <2>2. m \in I /\ Nth(I, k) \in I /\ s[m] = s[Nth(I, k)]
    BY <2>1, <1>5
  <2>3. m = Nth(I, k)
    BY <2>2, <1>9, <1>0, <1>7 DEF IsInjective
  <2>4. /\ Cardinality({j \in I : j < m}) = h - 1
        /\ Cardinality({j \in I : j < Nth(I, k)}) = k - 1
    <3>1. IsFiniteSet(I) /\ \A j \in I : j \in Nat /\ j <= Len(s)
      BY <1>0, FiniteIndices
    <3>2. QED
      BY <3>1, <1>0, NthFacts
  <2> HIDE DEF m
  <2>5. h - 1 = k - 1
    BY <2>3, <2>4
  <2>6. QED
    BY <2>5
<1>10. QED
  BY <1>4, <1>5, <1>8, <1>9 DEF w

\* Of a list that lies in the set, nothing is left out.
LEMMA WhereAll ==
    ASSUME NEW S, NEW s \in Seq(S), NEW P, S \subseteq P
    PROVE  Where(s, P) = s
<1> DEFINE I == {i \in 1 .. Len(s) : s[i] \in P}
<1>1. I = 1 .. Len(s) /\ Len(s) \in Nat
  OBVIOUS
<1>2. Where(s, P) = Picked(s, 1 .. Len(s))
  BY <1>1 DEF Where
<1>3. Cardinality(1 .. Len(s)) = Len(s)
  BY <1>1, Counting
<1>4. ASSUME NEW k \in 1 .. Len(s) PROVE Nth(1 .. Len(s), k) = k
  <2>1. {j \in 1 .. Len(s) : j < k} = 1 .. (k - 1)
    BY <1>1
  <2>2. Cardinality(1 .. (k - 1)) = k - 1
    BY <1>1, FS_Interval
  <2>3. QED
    BY <1>1, <1>3, <2>1, <2>2, NthIs
<1>5. Where(s, P) = [k \in 1 .. Len(s) |-> s[Nth(1 .. Len(s), k)]]
  BY <1>2, <1>3 DEF Picked
<1>6. Where(s, P) = [k \in 1 .. Len(s) |-> s[k]]
  BY <1>4, <1>5
<1>7. QED
  BY <1>1, <1>6

\* Indices moved along are as many as before.
LEMMA Shifted ==
    ASSUME NEW n \in Nat, NEW d \in Nat, NEW J, \A j \in J : j \in 1 .. n
    PROVE  /\ IsFiniteSet({d + j : j \in J})
           /\ Cardinality({d + j : j \in J}) = Cardinality(J)
<1> DEFINE T == {d + j : j \in J}
           f == [j \in J |-> d + j]
<1>1. IsFiniteSet(J)
  BY FiniteIndices
<1>2. f \in Bijection(J, T)
  <2>1. f \in [J -> T]
    OBVIOUS
  <2>2. \A a, b \in J : f[a] = f[b] => a = b
    OBVIOUS
  <2>3. \A t \in T : \E j \in J : f[j] = t
    OBVIOUS
  <2> HIDE DEF f, T
  <2>4. QED
    BY <2>1, <2>2, <2>3 DEF Bijection, Injection, Surjection, IsInjective
<1>3. ExistsBijection(J, T)
  BY <1>2 DEF ExistsBijection
<1> HIDE DEF T
<1>4. IsFiniteSet(T) /\ Cardinality(T) = Cardinality(J)
  BY <1>1, <1>3, FS_Bijection
<1>5. QED
  BY <1>4 DEF T

\* What two lists after another have of a set.
LEMMA WhereConcat ==
    ASSUME NEW S, NEW s \in Seq(S), NEW t \in Seq(S), NEW P
    PROVE  Where(s \o t, P) = Where(s, P) \o Where(t, P)
<1> DEFINE n == Len(s)
           I == {i \in 1 .. n : s[i] \in P}
           J == {j \in 1 .. Len(t) : t[j] \in P}
           M == {n + j : j \in J}
           K == {k \in 1 .. Len(s \o t) : (s \o t)[k] \in P}
           a == Cardinality(I)
           b == Cardinality(J)
<1>1. /\ n \in Nat /\ Len(t) \in Nat /\ s \o t \in Seq(S) /\ Len(s \o t) = n + Len(t)
      /\ \A k \in 1 .. n : (s \o t)[k] = s[k]
      /\ \A j \in 1 .. Len(t) : (s \o t)[n + j] = t[j]
  OBVIOUS
<1>2. /\ \A i \in I : i \in 1 .. n
      /\ \A j \in J : j \in 1 .. Len(t)
      /\ \A k \in M : k \in (n + 1) .. (n + Len(t)) /\ k - n \in J
      /\ \A j \in J : n + j \in M
      /\ \A i \in I : (s \o t)[i] = s[i] /\ s[i] \in S
      /\ \A j \in J : (s \o t)[n + j] = t[j] /\ t[j] \in S
      /\ \A k \in K : k \in 1 .. (n + Len(t))
  BY <1>1
<1>3. K = I \cup M
  <2>1. ASSUME NEW k \in K PROVE k \in I \/ k \in M
    <3>1. CASE k <= n
      BY <1>1, <3>1
    <3>2. CASE k > n
      <4>1. k - n \in 1 .. Len(t) /\ k = n + (k - n)
        BY <1>1, <3>2
      <4>2. k - n \in J
        BY <4>1, <1>1
      <4>3. QED
        BY <4>1, <4>2
    <3>3. QED
      BY <1>1, <3>1, <3>2
  <2>2. ASSUME NEW i \in I PROVE i \in K
    BY <1>1
  <2>3. ASSUME NEW j \in J PROVE n + j \in K
    BY <1>1
  <2>4. QED
    BY <2>1, <2>2, <2>3
<1>4. /\ Where(s \o t, P) = Picked(s \o t, K)
      /\ Where(s, P) = Picked(s, I) /\ Where(t, P) = Picked(t, J)
  BY DEF Where
<1> HIDE DEF I, J, K
<1>5. /\ IsFiniteSet(I) /\ a \in Nat
      /\ IsFiniteSet(J) /\ b \in Nat
  BY <1>1, <1>2, FiniteIndices
<1>6. IsFiniteSet(M) /\ Cardinality(M) = b
  BY <1>1, <1>2, Shifted
<1> HIDE DEF M
<1>7. Cardinality(K) = a + b
  <2>1. I \cap M = {}
    BY <1>1, <1>2
  <2>2. Cardinality(I \cup M) = Cardinality(I) + Cardinality(M) - Cardinality(I \cap M)
    BY <1>5, <1>6, FS_Union
  <2>3. Cardinality(I \cap M) = 0
    BY <2>1, FS_EmptySet
  <2>4. QED
    BY <2>2, <2>3, <1>3, <1>5, <1>6
<1>a. \A k \in K : k \in 1 .. (n + Len(t)) /\ n + Len(t) \in Nat
  BY <1>1, <1>2
<1>8. ASSUME NEW k \in 1 .. a PROVE Nth(I, k) \in I /\ Nth(K, k) = Nth(I, k)
  <2> DEFINE m == Nth(I, k)
  <2>1. m \in I /\ Cardinality({j \in I : j < m}) = k - 1
    <3>1. \A j \in I : j \in Nat /\ j <= n
      BY <1>1, <1>2
    <3>2. QED
      BY <3>1, <1>1, <1>5, NthFacts
  <2> HIDE DEF m
  <2>2. {j \in K : j < m} = {j \in I : j < m}
    BY <1>1, <1>2, <1>3, <2>1
  <2>3. k \in 1 .. Cardinality(K) /\ m \in K
    BY <1>3, <1>5, <1>7, <2>1
  <2>4. Nth(K, k) = m
    BY <1>a, <2>1, <2>2, <2>3, NthIs
  <2>5. QED
    BY <2>1, <2>4 DEF m
<1>9. ASSUME NEW k \in 1 .. b PROVE Nth(J, k) \in J /\ Nth(K, a + k) = n + Nth(J, k)
  <2> DEFINE m == Nth(J, k)
             before == {j \in J : j < m}
  <2>1. m \in J /\ Cardinality(before) = k - 1
    <3>1. \A j \in J : j \in Nat /\ j <= Len(t)
      BY <1>1, <1>2
    <3>2. QED
      BY <3>1, <1>1, <1>5, NthFacts
  <2> HIDE DEF m
  <2>2. {j \in K : j < n + m} = I \cup {n + j : j \in before}
    <3>1. ASSUME NEW i \in K, i < n + m PROVE i \in I \/ i \in {n + j : j \in before}
      <4>1. CASE i \in I
        BY <4>1
      <4>2. CASE i \in M
        <5>1. i - n \in J /\ i \in Int
          BY <4>2, <1>2
        <5>2. i - n < m /\ i = n + (i - n)
          BY <5>1, <3>1, <1>1, <1>2, <2>1
        <5>3. i - n \in before
          BY <5>1, <5>2
        <5> HIDE DEF before
        <5>4. QED
          BY <5>2, <5>3
      <4>3. QED
        BY <4>1, <4>2, <1>3
    <3>2. ASSUME NEW i \in I PROVE i \in K /\ i < n + m
      BY <1>1, <1>2, <1>3, <2>1
    <3>3. ASSUME NEW j \in before PROVE n + j \in K /\ n + j < n + m
      BY <1>1, <1>2, <1>3, <2>1
    <3> HIDE DEF before
    <3>4. QED
      BY <3>1, <3>2, <3>3
  <2>3. Cardinality(I \cup {n + j : j \in before}) = a + (k - 1)
    <3>1. \A j \in before : j \in 1 .. Len(t)
      BY <1>2
    <3> DEFINE T == {n + j : j \in before}
    <3>2. I \cap T = {}
      BY <1>1, <1>2
    <3> HIDE DEF before
    <3>3. IsFiniteSet(T) /\ Cardinality(T) = k - 1
      BY <3>1, <2>1, <1>1, Shifted
    <3> HIDE DEF T
    <3>4. Cardinality(I \cup T) = Cardinality(I) + Cardinality(T) - Cardinality(I \cap T)
      BY <3>3, <1>5, FS_Union
    <3>5. Cardinality(I \cap T) = 0
      BY <3>2, FS_EmptySet
    <3>6. QED
      BY <3>3, <3>4, <3>5, <1>5 DEF T
  <2>4. a + k \in 1 .. Cardinality(K) /\ n + m \in K /\ a + (k - 1) = (a + k) - 1
    BY <1>2, <1>3, <1>5, <1>7, <2>1
  <2> HIDE DEF before
  <2>5. Nth(K, a + k) = n + m
    BY <1>a, <2>2, <2>3, <2>4, NthIs
  <2>6. QED
    BY <2>1, <2>5 DEF m
<1>10. /\ Picked(s \o t, K) = [k \in 1 .. (a + b) |-> (s \o t)[Nth(K, k)]]
       /\ Picked(s, I) = [k \in 1 .. a |-> s[Nth(I, k)]]
       /\ Picked(t, J) = [k \in 1 .. b |-> t[Nth(J, k)]]
  <2>1. QED
    BY <1>7 DEF Picked
<1> DEFINE u == Picked(s, I)
           v == Picked(t, J)
<1>11. u \in Seq(S) /\ v \in Seq(S) /\ Len(u) = a /\ Len(v) = b
  BY <1>2, PickedFacts
<1>12. /\ \A k \in 1 .. a : u[k] = s[Nth(I, k)]
       /\ \A k \in 1 .. b : v[k] = t[Nth(J, k)]
  BY <1>10
<1> HIDE DEF u, v, a, b
<1>b. a \in Nat /\ b \in Nat
  BY <1>5 DEF a, b
<1>13. /\ u \o v \in Seq(S) /\ Len(u \o v) = a + b
       /\ \A k \in 1 .. a : (u \o v)[k] = u[k]
       /\ \A k \in 1 .. b : (u \o v)[a + k] = v[k]
  <2>1. u \o v \in Seq(S) /\ Len(u \o v) = a + b
    BY <1>11, ConcatProperties
  <2>2. \A i \in 1 .. (a + b) : (u \o v)[i] = IF i <= a THEN u[i] ELSE v[i - a]
    BY <1>11, ConcatProperties
  <2>3. ASSUME NEW k \in 1 .. a PROVE k \in 1 .. (a + b) /\ k <= a
    BY <1>b
  <2>4. ASSUME NEW k \in 1 .. b PROVE a + k \in 1 .. (a + b) /\ ~(a + k <= a) /\ (a + k) - a = k
    BY <1>b
  <2>5. \A k \in 1 .. a : (u \o v)[k] = u[k]
    BY <2>2, <2>3
  <2>6. ASSUME NEW k \in 1 .. b PROVE (u \o v)[a + k] = v[k]
    <3>1. (u \o v)[a + k] = v[(a + k) - a]
      BY <2>2, <2>4
    <3>2. QED
      BY <3>1, <2>4
  <2>7. QED
    BY <2>1, <2>5, <2>6
<1>14. ASSUME NEW k \in 1 .. (a + b) PROVE (s \o t)[Nth(K, k)] = (u \o v)[k]
  <2>0. k <= a \/ k > a
    BY <1>b
  <2>1. CASE k <= a
    <3>1. k \in 1 .. a
      BY <2>1, <1>b
    <3>2. Nth(I, k) \in I /\ Nth(K, k) = Nth(I, k)
      BY <3>1, <1>8 DEF a
    <3>3. (s \o t)[Nth(K, k)] = s[Nth(I, k)]
      BY <3>2, <1>2
    <3>4. QED
      BY <3>1, <3>3, <1>12, <1>13
  <2>2. CASE k > a
    <3> DEFINE h == k - a
    <3>1. h \in 1 .. b /\ a + h = k
      BY <2>2, <1>b
    <3> HIDE DEF h
    <3>2. Nth(J, h) \in J /\ Nth(K, k) = n + Nth(J, h)
      BY <3>1, <1>9 DEF a, b
    <3>3. (s \o t)[Nth(K, k)] = t[Nth(J, h)]
      BY <3>2, <1>2
    <3>4. QED
      BY <3>1, <3>3, <1>12, <1>13
  <2>3. QED
    BY <2>0, <2>1, <2>2
<1>15. Picked(s \o t, K) = [k \in 1 .. (a + b) |-> (u \o v)[k]]
  BY <1>10, <1>14 DEF a, b
<1>16. u \o v = [k \in 1 .. (a + b) |-> (u \o v)[k]]
  <2> DEFINE w == u \o v
  <2>1. w \in Seq(S) /\ Len(w) = a + b
    BY <1>13
  <2> HIDE DEF w
  <2>2. w = [k \in 1 .. (a + b) |-> w[k]]
    BY <2>1
  <2>3. QED
    BY <2>2 DEF w
<1>17. QED
  BY <1>4, <1>15, <1>16 DEF u, v

-----------------------------------------------------------------------------
(* The inductive invariant.                                                *)

PagesTyped ==
    /\ PagesTypes
    /\ ask.loop \in {"paginate", "pulse", "client"} => ask.passing = Items
    /\ IsInjective(list)
    /\ ask.loop # "pulse" \/ page = 0 => size \in Nat

\* A flow run is kept once: those kept have all been seen.
KeptOnce == ask.loop \in FlowRuns => IsInjective(got) /\ Range(got) \subseteq seen

\* A client has no more than full pages hold, and no more than the configured limit.
WithinCap == ask.loop = "client" /\ ask.cap # Unlimited =>
                 Len(got) <= page * MAX_PAGE_SIZE /\ Len(got) <= ask.cap

\* While the list does not change: what has been read is a prefix of it, as long as the
\* pages that were read, and what has been kept is what the filter passes of this prefix.
\* (A client that asks for less than a page leaves gaps.)
Numbered == {"paginate", "filtered"} \cup FlowRuns
Prefix   == SubSeq(list, 1, raw)
Reach    == IF ask.cap = Unlimited THEN Len(list) ELSE SmallerOf(Len(list), ask.cap)
Gapless  == ask.loop # "client" \/ ask.limit = Unlimited

PrefixIsKept  == Gapless => raw \in 0 .. Len(list) /\ got = Passing(Prefix)
PagesAreRead  == /\ page = 0 => raw = 0
                 /\ ask.loop \in Numbered => raw = SmallerOf(page * PageSize, Len(list))
                 /\ ask.loop = "client" /\ Gapless => raw = SmallerOf(page * MAX_PAGE_SIZE, Reach)
TotalIsKnown  == page > 0 => total = IF ask.loop = "client" THEN Reach ELSE Len(list)
PrefixIsSeen  == ask.loop \in FlowRuns => seen = Range(Prefix)

\* The loop ends when all has been read, or enough kept: a filter, and flow runs, want one
\* more than the limit.  Where the size of the next page is what is missing, something is.
Enough == /\ Limit # Unlimited
          /\ Len(got) >= IF ask.loop \in {"filtered"} \cup FlowRuns THEN Limit + 1 ELSE Limit
SizeIsMissing == ask.loop = "pulse" /\ page > 0 => size > 0 \/ raw = Len(list) \/ Enough
EndsInTime    == /\ status # "error"
                 /\ PagesDone /\ ask.loop # "client" => page > 0 /\ (raw = Len(list) \/ Enough)
                 /\ PagesDone /\ ask.loop = "client" /\ Gapless => raw = Reach

NothingChanged == changes = 0 =>
    /\ PrefixIsKept /\ PagesAreRead /\ TotalIsKnown /\ PrefixIsSeen
    /\ SizeIsMissing /\ EndsInTime

PagesInv == PagesTyped /\ KeptOnce /\ WithinCap /\ NothingChanged

-----------------------------------------------------------------------------
(* Prefixes and pages.                                                     *)

\* A list without repetition after another one, with nothing in common.
LEMMA InjectiveConcat ==
    ASSUME NEW S, NEW s \in Seq(S), NEW t \in Seq(S),
           IsInjective(s), IsInjective(t), Range(s) \cap Range(t) = {}
    PROVE  IsInjective(s \o t)
<1>1. /\ Len(s) \in Nat /\ Len(t) \in Nat
      /\ DOMAIN s = 1 .. Len(s) /\ DOMAIN t = 1 .. Len(t)
      /\ DOMAIN (s \o t) = 1 .. (Len(s) + Len(t))
  OBVIOUS
<1>2. \A i \in 1 .. (Len(s) + Len(t)) :
          (s \o t)[i] = IF i <= Len(s) THEN s[i] ELSE t[i - Len(s)]
  BY ConcatProperties
<1>3. \A i \in 1 .. Len(s) : s[i] \in Range(s)
  BY <1>1 DEF Range
<1>4. \A i \in 1 .. Len(t) : t[i] \in Range(t)
  BY <1>1 DEF Range
<1>5. SUFFICES ASSUME NEW i \in 1 .. (Len(s) + Len(t)), NEW j \in 1 .. (Len(s) + Len(t)),
                      (s \o t)[i] = (s \o t)[j]
               PROVE  i = j
  BY <1>1 DEF IsInjective
<1>6. CASE i <= Len(s) /\ j <= Len(s)
  <2>1. i \in 1 .. Len(s) /\ j \in 1 .. Len(s) /\ s[i] = s[j]
    BY <1>1, <1>2, <1>5, <1>6
  <2>2. QED
    BY <2>1, <1>1 DEF IsInjective
<1>7. CASE i > Len(s) /\ j > Len(s)
  <2>1. i - Len(s) \in 1 .. Len(t) /\ j - Len(s) \in 1 .. Len(t)
    BY <1>1, <1>7
  <2>2. t[i - Len(s)] = t[j - Len(s)]
    BY <1>1, <1>2, <1>5, <1>7
  <2>3. i - Len(s) = j - Len(s)
    BY <2>1, <2>2, <1>1 DEF IsInjective
  <2>4. QED
    BY <2>3, <1>1
<1>8. ASSUME NEW g \in 1 .. (Len(s) + Len(t)), NEW h \in 1 .. (Len(s) + Len(t)),
             g <= Len(s), h > Len(s)
      PROVE  (s \o t)[g] # (s \o t)[h]
  <2>1. g \in 1 .. Len(s) /\ h - Len(s) \in 1 .. Len(t) /\ ~(h <= Len(s))
    BY <1>1, <1>8
  <2>2. (s \o t)[g] \in Range(s)
    BY <2>1, <1>2, <1>3
  <2>3. (s \o t)[h] \in Range(t)
    BY <2>1, <1>2, <1>4
  <2>4. QED
    BY <2>2, <2>3
<1>9. QED
  BY <1>1, <1>5, <1>6, <1>7, <1>8

\* A part of a list.
LEMMA Part ==
    ASSUME NEW S, NEW s \in Seq(S), NEW m \in Nat \ {0}, NEW n \in Int, n <= Len(s)
    PROVE  /\ SubSeq(s, m, n) \in Seq(S)
           /\ Len(SubSeq(s, m, n)) = IF m <= n THEN n - m + 1 ELSE 0
           /\ Len(SubSeq(s, m, n)) \in Nat
           /\ DOMAIN SubSeq(s, m, n) = 1 .. Len(SubSeq(s, m, n))
           /\ \A i \in 1 .. Len(SubSeq(s, m, n)) : SubSeq(s, m, n)[i] = s[m + i - 1]
                                                /\ m + i - 1 \in m .. n
           /\ IsInjective(s) => IsInjective(SubSeq(s, m, n))
<1> DEFINE t == SubSeq(s, m, n)
<1>1. \A i \in m .. n : s[i] \in S
  OBVIOUS
<1>2. /\ t \in Seq(S)
      /\ Len(t) = IF m <= n THEN n - m + 1 ELSE 0
      /\ \A i \in 1 .. (n - m + 1) : t[i] = s[m + i - 1]
  BY <1>1, SubSeqProperties
<1> HIDE DEF t
<1>3. Len(t) \in Nat /\ DOMAIN t = 1 .. Len(t)
  BY <1>2
<1>4. \A i \in 1 .. Len(t) : i \in 1 .. (n - m + 1) /\ m + i - 1 \in m .. n
  BY <1>2, <1>3
<1>5. \A i \in 1 .. Len(t) : t[i] = s[m + i - 1]
  BY <1>2, <1>4
<1>6. ASSUME IsInjective(s) PROVE IsInjective(t)
  <2>1. SUFFICES ASSUME NEW i \in 1 .. Len(t), NEW j \in 1 .. Len(t), t[i] = t[j]
                 PROVE  i = j
    BY <1>3 DEF IsInjective
  <2>2. s[m + i - 1] = s[m + j - 1]
    BY <2>1, <1>5
  <2>3. m + i - 1 \in DOMAIN s /\ m + j - 1 \in DOMAIN s
    BY <1>4
  <2>4. m + i - 1 = m + j - 1
    BY <2>2, <2>3, <1>6 DEF IsInjective
  <2>5. QED
    BY <2>4, <1>3
<1>7. QED
  BY <1>2, <1>3, <1>4, <1>5, <1>6 DEF t

\* A longer prefix of a list is a shorter one and what comes after it.
LEMMA PrefixGrows ==
    ASSUME NEW S, NEW s \in Seq(S), NEW r \in 0 .. Len(s), NEW q \in r .. Len(s)
    PROVE  /\ SubSeq(s, 1, q) = SubSeq(s, 1, r) \o SubSeq(s, r + 1, q)
           /\ SubSeq(s, 1, r) \in Seq(S) /\ SubSeq(s, r + 1, q) \in Seq(S)
           /\ Len(SubSeq(s, 1, r)) = r /\ Len(SubSeq(s, r + 1, q)) = q - r
           /\ Range(SubSeq(s, 1, q)) = Range(SubSeq(s, 1, r)) \cup Range(SubSeq(s, r + 1, q))
           /\ IsInjective(s) =>
                  Range(SubSeq(s, 1, r)) \cap Range(SubSeq(s, r + 1, q)) = {}
<1> DEFINE t == SubSeq(s, 1, r)
           u == SubSeq(s, r + 1, q)
<1>1. Len(s) \in Nat /\ r \in Nat /\ q \in Nat /\ r <= q /\ q <= Len(s)
  OBVIOUS
<1>2. SubSeq(s, 1, q) = t \o u
  <2>1. /\ 1 \in 1 .. Len(s) + 1 /\ r \in 1 - 1 .. Len(s) /\ q \in r .. Len(s)
    BY <1>1
  <2>2. QED
    BY <2>1, ConcatAdjacentSubSeq
<1>3. /\ t \in Seq(S) /\ Len(t) = r /\ DOMAIN t = 1 .. r
      /\ \A i \in 1 .. r : t[i] = s[i]
  <2>1. /\ t \in Seq(S) /\ Len(t) = (IF 1 <= r THEN r - 1 + 1 ELSE 0)
        /\ DOMAIN t = 1 .. Len(t)
        /\ \A i \in 1 .. Len(t) : t[i] = s[1 + i - 1]
    BY <1>1, Part
  <2> HIDE DEF t
  <2>2. QED
    BY <2>1, <1>1
<1>4. /\ u \in Seq(S) /\ Len(u) = q - r /\ DOMAIN u = 1 .. (q - r)
      /\ \A i \in 1 .. (q - r) : u[i] = s[r + i]
  <2>1. r + 1 \in Nat \ {0}
    BY <1>1
  <2>2. /\ u \in Seq(S) /\ Len(u) = (IF r + 1 <= q THEN q - (r + 1) + 1 ELSE 0)
        /\ DOMAIN u = 1 .. Len(u)
        /\ \A i \in 1 .. Len(u) : u[i] = s[r + 1 + i - 1]
    BY <1>1, <2>1, Part
  <2> HIDE DEF u
  <2>3. Len(u) = q - r
    BY <2>2, <1>1
  <2>4. \A i \in 1 .. (q - r) : r + 1 + i - 1 = r + i
    BY <1>1
  <2>5. QED
    BY <2>2, <2>3, <2>4
<1> HIDE DEF t, u
<1>5. Range(t \o u) = Range(t) \cup Range(u)
  BY <1>3, <1>4, RangeConcatenation
<1>6. ASSUME IsInjective(s) PROVE Range(t) \cap Range(u) = {}
  <2>1. SUFFICES ASSUME NEW i \in 1 .. r, NEW j \in 1 .. (q - r), t[i] = u[j]
                 PROVE  FALSE
    BY <1>3, <1>4 DEF Range
  <2>2. s[i] = s[r + j]
    BY <2>1, <1>3, <1>4
  <2>3. i \in DOMAIN s /\ r + j \in DOMAIN s /\ i # r + j
    BY <1>1
  <2>4. QED
    BY <2>2, <2>3, <1>6 DEF IsInjective
<1>7. QED
  BY <1>2, <1>3, <1>4, <1>5, <1>6 DEF t, u

\* The page after n pages is the part of the list that begins where these end.
LEMMA PageIs ==
    ASSUME list \in Seq(Items), NEW n \in Nat, NEW per \in Nat \ {0}
    PROVE  LET r == SmallerOf(n * per, Len(list))
               q == SmallerOf((n + 1) * per, Len(list))
           IN  /\ Page(n + 1, per) = SubSeq(list, r + 1, q)
               /\ r \in 0 .. Len(list) /\ q \in r .. Len(list)
               /\ q - r <= per
               /\ q - r < per => q = Len(list)
               /\ r < Len(list) => r < q
<1> DEFINE m == n * per
           r == SmallerOf(m, Len(list))
           q == SmallerOf(m + per, Len(list))
<1>1. m \in Nat /\ per \in Nat \ {0} /\ Len(list) \in Nat
  OBVIOUS
<1>2. (n + 1) * per = m + per /\ (n + 1) - 1 = n
  OBVIOUS
<1>3. Page(n + 1, per) = SubSeq(list, m + 1, q)
  BY <1>2 DEF Page
<1> HIDE DEF m
<1>4. /\ r \in 0 .. Len(list) /\ q \in r .. Len(list)
      /\ q - r <= per
      /\ q - r < per => q = Len(list)
      /\ r < Len(list) => r < q
      /\ r # m => r = Len(list) /\ q = Len(list) /\ m > Len(list)
  <2> DEFINE len == Len(list)
  <2>1. /\ r = IF m < len THEN m ELSE len
        /\ q = IF m + per < len THEN m + per ELSE len
        /\ len \in Nat
    BY <1>1 DEF SmallerOf
  <2> HIDE DEF r, q, len
  <2>2. CASE m + per < len
    <3>1. r = m /\ q = m + per
      BY <2>1, <2>2, <1>1
    <3>2. QED
      BY <3>1, <2>1, <2>2, <1>1 DEF len
  <2>3. CASE ~(m + per < len) /\ m < len
    BY <2>1, <2>3, <1>1 DEF len
  <2>4. CASE ~(m < len)
    BY <2>1, <2>4, <1>1 DEF len
  <2>5. QED
    BY <2>2, <2>3, <2>4
<1>5. SubSeq(list, m + 1, q) = SubSeq(list, r + 1, q)
  <2>1. CASE r = m
    BY <2>1
  <2>2. CASE r # m
    <3>1. m + 1 \in Int /\ r + 1 \in Int /\ q \in Int /\ q < m + 1 /\ q < r + 1
      BY <2>2, <1>1, <1>4
    <3> HIDE DEF r, q
    <3>2. QED
      BY <3>1, SubSeqEmpty
  <2>3. QED
    BY <2>1, <2>2
<1>6. QED
  BY <1>2, <1>3, <1>4, <1>5 DEF m

-----------------------------------------------------------------------------
(* The steps.                                                              *)

\* Limits are numbers, flow runs have one, and pages hold something.
LEMMA Limits ==
    ASSUME PagesTyped
    PROVE  /\ Limit \in Nat
           /\ ask.loop \in FlowRuns => Limit # Unlimited
           /\ ask.loop \in Numbered => PageSize \in Nat \ {0}
           /\ MAX_PAGE_SIZE \in Nat \ {0} /\ ServerPage \in Nat \ {0}
<1>1. /\ MAX_PAGE_SIZE \in Nat \ {0} /\ ServerPage \in Nat \ {0} /\ DefaultLimit \in Nat \ {0}
      /\ ask.limit \in Nat /\ ask.cap \in Nat /\ (ask.loop # "pulse" => size \in Nat)
  BY PaginateAssumption DEF PagesTyped, PagesTypes
<1>2. Limit \in Nat /\ (ask.loop \in FlowRuns => Limit # Unlimited)
  BY <1>1 DEF Limit, EffectiveLimit, Unlimited, SmallerOf
<1>3. ask.loop \in Numbered => PageSize \in Nat \ {0}
  BY <1>1 DEF Numbered, FlowRuns, PageSize, SmallerOf
<1>4. QED
  BY <1>1, <1>2, <1>3

\* A page, and what the filter passes of it, are lists of the site's items.
LEMMA PageTyped ==
    ASSUME PagesTyped, NEW n \in Nat, NEW per \in Nat \ {0}
    PROVE  /\ Page(n + 1, per) \in Seq(Items) /\ IsInjective(Page(n + 1, per))
           /\ Len(Page(n + 1, per)) \in Nat /\ Len(Page(n + 1, per)) <= per
           /\ Passing(Page(n + 1, per)) \in Seq(Items)
<1> DEFINE r == SmallerOf(n * per, Len(list))
           q == SmallerOf((n + 1) * per, Len(list))
<1>1. list \in Seq(Items) /\ IsInjective(list) /\ Len(list) \in Nat
  BY DEF PagesTyped, PagesTypes
<1>2. /\ Page(n + 1, per) = SubSeq(list, r + 1, q)
      /\ r \in 0 .. Len(list) /\ q \in r .. Len(list)
      /\ q - r <= per
  BY <1>1, PageIs
<1> HIDE DEF r, q
<1>3. r + 1 \in Nat \ {0} /\ q \in Int /\ q <= Len(list) /\ r \in Nat
  BY <1>1, <1>2
<1>4. /\ SubSeq(list, r + 1, q) \in Seq(Items)
      /\ IsInjective(SubSeq(list, r + 1, q))
      /\ Len(SubSeq(list, r + 1, q)) = IF r + 1 <= q THEN q - (r + 1) + 1 ELSE 0
  BY <1>1, <1>3, Part
<1>5. Passing(SubSeq(list, r + 1, q)) \in Seq(Items)
  BY <1>4, WhereFacts DEF Passing
<1>6. /\ Len(SubSeq(list, r + 1, q)) \in Nat
      /\ Len(SubSeq(list, r + 1, q)) <= per
  <2> DEFINE l == Len(SubSeq(list, r + 1, q))
  <2>1. l = (IF r + 1 <= q THEN q - (r + 1) + 1 ELSE 0) /\ r \in Nat /\ q \in Nat /\ q - r <= per
    BY <1>1, <1>2, <1>4
  <2> HIDE DEF l
  <2>2. l \in Nat /\ l <= per
    BY <2>1
  <2>3. QED
    BY <2>2 DEF l
<1>7. QED
  BY <1>2, <1>4, <1>5, <1>6

\* Reading on from the end of the prefix keeps the longer prefix.
LEMMA ReadsOn ==
    ASSUME PagesTyped, raw \in 0 .. Len(list), got = Passing(Prefix),
           UNCHANGED <<ask, list>>, NEW q \in raw .. Len(list), raw' = q,
           got' = got \o Passing(SubSeq(list, raw + 1, q))
    PROVE  /\ raw' \in 0 .. Len(list)
           /\ got' = Passing(SubSeq(list, 1, q)) /\ PrefixIsKept'
           /\ Range(Prefix') = Range(Prefix) \cup Range(SubSeq(list, raw + 1, q))
           /\ Range(Prefix) \cap Range(SubSeq(list, raw + 1, q)) = {}
           /\ SubSeq(list, raw + 1, q) \in Seq(Items)
           /\ Len(SubSeq(list, raw + 1, q)) = q - raw
<1>1. list \in Seq(Items) /\ IsInjective(list) /\ Len(list) \in Nat
  BY DEF PagesTyped, PagesTypes
<1>2. /\ SubSeq(list, 1, q) = Prefix \o SubSeq(list, raw + 1, q)
      /\ Prefix \in Seq(Items) /\ SubSeq(list, raw + 1, q) \in Seq(Items)
      /\ Len(SubSeq(list, raw + 1, q)) = q - raw
      /\ Range(SubSeq(list, 1, q)) = Range(Prefix) \cup Range(SubSeq(list, raw + 1, q))
      /\ Range(Prefix) \cap Range(SubSeq(list, raw + 1, q)) = {}
  BY <1>1, PrefixGrows DEF Prefix
<1>3. Passing(SubSeq(list, 1, q)) = Passing(Prefix) \o Passing(SubSeq(list, raw + 1, q))
  <2> DEFINE u == SubSeq(list, raw + 1, q)
  <2>1. u \in Seq(Items) /\ Prefix \in Seq(Items) /\ SubSeq(list, 1, q) = Prefix \o u
    BY <1>2
  <2> HIDE DEF u
  <2>2. Where(Prefix \o u, ask.passing) = Where(Prefix, ask.passing) \o Where(u, ask.passing)
    BY <2>1, WhereConcat
  <2>3. QED
    BY <2>1, <2>2 DEF Passing, u
<1>4. Prefix' = SubSeq(list, 1, q)
  BY DEF Prefix
<1>5. got' = Passing(SubSeq(list, 1, q)) /\ raw' \in 0 .. Len(list)
  BY <1>1, <1>3
<1>6. PrefixIsKept'
  BY <1>4, <1>5 DEF PrefixIsKept, Passing
<1>7. QED
  BY <1>2, <1>4, <1>5, <1>6

\* A loop that reads no more keeps the invariant, if it has read or kept enough.
LEMMA EndsKeep ==
    ASSUME PagesInv, status' = "done",
           UNCHANGED <<ask, list, changes, page, size, total, raw, seen, got>>,
           changes = 0 =>
               /\ ask.loop # "client" => page > 0 /\ (raw = Len(list) \/ Enough)
               /\ ask.loop = "client" /\ Gapless => raw = Reach
    PROVE  PagesInv'
<1>1. PagesTyped' /\ KeptOnce' /\ WithinCap'
  BY DEF PagesInv, PagesTyped, PagesTypes, KeptOnce, WithinCap
<1>2. Enough' = Enough /\ Reach' = Reach /\ Gapless' = Gapless
  BY DEF Enough, Reach, Gapless, Limit, EffectiveLimit
<1>3. ASSUME changes = 0
      PROVE  (PrefixIsKept /\ PagesAreRead /\ TotalIsKnown /\ PrefixIsSeen /\ SizeIsMissing)'
  <2>1. PrefixIsKept /\ PagesAreRead /\ TotalIsKnown /\ PrefixIsSeen /\ SizeIsMissing
    BY <1>3 DEF PagesInv, NothingChanged
  <2>2. Prefix' = Prefix /\ PageSize' = PageSize
    BY DEF Prefix, PageSize
  <2>3. PrefixIsKept' /\ PrefixIsSeen'
    BY <1>2, <2>1, <2>2 DEF PrefixIsKept, PrefixIsSeen, Passing
  <2>4. PagesAreRead' /\ TotalIsKnown' /\ SizeIsMissing'
    BY <1>2, <2>1, <2>2 DEF PagesAreRead, TotalIsKnown, SizeIsMissing
  <2>5. QED
    BY <2>3, <2>4
<1>4. ASSUME changes = 0 PROVE EndsInTime'
  BY <1>2, <1>4 DEF EndsInTime, PagesDone
<1>5. QED
  BY <1>1, <1>3, <1>4 DEF PagesInv, NothingChanged

\* A page read from a list that does not change.
LEMMA NextPageRead ==
    ASSUME PagesInv, changes = 0, ask.loop \in Numbered,
           UNCHANGED <<ask, list, changes, size>>,
           Reads(Page(page + 1, PageSize)),
           got' = got \o Passing(Page(page + 1, PageSize)),
           ask.loop \in FlowRuns => seen' = seen \cup Range(Page(page + 1, PageSize)),
           \/ status' = "reading"
           \/ status' = "done" /\ (Len(Page(page + 1, PageSize)) < PageSize \/ Enough')
    PROVE  NothingChanged'
<1> DEFINE len == Len(list)
           q == SmallerOf((page + 1) * PageSize, len)
           data == Page(page + 1, PageSize)
<1>1. /\ PagesTyped /\ page \in Nat /\ list \in Seq(Items) /\ len \in Nat
      /\ PageSize \in Nat \ {0}
      /\ ask.loop # "client" /\ ask.loop # "pulse"
  <2>1. PagesTyped
    BY DEF PagesInv
  <2>2. PageSize \in Nat \ {0}
    BY <2>1, Limits
  <2>3. page \in Nat /\ list \in Seq(Items) /\ len \in Nat
    BY <2>1 DEF PagesTyped, PagesTypes
  <2>4. ask.loop # "client" /\ ask.loop # "pulse"
    BY DEF Numbered, FlowRuns
  <2>5. QED
    BY <2>1, <2>2, <2>3, <2>4
<1>2. /\ raw = SmallerOf(page * PageSize, len)
      /\ raw \in 0 .. len /\ got = Passing(Prefix)
      /\ ask.loop \in FlowRuns => seen = Range(Prefix)
  BY <1>1 DEF PagesInv, NothingChanged, PrefixIsKept, PagesAreRead, PrefixIsSeen, Gapless
<1>3. /\ data = SubSeq(list, raw + 1, q)
      /\ q \in raw .. len
      /\ q - raw < PageSize => q = len
  BY <1>1, <1>2, PageIs
<1>4. page' = page + 1 /\ total' = len /\ raw' = raw + Len(data)
  BY DEF Reads
<1> HIDE DEF q, data
<1>5. Len(data) = q - raw
  <2>1. Len(SubSeq(list, raw + 1, q)) = q - raw
    <3>1. list \in Seq(Items) /\ raw \in 0 .. Len(list) /\ q \in raw .. Len(list)
      BY <1>1, <1>2, <1>3
    <3>2. QED
      BY <3>1, PrefixGrows
  <2>2. QED
    BY <2>1, <1>3
<1>6. raw' = q
  BY <1>1, <1>2, <1>3, <1>4, <1>5
<1>7. got' = got \o Passing(SubSeq(list, raw + 1, q))
  BY <1>3 DEF data
<1>8. PrefixIsKept' /\ Range(Prefix') = Range(Prefix) \cup Range(data)
  BY <1>1, <1>2, <1>3, <1>6, <1>7, ReadsOn
<1>9. PagesAreRead'
  <2>1. PageSize' = PageSize /\ page' # 0
    BY <1>1, <1>4 DEF PageSize
  <2>2. raw' = SmallerOf(page' * PageSize', Len(list'))
    BY <1>4, <1>6, <2>1 DEF q
  <2>3. QED
    BY <2>1, <2>2, <1>1 DEF PagesAreRead
<1>10. TotalIsKnown' /\ PrefixIsSeen' /\ SizeIsMissing'
  <2>1. TotalIsKnown' /\ SizeIsMissing'
    BY <1>1, <1>4 DEF TotalIsKnown, SizeIsMissing
  <2>2. ask.loop \in FlowRuns => seen' = seen \cup Range(data)
    BY DEF data
  <2>3. PrefixIsSeen'
    BY <2>2, <1>2, <1>8 DEF PrefixIsSeen
  <2>4. QED
    BY <2>1, <2>3
<1>11. EndsInTime'
  <2>1. page' > 0
    BY <1>1, <1>4
  <2>2. status' = "done" => raw' = Len(list') \/ Enough'
    BY <1>3, <1>5, <1>6 DEF data
  <2>3. QED
    BY <2>1, <2>2, <1>1 DEF EndsInTime, PagesDone
<1>12. QED
  BY <1>8, <1>9, <1>10, <1>11 DEF NothingChanged

\* paginateWithMetadata keeps the invariant, with and without a filter.
LEMMA PaginateKeeps ==
    ASSUME PagesInv, PaginateStep
    PROVE  PagesInv'
<1> DEFINE data == Page(page + 1, PageSize)
<1>1. /\ PagesTyped /\ ask.loop \in {"paginate", "filtered"} /\ status = "reading"
      /\ UNCHANGED <<ask, list, changes, size>>
      /\ page \in Nat /\ total \in Nat /\ raw \in Nat /\ got \in Seq(Items) /\ list \in Seq(Items)
  BY DEF PagesInv, PagesTyped, PagesTypes, PaginateStep
<1>2. /\ ask.loop \in Numbered /\ ask.loop \notin FlowRuns
      /\ ask.loop # "client" /\ ask.loop # "pulse" /\ Limit \in Nat /\ PageSize \in Nat \ {0}
  BY <1>1, Limits DEF Numbered, FlowRuns
<1>3. /\ data \in Seq(Items) /\ Len(data) \in Nat /\ Passing(data) \in Seq(Items)
  BY <1>1, <1>2, PageTyped
<1> HIDE DEF data
<1>4. CASE /\ Reads(data) /\ got' = got \o Passing(data)
           /\ UNCHANGED <<seen, status>>
  <2>1. PagesTyped'
    BY <1>1, <1>2, <1>3, <1>4 DEF PagesTyped, PagesTypes, Reads
  <2>2. KeptOnce' /\ WithinCap'
    BY <1>1, <1>2 DEF KeptOnce, WithinCap
  <2>3. changes = 0 => NothingChanged'
    BY <1>1, <1>2, <1>4, NextPageRead DEF data
  <2>4. NothingChanged'
    BY <2>3, <1>1 DEF NothingChanged
  <2>5. QED
    BY <2>1, <2>2, <2>4 DEF PagesInv
<1>5. CASE page > 0 /\ total > raw /\ data = << >> /\ Ends("error")
  <2>1. changes # 0
    <3>1. SUFFICES ASSUME changes = 0 PROVE FALSE
      OBVIOUS
    <3>2. raw = SmallerOf(page * PageSize, Len(list)) /\ total = Len(list) /\ raw \in 0 .. Len(list)
      BY <1>2, <1>5, <3>1
         DEF PagesInv, NothingChanged, PagesAreRead, TotalIsKnown, PrefixIsKept, Gapless
    <3> DEFINE q == SmallerOf((page + 1) * PageSize, Len(list))
    <3>3. data = SubSeq(list, raw + 1, q) /\ q \in raw .. Len(list) /\ (raw < Len(list) => raw < q)
      BY <1>1, <1>2, <3>2, PageIs DEF data
    <3> HIDE DEF q
    <3>4. Len(SubSeq(list, raw + 1, q)) = q - raw
      BY <1>1, <3>2, <3>3, PrefixGrows
    <3>5. Len(data) # 0
      <4>1. raw < q /\ raw \in Int /\ q \in Int
        BY <1>1, <1>5, <3>2, <3>3
      <4>2. QED
        BY <4>1, <3>3, <3>4
    <3>6. QED
      BY <3>5, <1>5
  <2>2. PagesTyped' /\ KeptOnce' /\ WithinCap'
    BY <1>1, <1>2, <1>5 DEF PagesTyped, PagesTypes, KeptOnce, WithinCap, Ends
  <2>3. NothingChanged'
    BY <2>1, <1>1 DEF NothingChanged
  <2>4. QED
    BY <2>2, <2>3 DEF PagesInv
<1>6. CASE page # 0 /\ ~(total > raw /\ MoreWanted) /\ Ends("done")
  <2>1. /\ page > 0 /\ UNCHANGED <<ask, list, changes, page, size, total, raw, seen, got>>
        /\ status' = "done"
    BY <1>1, <1>6 DEF Ends
  <2>2. ASSUME changes = 0 PROVE raw = Len(list) \/ Enough
    <3>1. total = Len(list) /\ raw \in 0 .. Len(list) /\ Len(list) \in Nat
      BY <1>1, <1>2, <2>1, <2>2
         DEF PagesInv, NothingChanged, TotalIsKnown, PrefixIsKept, Gapless
    <3>2. CASE ~(total > raw)
      BY <3>1, <3>2
    <3>3. CASE ~MoreWanted
      <4>1. Len(got) \in Nat
        BY <1>1
      <4>2. CASE ask.loop = "filtered"
        BY <1>2, <3>3, <4>1, <4>2 DEF MoreWanted, Enough
      <4>3. CASE ask.loop # "filtered"
        BY <1>2, <3>3, <4>1, <4>3 DEF MoreWanted, Enough
      <4>4. QED
        BY <4>2, <4>3
    <3>4. QED
      BY <1>6, <3>2, <3>3
  <2>3. QED
    BY <2>1, <2>2, <1>2, EndsKeep
<1>7. QED
  BY <1>4, <1>5, <1>6 DEF PaginateStep, data

\* collectFlowRuns keeps the invariant: of a list that stays every run is new, and of one
\* that changes no run is kept that was seen before.
LEMMA FlowRunsKeep ==
    ASSUME PagesInv, FlowRunsStep
    PROVE  PagesInv'
<1> DEFINE data == Page(page + 1, PageSize)
           new == New(data)
<1>1. /\ PagesTyped /\ ask.loop \in FlowRuns /\ status = "reading"
      /\ UNCHANGED <<ask, list, changes, size>>
      /\ page \in Nat /\ raw \in Nat /\ got \in Seq(Items) /\ list \in Seq(Items)
      /\ seen \in SUBSET Items
  BY DEF PagesInv, PagesTyped, PagesTypes, FlowRunsStep
<1>2. /\ ask.loop \in Numbered
      /\ ask.loop # "client" /\ ask.loop # "pulse" /\ Limit \in Nat /\ Limit # Unlimited
      /\ PageSize \in Nat \ {0}
  BY <1>1, Limits DEF Numbered, FlowRuns
<1>3. data \in Seq(Items) /\ IsInjective(data) /\ Len(data) \in Nat
  BY <1>1, <1>2, PageTyped
<1>4. /\ Reads(data)
      /\ got' = got \o Passing(new)
      /\ seen' = seen \cup Range(data)
      /\ status' = IF Len(data) < PageSize \/ Len(got') > Limit \/ new = << >>
                   THEN "done" ELSE "reading"
  BY DEF FlowRunsStep
<1> HIDE DEF data, new
<1>5. /\ new \in Seq(Items) /\ IsInjective(new)
      /\ Range(new) = Range(data) \cap (Items \ seen)
  BY <1>3, WhereFacts DEF new, New
<1>6. /\ Passing(new) \in Seq(Items) /\ IsInjective(Passing(new))
      /\ Range(Passing(new)) \subseteq Range(new)
  BY <1>5, WhereFacts DEF Passing
<1>7. PagesTyped'
  <2>1. Range(data) \in SUBSET Items
    BY <1>3, RangeOfSeq
  <2>2. got' \in Seq(Items) /\ seen' \in SUBSET Items /\ status' \in {"reading", "done"}
    BY <1>1, <1>4, <1>6, <2>1
  <2>3. page' \in Nat /\ total' \in Nat /\ raw' \in Nat
    BY <1>1, <1>3, <1>4 DEF Reads
  <2>4. QED
    BY <1>1, <1>2, <2>2, <2>3 DEF PagesTyped, PagesTypes
<1>8. KeptOnce'
  <2>1. IsInjective(got) /\ Range(got) \subseteq seen
    BY <1>1 DEF PagesInv, KeptOnce
  <2>2. Range(got) \cap Range(Passing(new)) = {}
    BY <2>1, <1>5, <1>6
  <2>3. IsInjective(got')
    BY <2>1, <2>2, <1>1, <1>4, <1>6, InjectiveConcat
  <2>4. Range(got') = Range(got) \cup Range(Passing(new))
    BY <1>1, <1>4, <1>6, RangeConcatenation
  <2>5. Range(got') \subseteq seen'
    BY <2>1, <2>4, <1>4, <1>5, <1>6
  <2>6. QED
    BY <2>3, <2>5 DEF KeptOnce
<1>9. WithinCap'
  BY <1>1, <1>2 DEF WithinCap
<1>10. ASSUME changes = 0 PROVE NothingChanged'
  <2>1. /\ raw = SmallerOf(page * PageSize, Len(list)) /\ raw \in 0 .. Len(list)
        /\ seen = Range(Prefix)
    BY <1>1, <1>2, <1>10
       DEF PagesInv, NothingChanged, PagesAreRead, PrefixIsKept, PrefixIsSeen, Gapless
  <2> DEFINE q == SmallerOf((page + 1) * PageSize, Len(list))
  <2>2. data = SubSeq(list, raw + 1, q) /\ q \in raw .. Len(list)
    BY <1>1, <1>2, <2>1, PageIs DEF data
  <2> HIDE DEF q
  <2>3. Range(Prefix) \cap Range(data) = {}
    BY <1>1, <2>1, <2>2, PrefixGrows DEF Prefix, PagesTyped, PagesTypes
  <2>4. new = data
    <3>1. data \in Seq(Range(data))
      BY <1>3, SeqOfRange
    <3>2. Range(data) \subseteq Items \ seen
      BY <1>3, <2>1, <2>3, RangeOfSeq
    <3>3. QED
      BY <3>1, <3>2, WhereAll DEF new, New
  <2>5. got' = got \o Passing(data)
    BY <1>4, <2>4
  <2>6. status' = "done" => Len(data) < PageSize \/ Enough'
    <3>1. new = << >> => Len(data) < PageSize
      BY <1>2, <2>4
    <3>2. Len(got') > Limit => Enough'
      <4>1. Limit' = Limit /\ Len(got') \in Nat
        BY <1>1, <1>7 DEF Limit, EffectiveLimit, PagesTyped, PagesTypes
      <4>2. QED
        BY <4>1, <1>1, <1>2 DEF Enough
    <3>3. QED
      BY <1>4, <3>1, <3>2
  <2>7. QED
    BY <1>1, <1>2, <1>4, <1>10, <2>5, <2>6, NextPageRead DEF data
<1>11. QED
  BY <1>1, <1>7, <1>8, <1>9, <1>10 DEF PagesInv, NothingChanged

\* pulsePaginate keeps the invariant: while the list stays, the next page is not empty.
LEMMA PulseKeeps ==
    ASSUME PagesInv, PulseStep
    PROVE  PagesInv'
<1> DEFINE asked == IF size = 0 THEN ServerPage ELSE SmallerOf(size, MAX_PAGE_SIZE)
           q == SmallerOf(raw + asked, Len(list))
           data == SubSeq(list, raw + 1, q)
<1>1. /\ PagesTyped /\ ask.loop = "pulse" /\ status = "reading"
      /\ UNCHANGED <<ask, list, changes>>
      /\ page \in Nat /\ total \in Nat /\ raw \in Nat /\ got \in Seq(Items)
      /\ list \in Seq(Items) /\ Len(list) \in Nat /\ size \in Int
      /\ (page = 0 => size \in Nat) /\ ask.passing = Items
  BY DEF PagesInv, PagesTyped, PagesTypes, PulseStep
<1>2. /\ ask.loop \notin Numbered /\ ask.loop \notin FlowRuns /\ ask.loop # "client"
      /\ Gapless
  BY <1>1 DEF Numbered, FlowRuns, Gapless
<1>3. Limit \in Nat /\ ServerPage \in Nat \ {0} /\ MAX_PAGE_SIZE \in Nat \ {0}
  BY <1>1, Limits
<1>4. asked \in Int /\ q \in Int /\ q <= Len(list)
  BY <1>1, <1>3 DEF SmallerOf
<1>5. data \in Seq(Items) /\ Len(data) \in Nat
  <2>1. raw + 1 \in Nat \ {0}
    BY <1>1
  <2> HIDE DEF q
  <2>2. QED
    BY <2>1, <1>1, <1>4, Part
<1>6. Passing(data) = data
  <2> HIDE DEF data
  <2>1. QED
    BY <1>1, <1>5, WhereAll DEF Passing
<1>7. ASSUME changes = 0
      PROVE  /\ raw \in 0 .. Len(list) /\ got = Passing(Prefix) /\ (page = 0 => raw = 0)
             /\ (page > 0 => size > 0 \/ raw = Len(list) \/ Enough)
  BY <1>1, <1>2, <1>7 DEF PagesInv, NothingChanged, PrefixIsKept, PagesAreRead, SizeIsMissing
<1>8. ASSUME changes = 0, size > 0 \/ (size = 0 /\ page = 0)
      PROVE  /\ asked > 0 /\ q \in raw .. Len(list) /\ Len(data) = q - raw
             /\ (raw < Len(list) => raw < q)
  <2>1. asked > 0
    BY <1>1, <1>3, <1>8 DEF SmallerOf
  <2>2. raw <= Len(list)
    BY <1>7, <1>8
  <2> HIDE DEF asked
  <2>3. q \in raw .. Len(list) /\ (raw < Len(list) => raw < q)
    BY <1>1, <1>4, <2>1, <2>2 DEF SmallerOf
  <2> HIDE DEF q
  <2>4. Len(data) = q - raw
    <3>1. list \in Seq(Items) /\ raw \in 0 .. Len(list) /\ q \in raw .. Len(list)
      BY <1>1, <2>2, <2>3
    <3>2. QED
      BY <3>1, PrefixGrows
  <2>5. QED
    BY <2>1, <2>3, <2>4
<1>9. /\ page = 0 \/ (raw < Len(list) /\ (Limit = Unlimited \/ Limit > Len(got)))
      /\ changes = 0
      => size > 0 \/ (size = 0 /\ page = 0)
  <2>1. Len(got) \in Nat
    BY <1>1
  <2>2. Limit = Unlimited \/ Limit > Len(got) => ~Enough
    BY <1>1, <1>2, <1>3, <2>1 DEF Enough
  <2>3. QED
    BY <1>1, <1>7, <2>2
<1> HIDE DEF asked, q, data
<1>10. CASE /\ page = 0 \/ (raw < Len(list) /\ (Limit = Unlimited \/ Limit > Len(got)))
            /\ Reads(data)
            /\ size' = IF page = 0 /\ size = 0 THEN Missing(Len(data)) ELSE size
            /\ got' = got \o data
            /\ UNCHANGED <<seen, status>>
  <2>1. size' \in Int
    BY <1>1, <1>3, <1>5, <1>10 DEF Missing, SmallerOf
  <2>2. PagesTyped'
    <3>1. page' \in Nat \ {0} /\ total' \in Nat /\ raw' \in Nat /\ got' \in Seq(Items)
      BY <1>1, <1>5, <1>10 DEF Reads
    <3>2. QED
      BY <1>1, <1>2, <1>10, <2>1, <3>1 DEF PagesTyped, PagesTypes
  <2>3. KeptOnce' /\ WithinCap'
    BY <1>1, <1>2 DEF KeptOnce, WithinCap
  <2>4. ASSUME changes = 0 PROVE NothingChanged'
    <3>1. /\ raw \in 0 .. Len(list) /\ got = Passing(Prefix)
          /\ q \in raw .. Len(list) /\ Len(data) = q - raw
          /\ (raw < Len(list) => raw < q)
      BY <1>7, <1>8, <1>9, <1>10, <2>4
    <3>2. page' = page + 1 /\ total' = Len(list) /\ raw' = q
      BY <1>1, <1>10, <3>1 DEF Reads
    <3>3. got' = got \o Passing(SubSeq(list, raw + 1, q))
      BY <1>6, <1>10 DEF data
    <3>4. PrefixIsKept' /\ got' = Passing(SubSeq(list, 1, q))
      BY <1>1, <3>1, <3>2, <3>3, ReadsOn
    <3>5. PagesAreRead' /\ TotalIsKnown' /\ PrefixIsSeen' /\ EndsInTime'
      BY <1>1, <1>2, <1>10, <3>2
         DEF PagesAreRead, TotalIsKnown, PrefixIsSeen, EndsInTime, PagesDone, Gapless
    <3>6. SizeIsMissing'
      <4>1. Limit' = Limit
        BY <1>1 DEF Limit, EffectiveLimit
      <4>2. CASE page = 0 /\ size = 0
        <5>1. Len(data) = q /\ size' = Missing(q) /\ q \in 0 .. Len(list)
          BY <1>1, <1>7, <1>10, <2>4, <3>1, <4>2
        <5>2. Len(got') = q
          <6>1. SubSeq(list, 1, q) \in Seq(Items) /\ Len(SubSeq(list, 1, q)) = q
            <7>1. list \in Seq(Items) /\ q \in 0 .. Len(list) /\ Len(list) \in q .. Len(list)
              BY <1>1, <5>1
            <7>2. QED
              BY <7>1, PrefixGrows
          <6>2. Passing(SubSeq(list, 1, q)) = SubSeq(list, 1, q)
            BY <1>1, <6>1, WhereAll DEF Passing
          <6>3. QED
            BY <3>4, <6>1, <6>2
        <5>3. CASE Limit = Unlimited
          <6>1. size' = Len(list) - q
            BY <5>1, <5>3 DEF Missing
          <6>2. size' > 0 \/ q = Len(list)
            BY <1>1, <5>1, <6>1
          <6>3. QED
            BY <1>1, <3>2, <6>2 DEF SizeIsMissing
        <5>4. CASE Limit # Unlimited
          <6>1. size' = SmallerOf(Len(list) - q, Limit - q)
            BY <5>1, <5>4 DEF Missing
          <6>2. size' > 0 \/ q = Len(list) \/ q >= Limit
            BY <1>1, <1>3, <5>1, <6>1 DEF SmallerOf
          <6>3. q >= Limit => Enough'
            BY <1>1, <1>2, <4>1, <5>2, <5>4 DEF Enough
          <6>4. QED
            BY <1>1, <3>2, <6>2, <6>3 DEF SizeIsMissing
        <5>5. QED
          BY <5>3, <5>4
      <4>3. CASE ~(page = 0 /\ size = 0)
        <5>1. size' > 0
          BY <1>9, <1>10, <2>4, <4>3
        <5>2. QED
          BY <5>1 DEF SizeIsMissing
      <4>4. QED
        BY <4>2, <4>3
    <3>7. QED
      BY <3>4, <3>5, <3>6 DEF NothingChanged
  <2>5. QED
    BY <1>1, <2>2, <2>3, <2>4 DEF PagesInv, NothingChanged
<1>11. CASE /\ page = 0 \/ (raw < Len(list) /\ (Limit = Unlimited \/ Limit > Len(got)))
            /\ page > 0 /\ data = << >> /\ Ends("error") /\ UNCHANGED size
  <2>1. changes # 0
    <3>1. SUFFICES ASSUME changes = 0 PROVE FALSE
      OBVIOUS
    <3>2. raw < q /\ Len(data) = q - raw /\ q \in Int
      BY <1>1, <1>4, <1>8, <1>9, <1>11, <3>1
    <3>3. QED
      BY <1>1, <1>11, <3>2
  <2>2. PagesTyped' /\ KeptOnce' /\ WithinCap'
    BY <1>1, <1>2, <1>11 DEF PagesTyped, PagesTypes, KeptOnce, WithinCap, Ends
  <2>3. NothingChanged'
    BY <2>1, <1>1 DEF NothingChanged
  <2>4. QED
    BY <2>2, <2>3 DEF PagesInv
<1>12. CASE /\ ~(page = 0 \/ (raw < Len(list) /\ (Limit = Unlimited \/ Limit > Len(got))))
            /\ Ends("done") /\ UNCHANGED size
  <2>1. /\ page > 0 /\ UNCHANGED <<ask, list, changes, page, size, total, raw, seen, got>>
        /\ status' = "done"
    BY <1>1, <1>12 DEF Ends
  <2>2. ASSUME changes = 0 PROVE raw = Len(list) \/ Enough
    <3>1. raw \in 0 .. Len(list) /\ Len(got) \in Nat
      BY <1>1, <1>7, <2>2
    <3>2. CASE ~(raw < Len(list))
      BY <1>1, <3>1, <3>2
    <3>3. CASE Limit # Unlimited /\ ~(Limit > Len(got))
      BY <1>1, <1>2, <1>3, <3>1, <3>3 DEF Enough
    <3>4. QED
      BY <1>12, <3>2, <3>3
  <2>3. QED
    BY <2>1, <2>2, <1>2, EndsKeep
<1>13. QED
  BY <1>10, <1>11, <1>12 DEF PulseStep, asked, q, data

\* The first of a page are the part of the list that begins where the page does.
LEMMA FirstOfPage ==
    ASSUME list \in Seq(Items), NEW r \in 0 .. Len(list), NEW q \in r .. Len(list), NEW c \in Nat
    PROVE  /\ First(c, SubSeq(list, r + 1, q)) = SubSeq(list, r + 1, r + SmallerOf(c, q - r))
           /\ SmallerOf(c, q - r) \in 0 .. (q - r)
<1> DEFINE data == SubSeq(list, r + 1, q)
           n == SmallerOf(c, q - r)
<1>1. /\ r \in Nat /\ q \in Nat /\ r <= q /\ q <= Len(list) /\ Len(list) \in Nat
      /\ r + 1 \in Nat \ {0}
  OBVIOUS
<1>2. n \in 0 .. (q - r)
  BY <1>1 DEF SmallerOf
<1>3. /\ data \in Seq(Items) /\ Len(data) = (IF r + 1 <= q THEN q - (r + 1) + 1 ELSE 0)
      /\ \A i \in 1 .. Len(data) : data[i] = list[r + 1 + i - 1]
  BY <1>1, Part
<1> HIDE DEF data
<1>4. Len(data) = q - r
  BY <1>1, <1>3
<1>5. First(c, data) = SubSeq(data, 1, n)
  BY <1>4 DEF First
<1> HIDE DEF n
<1>6. /\ SubSeq(data, 1, n) \in Seq(Items) /\ Len(SubSeq(data, 1, n)) = n
      /\ \A i \in 1 .. n : SubSeq(data, 1, n)[i] = data[i]
  <2>1. /\ SubSeq(data, 1, n) \in Seq(Items)
        /\ Len(SubSeq(data, 1, n)) = (IF 1 <= n THEN n - 1 + 1 ELSE 0)
        /\ \A i \in 1 .. Len(SubSeq(data, 1, n)) : SubSeq(data, 1, n)[i] = data[1 + i - 1]
    BY <1>1, <1>2, <1>3, <1>4, Part
  <2> DEFINE t == SubSeq(data, 1, n)
  <2> HIDE DEF t
  <2>2. t \in Seq(Items) /\ Len(t) = n /\ \A i \in 1 .. n : t[i] = data[i]
    BY <2>1, <1>1, <1>2 DEF t
  <2>3. QED
    BY <2>2 DEF t
<1>7. /\ SubSeq(list, r + 1, r + n) \in Seq(Items) /\ Len(SubSeq(list, r + 1, r + n)) = n
      /\ \A i \in 1 .. n : SubSeq(list, r + 1, r + n)[i] = list[r + 1 + i - 1]
  <2> DEFINE g == r + 1
             h == r + n
             t == SubSeq(list, g, h)
  <2>1. g \in Nat \ {0} /\ h \in Int /\ h <= Len(list)
    BY <1>1, <1>2
  <2> HIDE DEF g, h
  <2>2. /\ t \in Seq(Items)
        /\ Len(t) = (IF g <= h THEN h - g + 1 ELSE 0)
        /\ \A i \in 1 .. Len(t) : t[i] = list[g + i - 1]
    BY <2>1, Part
  <2> HIDE DEF t
  <2>3. Len(t) = n
    BY <2>2, <1>1, <1>2 DEF g, h
  <2>4. QED
    BY <2>2, <2>3 DEF t, g, h
<1>8. \A i \in 1 .. n : SubSeq(data, 1, n)[i] = SubSeq(list, r + 1, r + n)[i]
  <2>1. \A i \in 1 .. n : i \in 1 .. Len(data)
    BY <1>1, <1>2, <1>4
  <2>2. QED
    BY <2>1, <1>3, <1>6, <1>7
<1>9. SubSeq(data, 1, n) = SubSeq(list, r + 1, r + n)
  BY <1>6, <1>7, <1>8, SeqEqual
<1>10. QED
  BY <1>2, <1>5, <1>9 DEF data, n

\* What is cut off a list is its end.
LEMMA UptoFacts ==
    ASSUME NEW S, NEW s \in Seq(S), NEW n \in Nat
    PROVE  /\ Upto(n, s) \in Seq(S) /\ First(n, s) \in Seq(S)
           /\ Len(Upto(n, s)) = IF n = Unlimited THEN Len(s) ELSE SmallerOf(n, Len(s))
           /\ Len(First(n, s)) = SmallerOf(n, Len(s))
<1> DEFINE m == SmallerOf(n, Len(s))
<1>1. m \in Nat /\ m <= Len(s) /\ Len(s) \in Nat
  BY DEF SmallerOf
<1>2. First(n, s) = SubSeq(s, 1, m)
  BY DEF First
<1> HIDE DEF m
<1>3. SubSeq(s, 1, m) \in Seq(S) /\ Len(SubSeq(s, 1, m)) = m
  <2>1. /\ SubSeq(s, 1, m) \in Seq(S)
        /\ Len(SubSeq(s, 1, m)) = (IF 1 <= m THEN m - 1 + 1 ELSE 0)
    BY <1>1, Part
  <2>2. QED
    BY <2>1, <1>1
<1>4. First(n, s) \in Seq(S) /\ Len(First(n, s)) = SmallerOf(n, Len(s))
  BY <1>2, <1>3 DEF m
<1>5. QED
  BY <1>4 DEF Upto

\* A client of getPage keeps the invariant.
LEMMA ClientKeeps ==
    ASSUME PagesInv, ClientStep
    PROVE  PagesInv'
<1> DEFINE len == Len(list)
           most == MAX_PAGE_SIZE
           before == page * most
           r == SmallerOf(before, len)
           q == SmallerOf((page + 1) * most, len)
           data == Page(page + 1, most)
           kept == IF ask.cap = Unlimited THEN data ELSE First(ask.cap - before, data)
           answer == Upto(ask.limit, kept)
<1>1. /\ PagesTyped /\ ask.loop = "client" /\ status = "reading"
      /\ UNCHANGED <<ask, list, changes, size>>
      /\ page \in Nat /\ total \in Nat /\ raw \in Nat /\ got \in Seq(Items) /\ Len(got) \in Nat
      /\ list \in Seq(Items) /\ len \in Nat /\ ask.passing = Items
      /\ ask.limit \in Nat /\ ask.cap \in Nat
  BY DEF PagesInv, PagesTyped, PagesTypes, ClientStep
<1>2. ask.loop \notin Numbered /\ ask.loop \notin FlowRuns /\ ask.loop # "pulse"
  BY <1>1 DEF Numbered, FlowRuns
<1>3. /\ most \in Nat \ {0} /\ before \in Nat /\ (page + 1) * most = before + most
      /\ (page > 0 => before >= page) /\ (page = 0 => before = 0)
  <2>1. most \in Nat \ {0}
    BY <1>1, Limits
  <2> HIDE DEF most
  <2>2. before \in Nat /\ (page + 1) * most = before + most /\ (page = 0 => before = 0)
    BY <1>1, <2>1
  <2>3. before = page + page * (most - 1) /\ page * (most - 1) \in Nat
    BY <1>1, <2>1
  <2>4. before >= page
    BY <1>1, <2>2, <2>3
  <2>5. QED
    BY <2>1, <2>2, <2>4
<1>4. /\ data \in Seq(Items) /\ Len(data) \in Nat /\ Len(data) <= most
  BY <1>1, <1>3, PageTyped
<1>5. /\ data = SubSeq(list, r + 1, q) /\ r \in 0 .. len /\ q \in r .. len
  BY <1>1, <1>3, PageIs
<1>6. q = SmallerOf(before + most, len)
  BY <1>3
<1>7. PageExceedsLimit(page + 1) <=> ask.cap # Unlimited /\ before >= ask.cap
  BY <1>1 DEF PageExceedsLimit
<1>8. /\ GetPage(page + 1).data = answer
      /\ GetPage(page + 1).totalAvailable = Reach
  <2>1. (page + 1) - 1 = page
    BY <1>1
  <2>2. QED
    BY <2>1 DEF GetPage, Reach
<1> HIDE DEF most, before, r, q, data
<1>9. CASE /\ (page > 0 /\ Len(got) >= total) \/ PageExceedsLimit(page + 1) \/ page > len
           /\ Ends("done")
  <2>1. /\ UNCHANGED <<ask, list, changes, page, size, total, raw, seen, got>>
        /\ status' = "done"
    BY <1>1, <1>9 DEF Ends
  <2>2. ASSUME changes = 0, Gapless PROVE raw = Reach
    <3>1. /\ raw \in 0 .. len /\ got = Passing(Prefix) /\ raw = SmallerOf(before, Reach)
          /\ (page > 0 => total = Reach)
      BY <1>1, <2>2
         DEF PagesInv, NothingChanged, PrefixIsKept, PagesAreRead, TotalIsKnown, before, most
    <3>2. Reach \in Nat /\ Reach <= len /\ (ask.cap # Unlimited => Reach <= ask.cap)
      BY <1>1 DEF Reach, SmallerOf
    <3>3. Len(got) = raw
      <4>1. Prefix \in Seq(Items) /\ Len(Prefix) = raw
        <5>1. list \in Seq(Items) /\ raw \in 0 .. Len(list) /\ Len(list) \in raw .. Len(list)
          BY <1>1, <3>1
        <5>2. QED
          BY <5>1, PrefixGrows DEF Prefix
      <4>2. Passing(Prefix) = Prefix
        BY <1>1, <4>1, WhereAll DEF Passing
      <4>3. QED
        BY <3>1, <4>1, <4>2
    <3> HIDE DEF len
    <3>4. CASE page > 0 /\ Len(got) >= total
      BY <1>3, <3>1, <3>2, <3>3, <3>4 DEF SmallerOf
    <3>5. CASE PageExceedsLimit(page + 1)
      BY <1>1, <1>3, <1>7, <3>1, <3>2, <3>5 DEF SmallerOf
    <3>6. CASE page > len
      BY <1>1, <1>3, <3>1, <3>2, <3>6 DEF SmallerOf
    <3>7. QED
      BY <1>9, <3>4, <3>5, <3>6
  <2>3. QED
    BY <1>1, <2>1, <2>2, EndsKeep
<1>10. CASE /\ ~((page > 0 /\ Len(got) >= total) \/ PageExceedsLimit(page + 1) \/ page > len)
            /\ page' = page + 1
            /\ total' = GetPage(page + 1).totalAvailable
            /\ raw' = raw + Len(GetPage(page + 1).data)
            /\ got' = got \o GetPage(page + 1).data
            /\ UNCHANGED <<seen, status>>
  <2>1. ask.cap # Unlimited => ask.cap - before \in Nat \ {0}
    BY <1>1, <1>3, <1>7, <1>10
  <2>2. /\ kept \in Seq(Items) /\ Len(kept) \in Nat /\ Len(kept) <= most
        /\ (ask.cap # Unlimited => Len(kept) <= ask.cap - before)
    <3>1. CASE ask.cap = Unlimited
      BY <3>1, <1>4
    <3>2. CASE ask.cap # Unlimited
      <4>1. kept = First(ask.cap - before, data)
        BY <3>2
      <4>2. kept \in Seq(Items) /\ Len(kept) = SmallerOf(ask.cap - before, Len(data))
        BY <4>1, <2>1, <3>2, <1>4, UptoFacts
      <4>3. QED
        BY <4>2, <2>1, <3>2, <1>3, <1>4 DEF SmallerOf
    <3>3. QED
      BY <3>1, <3>2
  <2>3. (page + 1) * MAX_PAGE_SIZE = before + most
    BY <1>3 DEF most
  <2> HIDE DEF kept
  <2>4. /\ answer \in Seq(Items) /\ Len(answer) \in Nat /\ Len(answer) <= most
        /\ (ask.cap # Unlimited => Len(answer) <= ask.cap - before)
    <3>1. /\ answer \in Seq(Items)
          /\ Len(answer) = IF ask.limit = Unlimited THEN Len(kept)
                           ELSE SmallerOf(ask.limit, Len(kept))
      BY <1>1, <2>2, UptoFacts
    <3> DEFINE k == Len(kept)
               l == Len(answer)
    <3>2. /\ l = (IF ask.limit = Unlimited THEN k ELSE SmallerOf(ask.limit, k))
          /\ k \in Nat /\ k <= most /\ (ask.cap # Unlimited => k <= ask.cap - before)
      BY <3>1, <2>2
    <3> HIDE DEF k, l
    <3>3. l \in Nat /\ l <= k
      BY <1>1, <3>2 DEF SmallerOf
    <3>4. l \in Nat /\ l <= most /\ (ask.cap # Unlimited => l <= ask.cap - before)
      BY <1>1, <1>3, <2>1, <3>2, <3>3
    <3>5. QED
      BY <3>1, <3>4 DEF l
  <2>5. /\ page' = page + 1 /\ total' = Reach /\ raw' = raw + Len(answer)
        /\ got' = got \o answer
    BY <1>8, <1>10 DEF kept
  <2>6. answer = IF ask.limit = Unlimited THEN kept ELSE First(ask.limit, kept)
    BY DEF Upto
  <2> HIDE DEF answer
  <2>7. Reach \in Nat /\ Reach <= len /\ (ask.cap # Unlimited => Reach <= ask.cap)
    BY <1>1 DEF Reach, SmallerOf
  <2>8. PagesTyped'
    <3>1. page' \in Nat \ {0} /\ total' \in Nat /\ raw' \in Nat /\ got' \in Seq(Items)
      BY <1>1, <2>4, <2>5, <2>7
    <3>2. QED
      BY <1>1, <1>10, <3>1 DEF PagesTyped, PagesTypes
  <2>9. KeptOnce'
    BY <1>1, <1>2 DEF KeptOnce
  <2>10. WithinCap'
    <3>1. SUFFICES ASSUME ask.cap # Unlimited
                   PROVE  Len(got') <= (page + 1) * MAX_PAGE_SIZE /\ Len(got') <= ask.cap
      BY <1>1, <2>5 DEF WithinCap
    <3>2. Len(got) <= before
      BY <1>1, <3>1 DEF PagesInv, WithinCap, before, most
    <3>3. Len(got') = Len(got) + Len(answer)
      BY <1>1, <2>4, <2>5
    <3>4. Len(got') <= before + most /\ Len(got') <= ask.cap
      BY <1>1, <1>3, <2>1, <2>4, <3>1, <3>2, <3>3
    <3>5. QED
      BY <2>3, <3>4
  <2>11. ASSUME changes = 0 PROVE NothingChanged'
    <3>1. TotalIsKnown' /\ PrefixIsSeen' /\ SizeIsMissing' /\ EndsInTime'
      <4>1. Reach' = Reach
        BY <1>1 DEF Reach
      <4>2. QED
        BY <1>1, <1>2, <1>10, <2>5, <4>1
           DEF TotalIsKnown, PrefixIsSeen, SizeIsMissing, EndsInTime, PagesDone
    <3>2. ASSUME Gapless PROVE PrefixIsKept' /\ raw' = SmallerOf(before + most, Reach)
      <4>1. /\ raw \in 0 .. len /\ got = Passing(Prefix) /\ raw = SmallerOf(before, Reach)
        BY <1>1, <2>11, <3>2
           DEF PagesInv, NothingChanged, PrefixIsKept, PagesAreRead, before, most
      <4>2. ask.limit = Unlimited /\ answer = kept
        BY <1>1, <2>6, <3>2 DEF Gapless
      <4> DEFINE e == SmallerOf(before + most, Reach)
      <4>3. raw = r /\ e \in raw .. len /\ kept = SubSeq(list, raw + 1, e)
        <5>1. CASE ask.cap = Unlimited
          <6>1. Reach = len
            BY <5>1 DEF Reach
          <6>2. raw = r /\ e = q
            BY <4>1, <6>1, <1>6 DEF r
          <6>3. QED
            BY <6>2, <5>1, <1>5 DEF kept
        <5>2. CASE ask.cap # Unlimited
          <6> DEFINE n == SmallerOf(ask.cap - before, q - r)
          <6>1. First(ask.cap - before, data) = SubSeq(list, r + 1, r + n)
            <7>1. list \in Seq(Items) /\ r \in 0 .. Len(list) /\ q \in r .. Len(list)
              BY <1>1, <1>5
            <7>2. QED
              BY <7>1, <2>1, <5>2, <1>5, FirstOfPage
          <6>2. raw = r /\ r + n = e /\ e \in raw .. len
            <7>1. Reach = SmallerOf(len, ask.cap) /\ ask.cap - before \in Nat \ {0}
              BY <5>2, <2>1 DEF Reach
            <7>2. r = SmallerOf(before, len)
              BY DEF r
            <7> HIDE DEF len
            <7>3. raw = r
              BY <1>1, <1>3, <4>1, <7>1, <7>2 DEF SmallerOf
            <7>4. CASE before < len
              <8>1. r = before
                BY <7>2, <7>4 DEF SmallerOf
              <8>2. q = IF before + most < len THEN before + most ELSE len
                BY <1>6 DEF SmallerOf
              <8>3. Reach = IF len < ask.cap THEN len ELSE ask.cap
                BY <7>1 DEF SmallerOf
              <8>4. n = IF ask.cap - before < q - r THEN ask.cap - before ELSE q - r
                BY DEF SmallerOf
              <8>5. e = IF before + most < Reach THEN before + most ELSE Reach
                BY DEF SmallerOf
              <8> HIDE DEF n, e
              <8>6. r + n = e /\ e \in r .. len
                <9>1. q \in Nat /\ r \in Nat /\ Reach \in Nat /\ r < q /\ q <= len
                  BY <1>1, <1>3, <7>4, <8>1, <8>2, <8>3
                <9>2. CASE ask.cap < q
                  <10>1. Reach = ask.cap /\ n = ask.cap - before
                    BY <1>1, <1>3, <8>1, <8>3, <8>4, <9>1, <9>2
                  <10>2. e = ask.cap
                    BY <1>1, <1>3, <8>2, <8>5, <9>1, <9>2, <10>1
                  <10>3. QED
                    BY <1>1, <1>3, <7>1, <8>1, <9>1, <9>2, <10>1, <10>2
                <9>3. CASE ~(ask.cap < q)
                  <10>1. n = q - r
                    BY <1>1, <1>3, <8>1, <8>4, <9>1, <9>3
                  <10>2. e = q
                    BY <1>1, <1>3, <8>2, <8>3, <8>5, <9>1, <9>3
                  <10>3. QED
                    BY <9>1, <10>1, <10>2, <1>1
                <9>4. QED
                  BY <9>2, <9>3
              <8>7. QED
                BY <7>3, <8>6
            <7>5. CASE ~(before < len)
              <8>1. r = len /\ q = len
                BY <1>1, <1>3, <1>6, <7>2, <7>5 DEF SmallerOf
              <8>2. Reach = len
                BY <1>1, <1>3, <7>1, <7>5 DEF SmallerOf
              <8>3. n = 0 /\ e = len
                BY <1>1, <1>3, <7>1, <7>5, <8>1, <8>2 DEF SmallerOf
              <8> HIDE DEF n, e
              <8>4. QED
                BY <1>1, <7>3, <8>1, <8>3
            <7>6. QED
              BY <7>4, <7>5
          <6> HIDE DEF n, e
          <6>3. kept = SubSeq(list, r + 1, r + n)
            BY <6>1, <5>2 DEF kept
          <6>4. QED
            BY <6>2, <6>3
        <5>3. QED
          BY <5>1, <5>2
      <4> HIDE DEF e
      <4>4. Len(kept) = e - raw
        <5>1. list \in Seq(Items) /\ raw \in 0 .. Len(list) /\ e \in raw .. Len(list)
          BY <1>1, <4>1, <4>3
        <5>2. Len(SubSeq(list, raw + 1, e)) = e - raw
          BY <5>1, PrefixGrows
        <5>3. QED
          BY <4>3, <5>2
      <4>5. raw' = e
        BY <1>1, <2>5, <4>1, <4>2, <4>3, <4>4
      <4>6. Passing(kept) = kept
        BY <1>1, <2>2, WhereAll DEF Passing
      <4>7. got' = got \o Passing(SubSeq(list, raw + 1, e))
        BY <2>5, <4>2, <4>3, <4>6
      <4>8. raw \in 0 .. Len(list) /\ e \in raw .. Len(list)
        BY <4>1, <4>3
      <4>9. PrefixIsKept'
        BY <1>1, <4>1, <4>5, <4>7, <4>8, ReadsOn
      <4>10. QED
        BY <4>5, <4>9 DEF e
    <3>3. Gapless' = Gapless /\ Reach' = Reach
      BY <1>1 DEF Gapless, Reach
    <3>4. PrefixIsKept'
      BY <3>2, <3>3 DEF PrefixIsKept
    <3>5. PagesAreRead'
      BY <1>1, <1>2, <2>3, <2>5, <3>2, <3>3 DEF PagesAreRead
    <3>6. QED
      BY <3>1, <3>4, <3>5 DEF NothingChanged
  <2>12. QED
    BY <1>1, <2>8, <2>9, <2>10, <2>11 DEF PagesInv, NothingChanged
<1>11. QED
  BY <1>9, <1>10 DEF ClientStep

\* The site's list keeps being one of items, without repetition.
LEMMA ListChangesKeep ==
    ASSUME PagesInv, ListChanges
    PROVE  PagesInv'
<1>1. /\ PagesTyped /\ list \in Seq(Items) /\ IsInjective(list) /\ Len(list) \in Nat
      /\ changes \in 0 .. MaxChanges /\ changes' = changes + 1 /\ changes < MaxChanges
      /\ MaxChanges \in Nat
      /\ UNCHANGED <<ask, page, size, total, raw, seen, got, status>>
  BY PaginateAssumption DEF PagesInv, PagesTyped, PagesTypes, ListChanges
<1>2. ASSUME NEW i \in 1 .. Len(list)
      PROVE  /\ RemoveAt(list, i) \in Seq(Items) /\ IsInjective(RemoveAt(list, i))
             /\ list[i] \notin Range(RemoveAt(list, i))
  <2> DEFINE s == SubSeq(list, 1, i - 1)
             t == SubSeq(list, i + 1, Len(list))
  <2>1. /\ s \in Seq(Items) /\ IsInjective(s)
        /\ DOMAIN s = 1 .. Len(s) /\ Len(s) \in Nat
        /\ \A j \in 1 .. Len(s) : s[j] = list[1 + j - 1] /\ 1 + j - 1 \in 1 .. (i - 1)
    <3>1. i - 1 \in Int /\ i - 1 <= Len(list)
      BY <1>1
    <3>2. QED
      BY <1>1, <3>1, Part
  <2>2. /\ t \in Seq(Items) /\ IsInjective(t)
        /\ DOMAIN t = 1 .. Len(t) /\ Len(t) \in Nat
        /\ \A j \in 1 .. Len(t) : /\ t[j] = list[i + 1 + j - 1]
                                  /\ i + 1 + j - 1 \in (i + 1) .. Len(list)
    <3> DEFINE g == i + 1
    <3>1. g \in Nat \ {0} /\ Len(list) <= Len(list)
      BY <1>1
    <3> HIDE DEF g
    <3>2. /\ SubSeq(list, g, Len(list)) \in Seq(Items) /\ IsInjective(SubSeq(list, g, Len(list)))
          /\ DOMAIN SubSeq(list, g, Len(list)) = 1 .. Len(SubSeq(list, g, Len(list)))
          /\ Len(SubSeq(list, g, Len(list))) \in Nat
          /\ \A j \in 1 .. Len(SubSeq(list, g, Len(list))) :
                 /\ SubSeq(list, g, Len(list))[j] = list[g + j - 1]
                 /\ g + j - 1 \in g .. Len(list)
      BY <1>1, <3>1, Part
    <3>3. QED
      BY <3>2 DEF g
  <2> HIDE DEF s, t
  <2>3. ASSUME NEW x \in Range(s) PROVE \E j \in 1 .. (i - 1) : x = list[j]
    <3>1. PICK j \in 1 .. Len(s) : x = s[j]
      BY <2>1 DEF Range
    <3>2. x = list[1 + j - 1] /\ 1 + j - 1 \in 1 .. (i - 1)
      BY <2>1, <3>1
    <3>3. QED
      BY <3>2
  <2>4. ASSUME NEW x \in Range(t) PROVE \E j \in (i + 1) .. Len(list) : x = list[j]
    <3>1. PICK j \in 1 .. Len(t) : x = t[j]
      BY <2>2 DEF Range
    <3>2. x = list[i + 1 + j - 1] /\ i + 1 + j - 1 \in (i + 1) .. Len(list)
      BY <2>2, <3>1
    <3>3. QED
      BY <3>2
  <2>5. \A g, h \in 1 .. Len(list) : list[g] = list[h] => g = h
    BY <1>1 DEF IsInjective
  <2>6. Range(s) \cap Range(t) = {} /\ list[i] \notin Range(s) /\ list[i] \notin Range(t)
    <3>1. SUFFICES ASSUME NEW x PROVE /\ ~(x \in Range(s) /\ x \in Range(t))
                                      /\ x \in Range(s) \cup Range(t) => x # list[i]
      OBVIOUS
    <3>2. ASSUME x \in Range(s), x \in Range(t) PROVE FALSE
      <4>1. PICK g \in 1 .. (i - 1) : x = list[g]
        BY <3>2, <2>3
      <4>2. PICK h \in (i + 1) .. Len(list) : x = list[h]
        BY <3>2, <2>4
      <4>3. g \in 1 .. Len(list) /\ h \in 1 .. Len(list) /\ g # h
        BY <1>1
      <4>4. QED
        BY <4>1, <4>2, <4>3, <2>5
    <3>3. ASSUME x \in Range(s) PROVE x # list[i]
      <4>1. PICK g \in 1 .. (i - 1) : x = list[g]
        BY <3>3, <2>3
      <4>2. g \in 1 .. Len(list) /\ g # i
        BY <1>1
      <4>3. QED
        BY <4>1, <4>2, <2>5
    <3>4. ASSUME x \in Range(t) PROVE x # list[i]
      <4>1. PICK h \in (i + 1) .. Len(list) : x = list[h]
        BY <3>4, <2>4
      <4>2. h \in 1 .. Len(list) /\ h # i
        BY <1>1
      <4>3. QED
        BY <4>1, <4>2, <2>5
    <3>5. QED
      BY <3>2, <3>3, <3>4
  <2>7. RemoveAt(list, i) = s \o t
    BY DEF RemoveAt, s, t
  <2>8. s \o t \in Seq(Items) /\ Range(s \o t) = Range(s) \cup Range(t)
    BY <2>1, <2>2, RangeConcatenation
  <2>9. IsInjective(s \o t)
    BY <2>1, <2>2, <2>6, InjectiveConcat
  <2>10. QED
    BY <2>6, <2>7, <2>8, <2>9
<1>3. ASSUME NEW x \in Items, NEW s \in Seq(Items), IsInjective(s), x \notin Range(s)
      PROVE  <<x>> \o s \in Seq(Items) /\ IsInjective(<<x>> \o s)
  <2> DEFINE o == <<x>>
  <2>1. o \in Seq(Items) /\ IsInjective(o) /\ Range(o) = {x}
    BY DEF IsInjective, Range
  <2> HIDE DEF o
  <2>2. Range(o) \cap Range(s) = {}
    BY <2>1, <1>3
  <2>3. o \o s \in Seq(Items) /\ IsInjective(o \o s)
    BY <2>1, <2>2, <1>3, InjectiveConcat
  <2>4. QED
    BY <2>3 DEF o
<1>4. list' \in Seq(Items) /\ IsInjective(list')
  <2>1. CASE \E i \in 1 .. Len(list) : list' = RemoveAt(list, i)
    BY <2>1, <1>2
  <2>2. CASE \E i \in Items \ Range(list) : list' = <<i>> \o list
    BY <2>2, <1>1, <1>3
  <2>3. CASE \E i \in 1 .. Len(list) : list' = <<list[i]>> \o RemoveAt(list, i)
    <3>1. PICK i \in 1 .. Len(list) : list' = <<list[i]>> \o RemoveAt(list, i)
      BY <2>3
    <3>2. list[i] \in Items
      BY <1>1
    <3>3. QED
      BY <3>1, <3>2, <1>2, <1>3
  <2>4. QED
    BY <2>1, <2>2, <2>3 DEF ListChanges
<1>5. changes' \in 0 .. MaxChanges /\ changes' # 0
  BY <1>1
<1>6. PagesTyped'
  BY <1>1, <1>4, <1>5 DEF PagesTyped, PagesTypes
<1>7. KeptOnce' /\ WithinCap'
  BY <1>1 DEF PagesInv, KeptOnce, WithinCap
<1>8. NothingChanged'
  BY <1>5 DEF NothingChanged
<1>9. QED
  BY <1>6, <1>7, <1>8 DEF PagesInv

\* Before the first page, the prefix read is empty.
LEMMA PagesStart == PagesInit => PagesInv
<1> SUFFICES ASSUME PagesInit
             PROVE  PagesInv
  OBVIOUS
<1>1. /\ ask \in [loop : Loops, size : 0 .. (MAX_PAGE_SIZE + 1), limit : 0 .. MaxLimit,
                  cap : 0 .. MaxLimit, passing : {Items} \cup Filters]
      /\ ask.loop \in {"paginate", "pulse", "client"} => ask.passing = Items
      /\ list \in Seq(Items) /\ IsInjective(list) /\ Len(list) \in Nat
      /\ size = ask.size /\ changes = 0 /\ page = 0 /\ total = 0 /\ raw = 0
      /\ seen = {} /\ got = << >> /\ status = "reading"
  BY PaginateAssumption DEF PagesInit
<1>2. /\ MAX_PAGE_SIZE \in Nat \ {0} /\ ServerPage \in Nat \ {0} /\ DefaultLimit \in Nat \ {0}
      /\ MaxLimit \in Nat /\ MaxChanges \in Nat /\ {Items} \cup Filters \subseteq SUBSET Items
  BY PaginateAssumption
<1>3. /\ ask \in [loop : Loops, size : Nat, limit : Nat, cap : Nat, passing : SUBSET Items]
      /\ ask.size \in Nat
  BY <1>1, <1>2
<1>4. PagesTyped
  BY <1>1, <1>2, <1>3 DEF PagesTyped, PagesTypes
<1>5. Range(<< >>) = {} /\ IsInjective(<< >>)
  BY DEF Range, IsInjective
<1>6. KeptOnce /\ WithinCap
  <2>1. 0 * MAX_PAGE_SIZE = 0 /\ ask.cap \in Nat
    BY <1>2, <1>3
  <2>2. QED
    BY <1>1, <1>5, <2>1 DEF KeptOnce, WithinCap
<1>7. Prefix = << >>
  BY <1>1, SubSeqEmpty DEF Prefix
<1>8. PrefixIsKept /\ PrefixIsSeen
  <2>1. Passing(<< >>) = << >>
    <3>1. << >> \in Seq(Items) /\ Len(<< >>) = 0
      OBVIOUS
    <3>2. /\ Where(<< >>, ask.passing) \in Seq(Items)
          /\ Len(Where(<< >>, ask.passing)) \in Nat
          /\ Len(Where(<< >>, ask.passing)) <= Len(<< >>)
      BY <3>1, WhereFacts
    <3> DEFINE w == Where(<< >>, ask.passing)
    <3> HIDE DEF w
    <3>3. w \in Seq(Items) /\ Len(w) = 0
      BY <3>1, <3>2 DEF w
    <3>4. w = << >>
      BY <3>3
    <3>5. QED
      BY <3>4 DEF w, Passing
  <2>2. QED
    BY <1>1, <1>5, <1>7, <2>1 DEF PrefixIsKept, PrefixIsSeen
<1>9. PagesAreRead
  <2>1. Reach \in Nat /\ ask.cap \in Nat
    BY <1>1, <1>3 DEF Reach, SmallerOf
  <2>2. ask.loop \in Numbered => 0 * PageSize = 0
    BY <1>4, Limits
  <2>3. 0 * MAX_PAGE_SIZE = 0
    BY <1>2
  <2>4. SmallerOf(0, Len(list)) = 0 /\ SmallerOf(0, Reach) = 0
    BY <1>1, <2>1 DEF SmallerOf
  <2>5. QED
    BY <1>1, <2>2, <2>3, <2>4 DEF PagesAreRead
<1>10. TotalIsKnown /\ SizeIsMissing /\ EndsInTime
  BY <1>1 DEF TotalIsKnown, SizeIsMissing, EndsInTime, PagesDone
<1>11. QED
  BY <1>4, <1>6, <1>8, <1>9, <1>10 DEF PagesInv, NothingChanged

\* Every step keeps the invariant.
LEMMA PagesStep == PagesInv /\ [PagesNext]_pagesVars => PagesInv'
<1> SUFFICES ASSUME PagesInv, [PagesNext]_pagesVars
             PROVE  PagesInv'
  OBVIOUS
<1>1. CASE PaginateStep
  BY <1>1, PaginateKeeps
<1>2. CASE FlowRunsStep
  BY <1>2, FlowRunsKeep
<1>3. CASE PulseStep
  BY <1>3, PulseKeeps
<1>4. CASE ClientStep
  BY <1>4, ClientKeeps
<1>5. CASE ListChanges
  BY <1>5, ListChangesKeep
<1>6. CASE UNCHANGED pagesVars
  <2>1. UNCHANGED <<ask, list, changes, page, size, total, raw, seen, got, status>>
    BY <1>6 DEF pagesVars
  <2>2. PagesTyped' /\ KeptOnce' /\ WithinCap'
    BY <2>1 DEF PagesInv, PagesTyped, PagesTypes, KeptOnce, WithinCap
  <2>3. /\ Enough' = Enough /\ Reach' = Reach /\ Gapless' = Gapless
        /\ Prefix' = Prefix /\ PageSize' = PageSize
    BY <2>1 DEF Enough, Reach, Gapless, Limit, EffectiveLimit, Prefix, PageSize
  <2>4. NothingChanged'
    <3>1. PrefixIsKept => PrefixIsKept'
      BY <2>1, <2>3 DEF PrefixIsKept, Passing
    <3>2. (PagesAreRead => PagesAreRead') /\ (TotalIsKnown => TotalIsKnown')
      BY <2>1, <2>3 DEF PagesAreRead, TotalIsKnown
    <3>3. (PrefixIsSeen => PrefixIsSeen') /\ (SizeIsMissing => SizeIsMissing')
      BY <2>1, <2>3 DEF PrefixIsSeen, SizeIsMissing
    <3>4. EndsInTime => EndsInTime'
      BY <2>1, <2>3 DEF EndsInTime, PagesDone
    <3>5. QED
      BY <2>1, <3>1, <3>2, <3>3, <3>4 DEF PagesInv, NothingChanged
  <2>5. QED
    BY <2>2, <2>4 DEF PagesInv
<1>7. QED
  BY <1>1, <1>2, <1>3, <1>4, <1>5, <1>6 DEF PagesNext

\* The invariant holds throughout.
LEMMA PagesInvHolds == PagesSpec => []PagesInv
BY PagesStart, PagesStep, PTL DEF PagesSpec

-----------------------------------------------------------------------------
(* What a loop returns.                                                    *)

\* Sorting leaves the number of runs.
LEMMA NewestIsAsLong ==
    ASSUME NEW S, NEW s \in Seq(S)
    PROVE  Len(Newest(s)) = Len(s) /\ Newest(s) = [k \in 1 .. Len(s) |-> Newest(s)[k]]
<1> DEFINE e(k) == CHOOSE i \in Range(s) : Cardinality({j \in Range(s) : j > i}) = k - 1
<1>1. Newest(s) = [k \in 1 .. Len(s) |-> e(k)]
  BY DEF Newest
<1> HIDE DEF e
<1>2. Len(s) \in Nat
  OBVIOUS
<1>3. Len([k \in 1 .. Len(s) |-> e(k)]) = Len(s)
  BY <1>2
<1>4. QED
  BY <1>1, <1>3

\* A result is as long as what was kept, up to the limit.
LEMMA ResultLength ==
    ASSUME PagesTyped
    PROVE  Len(Result) = IF ask.loop = "client" \/ Limit = Unlimited THEN Len(got)
                         ELSE SmallerOf(Limit, Len(got))
<1>1. got \in Seq(Items) /\ Limit \in Nat /\ Len(got) \in Nat
  BY Limits DEF PagesTyped, PagesTypes
<1>2. Len(Newest(got)) = Len(got) /\ Newest(got) \in Seq({Newest(got)[k] : k \in 1 .. Len(got)})
  <2>1. Len(Newest(got)) = Len(got) /\ Newest(got) = [k \in 1 .. Len(got) |-> Newest(got)[k]]
    BY <1>1, NewestIsAsLong
  <2> DEFINE n == Newest(got)
             T == {n[k] : k \in 1 .. Len(got)}
  <2> HIDE DEF n
  <2>2. n = [k \in 1 .. Len(got) |-> n[k]]
    BY <2>1 DEF n
  <2>3. \A k \in 1 .. Len(got) : n[k] \in T
    OBVIOUS
  <2> HIDE DEF T
  <2>4. n \in Seq(T)
    BY <1>1, <2>2, <2>3
  <2>5. QED
    BY <2>1, <2>4 DEF n, T
<1>3. /\ Len(Upto(Limit, got)) =
             IF Limit = Unlimited THEN Len(got) ELSE SmallerOf(Limit, Len(got))
      /\ Len(Upto(Limit, Newest(got))) =
             IF Limit = Unlimited THEN Len(got) ELSE SmallerOf(Limit, Len(got))
  <2>1. Len(Upto(Limit, got)) =
             IF Limit = Unlimited THEN Len(got) ELSE SmallerOf(Limit, Len(got))
    BY <1>1, UptoFacts
  <2> DEFINE n == Newest(got)
             T == {n[k] : k \in 1 .. Len(got)}
  <2>2. n \in Seq(T) /\ Len(n) = Len(got)
    BY <1>2
  <2> HIDE DEF n, T
  <2>3. Len(Upto(Limit, n)) = IF Limit = Unlimited THEN Len(n) ELSE SmallerOf(Limit, Len(n))
    BY <1>1, <2>2, UptoFacts
  <2>4. QED
    BY <2>1, <2>2, <2>3 DEF n
<1>4. QED
  BY <1>3 DEF Result

\* What is cut to n of a list that goes on.
LEMMA UptoOfLonger ==
    ASSUME NEW S, NEW s \in Seq(S), NEW t \in Seq(S), NEW n \in Nat \ {0}, n <= Len(s)
    PROVE  Upto(n, s \o t) = Upto(n, s)
<1>1. /\ Len(s) \in Nat /\ Len(t) \in Nat /\ s \o t \in Seq(S)
      /\ Len(s \o t) = Len(s) + Len(t)
  BY ConcatProperties
<1>2. SmallerOf(n, Len(s)) = n /\ SmallerOf(n, Len(s \o t)) = n
  BY <1>1 DEF SmallerOf
<1>3. 1 \in 1 .. Len(s) /\ n \in 1 .. Len(s)
  BY <1>1
<1>4. SubSeq(s \o t, 1, n) = SubSeq(s, 1, n)
  BY <1>3, SubSeqOfConcat1
<1>5. QED
  BY <1>2, <1>4 DEF Upto, First, Unlimited

\* A list that has not changed: what has been kept is all that is wanted, or enough of it.
LEMMA KeptOfWanted ==
    ASSUME PagesInv, PagesDone, changes = 0, ask.loop # "client"
    PROVE  /\ Wanted \in Seq(Items) /\ Len(Wanted) \in Nat /\ Len(got) \in Nat
           /\ total = Len(list)
           /\ \/ got = Wanted
              \/ Enough /\ Len(got) <= Len(Wanted) /\ Upto(Limit, Wanted) = Upto(Limit, got)
<1>1. /\ PagesTyped /\ list \in Seq(Items) /\ Len(list) \in Nat /\ got \in Seq(Items)
      /\ Len(got) \in Nat /\ Limit \in Nat
  BY Limits DEF PagesInv, PagesTyped, PagesTypes
<1>2. /\ raw \in 0 .. Len(list) /\ got = Passing(Prefix) /\ page > 0 /\ total = Len(list)
      /\ raw = Len(list) \/ Enough
  BY DEF PagesInv, NothingChanged, PrefixIsKept, TotalIsKnown, EndsInTime, Gapless
<1>3. Wanted \in Seq(Items) /\ Len(Wanted) \in Nat
  BY <1>1, WhereFacts DEF Wanted, Passing
<1> DEFINE rest == SubSeq(list, raw + 1, Len(list))
<1>4. /\ list = Prefix \o rest /\ Prefix \in Seq(Items) /\ rest \in Seq(Items)
  <2>1. list \in Seq(Items) /\ raw \in 0 .. Len(list) /\ Len(list) \in raw .. Len(list)
    BY <1>1, <1>2
  <2>2. /\ SubSeq(list, 1, Len(list)) = Prefix \o rest
        /\ Prefix \in Seq(Items) /\ rest \in Seq(Items)
    <3> DEFINE n == Len(list)
    <3>1. list \in Seq(Items) /\ raw \in 0 .. Len(list) /\ n \in raw .. Len(list)
      BY <2>1
    <3> HIDE DEF n
    <3>2. /\ SubSeq(list, 1, n) = SubSeq(list, 1, raw) \o SubSeq(list, raw + 1, n)
          /\ SubSeq(list, 1, raw) \in Seq(Items) /\ SubSeq(list, raw + 1, n) \in Seq(Items)
      BY <3>1, PrefixGrows
    <3>3. QED
      BY <3>2 DEF n, Prefix
  <2>3. SubSeq(list, 1, Len(list)) = list
    BY <1>1, SubSeqFull
  <2>4. QED
    BY <2>2, <2>3
<1>5. CASE raw = Len(list)
  <2>1. Prefix = list
    BY <1>1, <1>5, SubSeqFull DEF Prefix
  <2>2. got = Wanted
    BY <1>2, <2>1 DEF Wanted
  <2>3. QED
    BY <1>1, <1>2, <1>3, <2>2
<1>6. CASE Enough
  <2> HIDE DEF rest
  <2> DEFINE others == Where(rest, ask.passing)
  <2>1. Where(Prefix \o rest, ask.passing) = Where(Prefix, ask.passing) \o others
    BY <1>4, WhereConcat
  <2>2. Wanted = got \o others /\ others \in Seq(Items) /\ Len(others) \in Nat
    <3>1. others \in Seq(Items) /\ Len(others) \in Nat
      BY <1>4, WhereFacts
    <3> HIDE DEF others
    <3>2. Where(list, ask.passing) = got \o others
      BY <1>2, <1>4, <2>1 DEF Passing
    <3>3. QED
      BY <3>1, <3>2 DEF Wanted, Passing
  <2> HIDE DEF others
  <2>3. Len(Wanted) = Len(got) + Len(others)
    BY <1>1, <2>2, ConcatProperties
  <2>4. Limit \in Nat \ {0} /\ Limit <= Len(got)
    BY <1>1, <1>6 DEF Enough, Unlimited
  <2>5. Upto(Limit, Wanted) = Upto(Limit, got)
    BY <1>1, <2>2, <2>4, UptoOfLonger
  <2>6. QED
    BY <1>1, <1>2, <1>3, <1>6, <2>2, <2>3, <2>5
<1>7. QED
  BY <1>2, <1>5, <1>6

\* A client that asks for whole pages of a list that has not changed has all that the
\* configured limit lets it have.
LEMMA ClientHasAll ==
    ASSUME PagesInv, PagesDone, changes = 0, ask.loop = "client", ask.limit = Unlimited
    PROVE  got = Upto(ask.cap, list)
<1>1. /\ list \in Seq(Items) /\ Len(list) \in Nat /\ ask.cap \in Nat /\ ask.passing = Items
  BY DEF PagesInv, PagesTyped, PagesTypes
<1>2. /\ raw \in 0 .. Len(list) /\ got = Passing(Prefix) /\ raw = Reach
  BY DEF PagesInv, NothingChanged, PrefixIsKept, EndsInTime, Gapless
<1>3. Prefix \in Seq(Items)
  <2>1. list \in Seq(Items) /\ raw \in 0 .. Len(list) /\ Len(list) \in raw .. Len(list)
    BY <1>1, <1>2
  <2>2. QED
    BY <2>1, PrefixGrows DEF Prefix
<1>4. got = SubSeq(list, 1, Reach)
  <2>1. Passing(Prefix) = Prefix
    BY <1>1, <1>3, WhereAll DEF Passing
  <2>2. QED
    BY <1>2, <2>1 DEF Prefix
<1>5. CASE ask.cap = Unlimited
  BY <1>1, <1>4, <1>5, SubSeqFull DEF Reach, Upto
<1>6. CASE ask.cap # Unlimited
  <2>1. SmallerOf(Len(list), ask.cap) = SmallerOf(ask.cap, Len(list))
    BY <1>1 DEF SmallerOf
  <2>2. QED
    BY <1>4, <1>6, <2>1 DEF Reach, Upto, First
<1>7. QED
  BY <1>5, <1>6

\* The invariant is what the callers of the loops rely on.
LEMMA InvIsHonest == PagesInv => PagesAreHonest
<1> SUFFICES ASSUME PagesInv
             PROVE  PagesAreHonest
  OBVIOUS
<1>1. /\ PagesTyped /\ got \in Seq(Items) /\ Len(got) \in Nat /\ Limit \in Nat
      /\ ask.limit \in Nat /\ ask.cap \in Nat
  BY Limits DEF PagesInv, PagesTyped, PagesTypes
<1>2. Len(Result) = IF ask.loop = "client" \/ Limit = Unlimited THEN Len(got)
                    ELSE SmallerOf(Limit, Len(got))
  BY <1>1, ResultLength
<1>3. PagesDone /\ ask.loop # "client" /\ Limit # Unlimited => Len(Result) <= Limit
  BY <1>1, <1>2 DEF SmallerOf
<1>4. PagesDone /\ ask.loop = "client" /\ ask.cap # Unlimited => Len(Result) <= ask.cap
  BY <1>2 DEF PagesInv, WithinCap
<1>5. ask.loop \in FlowRuns => IsInjective(got)
  BY DEF PagesInv, KeptOnce
<1>6. changes = 0 => status # "error"
  BY DEF PagesInv, NothingChanged, EndsInTime
<1>7. ASSUME PagesDone, changes = 0, ask.loop \notin {"client", "flow runs by recency"}
      PROVE  Result = Upto(Limit, Wanted)
  <2>1. Result = Upto(Limit, got)
    BY <1>7 DEF Result
  <2>2. QED
    BY <1>7, <2>1, KeptOfWanted
<1>8. ASSUME PagesDone, changes = 0, ask.loop = "client", ask.limit = Unlimited
      PROVE  Result = Upto(ask.cap, list)
  BY <1>8, ClientHasAll DEF Result
<1>9. ASSUME PagesDone, changes = 0, ask.loop \notin {"pulse", "client"}
      PROVE  Truncated = (Len(Wanted) > Len(Result))
  <2>1. /\ Len(Wanted) \in Nat /\ total = Len(list)
        /\ got = Wanted \/ (Enough /\ Len(got) <= Len(Wanted))
    BY <1>9, KeptOfWanted
  <2>2. CASE ask.loop = "paginate"
    <3>1. list \in Seq(Items) /\ ask.passing = Items
      BY <1>1, <2>2 DEF PagesTyped, PagesTypes
    <3>2. Wanted = list
      BY <3>1, WhereAll DEF Wanted, Passing
    <3>3. QED
      BY <2>1, <2>2, <3>2 DEF Truncated
  <2>3. CASE ask.loop # "paginate"
    <3>1. Truncated = (Len(got) > Len(Result))
      BY <2>3 DEF Truncated
    <3>2. CASE got = Wanted
      BY <3>1, <3>2
    <3>3. CASE Enough /\ Len(got) <= Len(Wanted)
      <4>1. Len(got) >= Limit + 1 /\ Limit # Unlimited
        <5>1. ask.loop \in {"filtered"} \cup FlowRuns
          BY <1>1, <1>9, <2>3 DEF PagesTyped, PagesTypes, Loops, FlowRuns
        <5>2. QED
          BY <3>3, <5>1 DEF Enough
      <4>2. Len(Result) = Limit
        BY <1>1, <1>2, <1>9, <4>1 DEF SmallerOf
      <4>3. Len(got) > Len(Result) /\ Len(Wanted) > Len(Result)
        BY <1>1, <2>1, <3>3, <4>1, <4>2
      <4>4. QED
        BY <3>1, <4>3
    <3>4. QED
      BY <2>1, <3>2, <3>3
  <2>4. QED
    BY <2>2, <2>3
<1>10. ASSUME Reason = "admin-cap"
       PROVE  EffectiveLimit(ask.limit + 1, ask.cap) = Limit \/ ask.limit = Unlimited
  <2>1. Limit = ask.cap /\ ask.cap # Unlimited /\ (ask.limit = Unlimited \/ ask.limit > ask.cap)
    BY <1>10 DEF Reason
  <2>2. QED
    BY <1>1, <2>1 DEF EffectiveLimit, Unlimited, SmallerOf
<1>11. QED
  BY <1>3, <1>4, <1>5, <1>6, <1>7, <1>8, <1>9, <1>10 DEF PagesAreHonest

\* Pages are numbers, lists have items of the site, and a loop is reading, done or failed.
THEOREM PagesTypesHold == PagesSpec => []PagesTypes
<1>1. PagesInv => PagesTypes
  BY DEF PagesInv, PagesTyped
<1>2. QED
  BY <1>1, PagesInvHolds, PTL

\* However long a list is, whatever passes the filter and however it changes between two
\* pages: no limit is exceeded and no flow run listed twice; a list that does not change is
\* read without an error and to the limit exactly, and what is said of more is so
\* (paginate.ts:76-165, :178-260, :306-369; listFlowRuns.ts:421-480).
THEOREM PagesStayHonest == PagesSpec => []PagesAreHonest
BY InvIsHonest, PagesInvHolds, PTL

=============================================================================
