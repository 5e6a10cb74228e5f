---------------------------- MODULE PluginProofs ----------------------------
(***************************************************************************)
(* The lists of search providers hold what the enabled plugins offer, for  *)
(* any plugins, arrays of providers and shard counts.  What all proofs     *)
(* about Desk need to know of sets of numbers and of sequences comes first.*)
(***************************************************************************)
EXTENDS Desk, Integers, FiniteSetTheorems, SequenceTheorems, WellFoundedInduction, TLAPS

-----------------------------------------------------------------------------
(* Sets of numbers, and sequences.                                         *)

LEMMA LeastNat == \A T \in SUBSET Nat : T # {} => \E x \in T : \A y \in T : x <= y
<1> DEFINE R == OpToRel(<, Nat)
<1>1. IsWellFoundedOn(R, Nat)
  BY NatLessThanWellFounded, Zenon
<1> SUFFICES ASSUME NEW T \in SUBSET Nat, T # {} PROVE \E x \in T : \A y \in T : x <= y
  OBVIOUS
<1>2. \E x \in T : \A y \in T : ~ (<<y, x>> \in R)
  <2> HIDE DEF R
  <2> QED BY <1>1, WFMin
<1>3. \A x, y \in Nat : <<y, x>> \in R <=> y < x
  BY DEF OpToRel
<1>4. \A x, y \in Nat : ~ (y < x) => x <= y
  OBVIOUS
<1> QED BY <1>2, <1>3, <1>4, Zenon

\* Induction, for a set of numbers in place of a predicate.
LEMMA Induct ==
    ASSUME NEW S, 0 \in S, \A n \in Nat : n \in S => n + 1 \in S
    PROVE  \A n \in Nat : n \in S
<1> DEFINE T == {n \in Nat : n \notin S}
<1> SUFFICES ASSUME T # {} PROVE FALSE
  OBVIOUS
<1>1. T \in SUBSET Nat
  OBVIOUS
<1>2. PICK x \in T : \A y \in T : x <= y
  <2> HIDE DEF T
  <2> QED BY <1>1, LeastNat
<1>3. x # 0 /\ x - 1 \in Nat /\ ~ (x <= x - 1)
  OBVIOUS
<1>4. x - 1 \in S
  BY <1>2, <1>3
<1> QED BY <1>3, <1>4

LEMMA GreatestNat ==
    ASSUME NEW T \in SUBSET Nat, T # {}, NEW n \in Nat, \A x \in T : x <= n
    PROVE  \E x \in T : \A y \in T : y <= x
<1> DEFINE U == {n - x : x \in T}
<1>0. \A x \in T : x \in Nat /\ n - x \in Nat
  OBVIOUS
<1>1. U \in SUBSET Nat /\ U # {}
  BY <1>0
<1>2. PICK u \in U : \A w \in U : u <= w
  <2> HIDE DEF U
  <2> QED BY <1>1, LeastNat
<1>3. PICK x \in T : u = n - x
  OBVIOUS
<1>4. \A y \in T : n - x <= n - y
  BY <1>2, <1>3
<1> QED BY <1>0, <1>4

LEMMA Counted ==
    ASSUME NEW n \in Nat
    PROVE  IsFiniteSet(1 .. n) /\ Cardinality(1 .. n) = n
<1>1. 1 \in Int /\ n \in Int
  OBVIOUS
<1>2. IsFiniteSet(1 .. n) /\ Cardinality(1 .. n) = IF 1 > n THEN 0 ELSE n - 1 + 1
  BY <1>1, FS_Interval
<1> QED BY <1>2

\* A finite set of numbers has an element with any smaller number of elements below.
LEMMA ElementOfRank ==
    ASSUME NEW S \in SUBSET Nat, IsFiniteSet(S), NEW c \in Nat, c < Cardinality(S)
    PROVE  \E i \in S : Cardinality({j \in S : j < i}) = c
<1> DEFINE Below(i) == {j \in S : j < i}
           R == {k \in Nat : k < Cardinality(S) => \E i \in S : Cardinality(Below(i)) = k}
<1>0. \A i \in S : i \in Nat
  OBVIOUS
<1>1. Cardinality(S) \in Nat
  BY FS_CardinalityType
<1>2. \A i \in S : IsFiniteSet(Below(i)) /\ Cardinality(Below(i)) \in Nat
  BY FS_Subset, FS_CardinalityType
<1>3. 0 \in R
  <2> SUFFICES ASSUME 0 < Cardinality(S) PROVE \E i \in S : Cardinality(Below(i)) = 0
    OBVIOUS
  <2>1. S # {}
    BY FS_EmptySet
  <2>2. PICK i \in S : \A j \in S : i <= j
    BY <2>1, LeastNat
  <2>3. \A j \in S : ~ (j < i)
    BY <1>0, <2>2
  <2>4. Below(i) = {}
    BY <2>3, Zenon
  <2> QED BY <2>4, FS_EmptySet
<1>4. ASSUME NEW k \in Nat, k \in R PROVE k + 1 \in R
  <2> SUFFICES ASSUME k + 1 < Cardinality(S)
               PROVE  \E i \in S : Cardinality(Below(i)) = k + 1
    OBVIOUS
  <2>1. PICK i \in S : Cardinality(Below(i)) = k
    BY <1>1, <1>4
  <2> DEFINE U == {j \in S : j > i}
             upto == Below(i) \cup {i}
  <2>2. Cardinality(upto) = k + 1 /\ IsFiniteSet(upto)
    BY <1>2, <2>1, FS_AddElement
  <2>3. U # {}
    <3> SUFFICES ASSUME U = {} PROVE FALSE
      OBVIOUS
    <3>1. \A j \in S : j < i \/ j = i
      BY <1>0
    <3>2. upto = S
      BY <3>1, Zenon
    <3> QED BY <1>1, <2>2, <3>2
  <2>4. PICK m \in U : \A j \in U : m <= j
    <3>1. U \in SUBSET Nat
      OBVIOUS
    <3> HIDE DEF U
    <3> QED BY <2>3, <3>1, LeastNat
  <2>5. Below(m) = upto
    <3>1. \A j \in S : j < m <=> j < i \/ j = i
      BY <1>0, <2>4
    <3> QED BY <3>1, Zenon
  <2> QED BY <2>2, <2>4, <2>5
<1>5. c \in R
  <2> HIDE DEF R
  <2> QED BY <1>3, <1>4, Induct
<1> QED BY <1>5

\* Two sequences, one behind the other.
LEMMA Joined ==
    ASSUME NEW S, NEW s \in Seq(S), NEW t \in Seq(S)
    PROVE  /\ s \o t \in Seq(S) /\ Len(s \o t) = Len(s) + Len(t)
           /\ \A i \in 1 .. Len(s) : (s \o t)[i] = s[i]
           /\ \A i \in 1 .. Len(t) : (s \o t)[Len(s) + i] = t[i]
OBVIOUS

-----------------------------------------------------------------------------
(* The plugins: lists.                                                     *)

LEMMA CardinalityInPlugins == \A S : Plugins!Cardinality(S) = Cardinality(S)
BY DEF Plugins!Cardinality, Cardinality, Plugins!IsFiniteSet, IsFiniteSet

RankIn(places, key, i) == 1 + Plugins!Cardinality({j \in places : Plugins!Before(key, j, i)})

LEMMA BeforeOrders ==
    ASSUME NEW I \in SUBSET Nat, NEW key, \A i \in I : key[i] \in Int
    PROVE  /\ \A i \in I : ~ Plugins!Before(key, i, i)
           /\ \A i, j \in I : i = j \/ Plugins!Before(key, i, j) \/ Plugins!Before(key, j, i)
           /\ \A i, j, k \in I :
                Plugins!Before(key, i, j) /\ Plugins!Before(key, j, k) => Plugins!Before(key, i, k)
<1>1. \A i \in I : i \in Nat /\ key[i] \in Int
  OBVIOUS
<1> QED BY <1>1 DEF Plugins!Before

\* The places have the ranks from 1 on, one each, in their order.
LEMMA RankFacts ==
    ASSUME NEW I \in SUBSET Nat, IsFiniteSet(I), NEW key, \A i \in I : key[i] \in Int
    PROVE  /\ Cardinality(I) \in Nat
           /\ \A i \in I : RankIn(I, key, i) \in 1 .. Cardinality(I)
           /\ \A i, j \in I : Plugins!Before(key, i, j) => RankIn(I, key, i) < RankIn(I, key, j)
           /\ \A k \in 1 .. Cardinality(I) : \E i \in I : RankIn(I, key, i) = k
<1> DEFINE n == Cardinality(I)
           before(i) == {j \in I : Plugins!Before(key, j, i)}
           R(i) == RankIn(I, key, i)
           f == [i \in I |-> R(i)]
<1>1. n \in Nat
  BY FS_CardinalityType
<1>2. \A i : R(i) = 1 + Cardinality(before(i))
  BY CardinalityInPlugins DEF RankIn
<1>3. ASSUME NEW i \in I
      PROVE  /\ IsFiniteSet(before(i)) /\ Cardinality(before(i)) \in Nat
             /\ Cardinality(before(i)) < n /\ i \notin before(i)
  <2>1. i \notin before(i) /\ before(i) \in SUBSET I
    BY BeforeOrders
  <2> HIDE DEF before
  <2>2. IsFiniteSet(before(i)) /\ Cardinality(before(i)) <= n
        /\ (Cardinality(before(i)) = n => I = before(i))
    BY <2>1, FS_Subset
  <2>3. Cardinality(before(i)) \in Nat
    BY <2>2, FS_CardinalityType
  <2> HIDE DEF n
  <2> QED BY <1>1, <1>3, <2>1, <2>2, <2>3
<1>4. ASSUME NEW i \in I, NEW j \in I, Plugins!Before(key, i, j)
      PROVE  R(i) < R(j)
  <2>1. before(i) \in SUBSET before(j)
    BY <1>4, BeforeOrders
  <2>2. i \in before(j) /\ i \notin before(i)
    BY <1>3, <1>4
  <2>3. IsFiniteSet(before(j)) /\ Cardinality(before(j)) \in Nat /\ Cardinality(before(i)) \in Nat
    BY <1>3
  <2>4. R(i) = 1 + Cardinality(before(i)) /\ R(j) = 1 + Cardinality(before(j))
    BY <1>2
  <2> HIDE DEF before, R
  <2>5. Cardinality(before(i)) <= Cardinality(before(j))
        /\ Cardinality(before(i)) # Cardinality(before(j))
    BY <2>1, <2>2, <2>3, FS_Subset
  <2> QED BY <2>3, <2>4, <2>5
<1>5. \A i \in I : R(i) \in 1 .. n
  <2> SUFFICES ASSUME NEW i \in I PROVE R(i) \in 1 .. n
    OBVIOUS
  <2>1. R(i) = 1 + Cardinality(before(i))
    BY <1>2
  <2>2. Cardinality(before(i)) \in Nat /\ Cardinality(before(i)) < n
    BY <1>3
  <2> HIDE DEF R, before, n
  <2> QED BY <1>1, <2>1, <2>2
<1>6. \A i, j \in I : R(i) = R(j) => i = j
  <2> SUFFICES ASSUME NEW i \in I, NEW j \in I, R(i) = R(j), i # j PROVE FALSE
    OBVIOUS
  <2>1. R(i) < R(j) \/ R(j) < R(i)
    BY <1>4, BeforeOrders
  <2>2. R(i) \in Int /\ R(j) \in Int
    BY <1>1, <1>5
  <2> HIDE DEF R
  <2> QED BY <2>1, <2>2
<1>7. f \in Injection(I, 1 .. n)
  <2> HIDE DEF R, n
  <2> QED BY <1>5, <1>6 DEF Injection, IsInjective
<1>8. f \in Surjection(I, 1 .. n)
  <2>1. IsFiniteSet(1 .. n) /\ Cardinality(1 .. n) = n
    BY <1>1, Counted
  <2> DEFINE D == 1 .. n
  <2>2. Cardinality(I) = Cardinality(D) /\ IsFiniteSet(D) /\ f \in Injection(I, D)
    BY <1>7, <2>1
  <2> HIDE DEF f, D
  <2>3. f \in Surjection(I, D)
    BY <2>2, FS_Injection
  <2> QED BY <2>3 DEF D
<1>9. \A k \in 1 .. n : \E i \in I : R(i) = k
  <2> HIDE DEF R, n
  <2> QED BY <1>8 DEF Surjection
<1> QED BY <1>1, <1>4, <1>5, <1>9

\* What Arranged lists: the places one each, in their order.
Picks(g, s, I, key) ==
    /\ g \in [1 .. Cardinality(I) -> I]
    /\ Plugins!Arranged(s, I, key) = [k \in 1 .. Cardinality(I) |-> s[g[k]]]
    /\ \A k, m \in 1 .. Cardinality(I) : k < m => Plugins!Before(key, g[k], g[m])
    /\ \A k, m \in 1 .. Cardinality(I) : g[k] = g[m] => k = m
    /\ \A i \in I : \E k \in 1 .. Cardinality(I) : g[k] = i

LEMMA ArrangedFacts ==
    ASSUME NEW s, NEW I \in SUBSET Nat, IsFiniteSet(I), NEW key, \A i \in I : key[i] \in Int
    PROVE  Cardinality(I) \in Nat /\ \E g : Picks(g, s, I, key)
<1> DEFINE n == Cardinality(I)
           pick(k) == CHOOSE i \in I : RankIn(I, key, i) = k
           g == [k \in 1 .. n |-> pick(k)]
<1>1. n \in Nat
  BY FS_CardinalityType
<1>2. \A k \in 1 .. n : pick(k) \in I /\ RankIn(I, key, pick(k)) = k
  <2> TAKE k \in 1 .. n
  <2>1. \E i \in I : RankIn(I, key, i) = k
    BY RankFacts
  <2> QED BY <2>1
<1>3. Plugins!Arranged(s, I, key) = [k \in 1 .. n |-> s[pick(k)]]
  <2>1. Plugins!Cardinality(I) = n
    BY CardinalityInPlugins
  <2> QED BY <2>1, Zenon DEF Plugins!Arranged, RankIn
<1> HIDE DEF pick, n
<1>4. g \in [1 .. n -> I] /\ \A k \in 1 .. n : g[k] = pick(k)
  BY <1>2
<1>5. Plugins!Arranged(s, I, key) = [k \in 1 .. n |-> s[g[k]]]
  BY <1>3, <1>4
<1>6. ASSUME NEW k \in 1 .. n, NEW m \in 1 .. n, k < m
      PROVE  Plugins!Before(key, g[k], g[m])
  <2>1. g[k] \in I /\ g[m] \in I /\ RankIn(I, key, g[k]) = k /\ RankIn(I, key, g[m]) = m
    BY <1>2, <1>4
  <2>2. g[k] # g[m] /\ ~ (m < k)
    BY <1>6, <2>1
  <2>3. ~ Plugins!Before(key, g[m], g[k])
    <3> SUFFICES ASSUME Plugins!Before(key, g[m], g[k]) PROVE FALSE
      OBVIOUS
    <3>1. RankIn(I, key, g[m]) < RankIn(I, key, g[k])
      BY <2>1, RankFacts, Zenon
    <3> QED BY <2>1, <2>2, <3>1
  <2> QED BY <2>1, <2>2, <2>3, BeforeOrders
<1>7. \A k, m \in 1 .. n : g[k] = g[m] => k = m
  BY <1>2, <1>4
<1>8. ASSUME NEW i \in I PROVE \E k \in 1 .. n : g[k] = i
  <2>1. RankIn(I, key, i) \in 1 .. n
    BY RankFacts DEF n
  <2>2. PICK k \in 1 .. n : k = RankIn(I, key, i)
    BY <2>1
  <2>3. g[k] \in I /\ RankIn(I, key, g[k]) = RankIn(I, key, i)
    BY <1>2, <1>4, <2>2
  <2>4. ~ (RankIn(I, key, i) < RankIn(I, key, i))
    BY <2>1
  <2>5. ~ Plugins!Before(key, i, g[k]) /\ ~ Plugins!Before(key, g[k], i)
    BY <2>3, <2>4, RankFacts
  <2> QED BY <2>3, <2>5, BeforeOrders
<1> HIDE DEF g
<1>9. Picks(g, s, I, key)
  BY <1>4, <1>5, <1>6, <1>7, <1>8 DEF n, Picks
<1> QED BY <1>1, <1>9 DEF n

\* A list of each element of a set, once.
Each(s, V) ==
    /\ s \in Seq(V)
    /\ \A i, j \in DOMAIN s : s[i] = s[j] => i = j
    /\ \A v \in V : \E i \in DOMAIN s : s[i] = v

Ordered(s, count) == \A i, j \in DOMAIN s : i < j => count[s[i]] <= count[s[j]]

LEMMA EachEmpty == Each(<<>>, {})
BY DEF Each

LEMMA EachTypes ==
    ASSUME NEW s, NEW V, Each(s, V)
    PROVE  /\ Len(s) \in Nat /\ DOMAIN s = 1 .. Len(s) /\ IsFiniteSet(DOMAIN s)
           /\ \A i \in DOMAIN s : s[i] \in V
           /\ \A i \in DOMAIN s : i \in Nat
<1>1. s \in Seq(V)
  BY DEF Each
<1>2. Len(s) \in Nat /\ DOMAIN s = 1 .. Len(s) /\ \A i \in DOMAIN s : s[i] \in V
  BY <1>1
<1>3. IsFiniteSet(1 .. Len(s))
  BY <1>2, Counted
<1> QED BY <1>2, <1>3

LEMMA ToSetIs ==
    ASSUME NEW s, NEW V, Each(s, V) PROVE Plugins!ToSet(s) = V
<1>1. \A i \in DOMAIN s : s[i] \in V
  BY EachTypes
<1> QED BY <1>1 DEF Each, Plugins!ToSet

LEMMA TimesIs ==
    ASSUME NEW s, NEW V, Each(s, V), NEW v
    PROVE  Plugins!Times(s, v) = IF v \in V THEN 1 ELSE 0
<1> DEFINE S == {i \in DOMAIN s : s[i] = v}
<1>1. Plugins!Times(s, v) = Cardinality(S)
  BY CardinalityInPlugins DEF Plugins!Times
<1>2. CASE v \in V
  <2>1. PICK i \in DOMAIN s : s[i] = v
    BY <1>2 DEF Each
  <2>2. \A j \in DOMAIN s : s[j] = v => j = i
    BY <2>1 DEF Each
  <2>3. S = {i}
    BY <2>1, <2>2, Zenon
  <2> QED BY <1>1, <1>2, <2>3, FS_Singleton
<1>3. CASE v \notin V
  <2>1. \A i \in DOMAIN s : s[i] # v
    BY <1>3, EachTypes
  <2>2. S = {}
    BY <2>1, Zenon
  <2> QED BY <1>1, <1>3, <2>2, FS_EmptySet
<1> QED BY <1>2, <1>3

\* Places of a list, by any key: what is there, once each.
LEMMA ArrangedEach ==
    ASSUME NEW s, NEW V, Each(s, V), NEW I \in SUBSET (DOMAIN s),
           NEW key, \A i \in I : key[i] \in Int
    PROVE  /\ Each(Plugins!Arranged(s, I, key), {s[i] : i \in I})
           /\ \A count : (\A i, j \in I : Plugins!Before(key, i, j) => count[s[i]] <= count[s[j]])
                 => Ordered(Plugins!Arranged(s, I, key), count)
<1> DEFINE n == Cardinality(I)
           r == Plugins!Arranged(s, I, key)
           W == {s[i] : i \in I}
<1>1. I \in SUBSET Nat /\ IsFiniteSet(I)
  <2>1. IsFiniteSet(DOMAIN s) /\ \A i \in DOMAIN s : i \in Nat
    BY EachTypes
  <2> QED BY <2>1, FS_Subset
<1>2. n \in Nat
  BY <1>1, FS_CardinalityType
<1> HIDE DEF r, W
<1>3. PICK g : Picks(g, s, I, key)
  BY <1>1, ArrangedFacts
<1>31. /\ g \in [1 .. n -> I]
       /\ r = [k \in 1 .. n |-> s[g[k]]]
       /\ \A k, m \in 1 .. n : k < m => Plugins!Before(key, g[k], g[m])
       /\ \A k, m \in 1 .. n : g[k] = g[m] => k = m
       /\ \A i \in I : \E k \in 1 .. n : g[k] = i
  BY <1>3, Zenon DEF Picks, r
<1> HIDE DEF n
<1>4. \A k \in 1 .. n : g[k] \in I /\ g[k] \in DOMAIN s /\ r[k] = s[g[k]] /\ s[g[k]] \in W
  BY <1>31 DEF W
<1>5. r \in [1 .. n -> W]
  BY <1>31, <1>4
<1>6. r \in Seq(W) /\ DOMAIN r = 1 .. n
  BY <1>2, <1>5, SeqDef
<1>7. ASSUME NEW k \in 1 .. n, NEW m \in 1 .. n, r[k] = r[m] PROVE k = m
  <2>1. g[k] = g[m]
    BY <1>4, <1>7 DEF Each
  <2> QED BY <1>31, <2>1
<1>8. \A v \in W : \E k \in 1 .. n : r[k] = v
  BY <1>31, <1>4 DEF W
<1>9. Each(r, W)
  BY <1>6, <1>7, <1>8 DEF Each
<1>10. ASSUME NEW count,
              \A i, j \in I : Plugins!Before(key, i, j) => count[s[i]] <= count[s[j]]
       PROVE  Ordered(r, count)
  <2>1. \A k, m \in 1 .. n : k < m => count[r[k]] <= count[r[m]]
    BY <1>31, <1>4, <1>10
  <2> QED BY <1>6, <2>1 DEF Ordered
<1> QED BY <1>9, <1>10 DEF r, W

LEMMA AtFacts ==
    ASSUME NEW s, NEW V, Each(s, V), NEW I \in SUBSET (DOMAIN s)
    PROVE  /\ Each(Plugins!At(s, I), {s[i] : i \in I})
           /\ \A count : Ordered(s, count) => Ordered(Plugins!At(s, I), count)
<1> DEFINE key == [i \in I |-> 0]
<1>1. Plugins!At(s, I) = Plugins!Arranged(s, I, key)
  BY DEF Plugins!At
<1>2. \A i \in I : key[i] \in Int
  OBVIOUS
<1>3. \A i, j \in I : Plugins!Before(key, i, j) => i < j
  BY DEF Plugins!Before
<1> HIDE DEF key
<1>4. Each(Plugins!Arranged(s, I, key), {s[i] : i \in I})
  BY <1>2, ArrangedEach
<1>5. ASSUME NEW count, Ordered(s, count) PROVE Ordered(Plugins!Arranged(s, I, key), count)
  <2>1. \A i, j \in I : Plugins!Before(key, i, j) => count[s[i]] <= count[s[j]]
    BY <1>3, <1>5 DEF Ordered
  <2> QED BY <1>2, <2>1, ArrangedEach
<1> QED BY <1>1, <1>4, <1>5

\* Removal of a set of providers, and the part of a list that is in a set.
LEMMA WithoutFacts ==
    ASSUME NEW s, NEW V, Each(s, V), NEW W
    PROVE  /\ Each(Plugins!Without(s, W), V \ W)
           /\ \A count : Ordered(s, count) => Ordered(Plugins!Without(s, W), count)
<1> DEFINE I == {i \in DOMAIN s : s[i] \in W => \E j \in 1 .. i - 1 : s[j] = s[i]}
<1>1. \A i \in DOMAIN s : s[i] \in V /\ i \in Nat
  BY EachTypes
<1>2. I \in SUBSET (DOMAIN s)
  OBVIOUS
<1>3. \A i \in DOMAIN s : i \in I <=> s[i] \notin W
  <2> SUFFICES ASSUME NEW i \in DOMAIN s, NEW j \in 1 .. i - 1, s[j] = s[i] PROVE FALSE
    OBVIOUS
  <2>1. Len(s) \in Nat /\ DOMAIN s = 1 .. Len(s)
    BY EachTypes
  <2>2. j \in DOMAIN s /\ j # i
    BY <2>1
  <2> QED BY <2>2 DEF Each
<1>4. Plugins!Without(s, W) = Plugins!At(s, I)
  BY Zenon DEF Plugins!Without
<1> HIDE DEF I
<1>5. {s[i] : i \in I} = V \ W
  BY <1>1, <1>2, <1>3 DEF Each
<1> QED BY <1>2, <1>4, <1>5, AtFacts

LEMMA OnlyFacts ==
    ASSUME NEW s, NEW V, Each(s, V), NEW W
    PROVE  Each(Plugins!Only(s, W), V \cap W)
<1> DEFINE I == {i \in DOMAIN s : s[i] \in W}
<1>1. \A i \in DOMAIN s : s[i] \in V
  BY EachTypes
<1>2. I \in SUBSET (DOMAIN s)
  OBVIOUS
<1>3. {s[i] : i \in I} = V \cap W
  BY <1>1 DEF Each
<1>4. Plugins!Only(s, W) = Plugins!At(s, I)
  BY Zenon DEF Plugins!Only
<1> HIDE DEF I
<1> QED BY <1>2, <1>3, <1>4, AtFacts

LEMMA SortedFacts ==
    ASSUME NEW s, NEW V, Each(s, V), NEW count, \A v \in V : count[v] \in Int
    PROVE  Each(Plugins!Sorted(s, count), V) /\ Ordered(Plugins!Sorted(s, count), count)
<1> DEFINE I == DOMAIN s
           key == [i \in I |-> count[s[i]]]
<1>1. \A i \in I : s[i] \in V
  BY EachTypes
<1>2. \A i \in I : key[i] \in Int
  BY <1>1
<1>3. \A i, j \in I : Plugins!Before(key, i, j) => count[s[i]] <= count[s[j]]
  <2> TAKE i, j \in I
  <2>1. key[i] = count[s[i]] /\ key[j] = count[s[j]] /\ key[i] \in Int /\ key[j] \in Int
    BY <1>2
  <2> HIDE DEF key
  <2> QED BY <2>1 DEF Plugins!Before
<1>4. Plugins!Sorted(s, count) = Plugins!Arranged(s, I, key)
  BY DEF Plugins!Sorted
<1>5. {s[i] : i \in I} = V
  BY <1>1 DEF Each
<1>6. I \in SUBSET (DOMAIN s)
  OBVIOUS
<1> HIDE DEF key, I
<1>7. Each(Plugins!Arranged(s, I, key), {s[i] : i \in I})
  BY <1>2, <1>6, ArrangedEach
<1>8. Ordered(Plugins!Arranged(s, I, key), count)
  BY <1>2, <1>3, <1>6, ArrangedEach
<1> QED BY <1>4, <1>5, <1>7, <1>8

LEMMA JoinedEach ==
    ASSUME NEW s, NEW V, Each(s, V), NEW t, NEW W, Each(t, W), V \cap W = {}
    PROVE  Each(s \o t, V \cup W)
<1> DEFINE U == V \cup W
           r == s \o t
           m == Len(s)
           n == Len(t)
<1>1. s \in Seq(U) /\ t \in Seq(U) /\ m \in Nat /\ n \in Nat
  BY DEF Each
<1>2. /\ r \in Seq(U) /\ Len(r) = m + n
      /\ \A i \in 1 .. m : r[i] = s[i]
      /\ \A i \in 1 .. n : r[m + i] = t[i]
  BY <1>1, Joined
<1>3. /\ DOMAIN s = 1 .. m /\ DOMAIN t = 1 .. n
      /\ \A i \in 1 .. m : s[i] \in V
      /\ \A i \in 1 .. n : t[i] \in W
  BY EachTypes
<1> HIDE DEF r, m, n
<1>4. DOMAIN r = 1 .. m + n
  BY <1>2
<1>5. ASSUME NEW i \in 1 .. m + n
      PROVE  \/ i \in 1 .. m /\ r[i] = s[i] /\ r[i] \in V
             \/ i - m \in 1 .. n /\ r[i] = t[i - m] /\ r[i] \in W
  <2>1. i \in 1 .. m \/ (i - m \in 1 .. n /\ i = m + (i - m))
    BY <1>1
  <2>2. ASSUME i - m \in 1 .. n PROVE r[m + (i - m)] = t[i - m]
    BY <1>2, <2>2
  <2> QED BY <1>2, <1>3, <2>1, <2>2
<1>6. ASSUME NEW i \in 1 .. m + n, NEW j \in 1 .. m + n, r[i] = r[j] PROVE i = j
  <2>1. CASE i \in 1 .. m /\ r[i] = s[i] /\ r[i] \in V
    <3>1. j \in 1 .. m /\ r[j] = s[j]
      BY <1>5, <1>6, <2>1
    <3> QED BY <1>3, <1>6, <2>1, <3>1 DEF Each
  <2>2. CASE i - m \in 1 .. n /\ r[i] = t[i - m] /\ r[i] \in W
    <3>1. j - m \in 1 .. n /\ r[j] = t[j - m]
      BY <1>5, <1>6, <2>2
    <3>2. i - m = j - m
      BY <1>3, <1>6, <2>2, <3>1 DEF Each
    <3> QED BY <1>1, <3>2
  <2> QED BY <1>5, <2>1, <2>2
<1>7. ASSUME NEW v \in U PROVE \E i \in 1 .. m + n : r[i] = v
  <2>1. CASE v \in V
    <3>1. PICK i \in 1 .. m : s[i] = v
      BY <1>3, <2>1 DEF Each
    <3>2. i \in 1 .. m + n
      BY <1>1
    <3> QED BY <1>2, <3>1, <3>2
  <2>2. CASE v \in W
    <3>1. PICK i \in 1 .. n : t[i] = v
      BY <1>3, <2>2 DEF Each
    <3>2. m + i \in 1 .. m + n
      BY <1>1
    <3> QED BY <1>2, <3>1, <3>2
  <2> QED BY <2>1, <2>2
<1> QED BY <1>2, <1>4, <1>6, <1>7 DEF Each, r

\* The lists of a sequence, one behind the other, if no two have an element in
\* common.
UpTo(U, k) == UNION {U[i] : i \in 1 .. k}
Part(g, k, s) == g = [i \in 1 .. k |-> IF i = 1 THEN s[i] ELSE g[i - 1] \o s[i]]

LEMMA PartsExist ==
    ASSUME NEW s, NEW n \in Nat PROVE \E g : Part(g, n, s)
<1> DEFINE S == {k \in Nat : \E g : Part(g, k, s)}
<1>1. 0 \in S
  <2>1. \A i : i \notin 1 .. 0
    OBVIOUS
  <2> DEFINE g == [i \in 1 .. 0 |-> s[i]]
  <2>2. g = [i \in 1 .. 0 |-> IF i = 1 THEN s[i] ELSE g[i - 1] \o s[i]]
    BY <2>1
  <2> HIDE DEF g
  <2>3. Part(g, 0, s)
    BY <2>2 DEF Part
  <2> QED BY <2>3
<1>2. ASSUME NEW k \in Nat, k \in S PROVE k + 1 \in S
  <2>1. PICK g : Part(g, k, s)
    BY <1>2
  <2> DEFINE h == [i \in 1 .. k + 1 |->
                     IF i \in 1 .. k THEN g[i] ELSE IF i = 1 THEN s[i] ELSE g[i - 1] \o s[i]]
  <2>2. \A i \in 1 .. k : g[i] = IF i = 1 THEN s[i] ELSE g[i - 1] \o s[i]
    BY <2>1, Zenon DEF Part
  <2>3. \A i \in 1 .. k + 1 : i = 1 \/ i - 1 \in 1 .. k
    OBVIOUS
  <2>4. \A i \in 1 .. k : h[i] = g[i]
    OBVIOUS
  <2>5. \A i \in 1 .. k + 1 : h[i] = IF i = 1 THEN s[i] ELSE g[i - 1] \o s[i]
    BY <2>2
  <2>6. h = [i \in 1 .. k + 1 |-> h[i]]
    OBVIOUS
  <2> HIDE DEF h
  <2>7. \A i \in 1 .. k + 1 : h[i] = IF i = 1 THEN s[i] ELSE h[i - 1] \o s[i]
    BY <2>3, <2>4, <2>5
  <2>8. h = [i \in 1 .. k + 1 |-> IF i = 1 THEN s[i] ELSE h[i - 1] \o s[i]]
    BY <2>6, <2>7
  <2>9. Part(h, k + 1, s)
    BY <2>8 DEF Part
  <2> QED BY <2>9
<1>3. n \in S
  <2> HIDE DEF S
  <2> QED BY <1>1, <1>2, Induct
<1> QED BY <1>3

LEMMA FlattenedEach ==
    ASSUME NEW s, NEW n \in Nat, s \in Seq(Seq(Plugins!Providers)), Len(s) = n, NEW U,
           \A i \in 1 .. n : Each(s[i], U[i]),
           \A i, j \in 1 .. n : i # j => U[i] \cap U[j] = {}
    PROVE  Each(Plugins!FlattenSeq(s), UpTo(U, n))
<1>1. CASE n = 0
  <2>1. s = <<>> /\ Plugins!FlattenSeq(s) = s
    BY <1>1 DEF Plugins!FlattenSeq
  <2>2. UpTo(U, n) = {}
    BY <1>1 DEF UpTo
  <2> QED BY <2>1, <2>2, EachEmpty
<1>2. CASE n # 0
  <2> DEFINE F(f) == [i \in 1 .. Len(s) |-> IF i = 1 THEN s[i] ELSE f[i - 1] \o s[i]]
             flat == CHOOSE f : f = F(f)
             S == {k \in Nat : k + 1 \in 1 .. n => Each(flat[k + 1], UpTo(U, k + 1))}
  <2>1. flat = F(flat)
    <3>1. PICK g : Part(g, n, s)
      BY PartsExist
    <3>2. g = F(g)
      BY <3>1 DEF Part
    <3> HIDE DEF F
    <3> QED BY <3>2
  <2>2. Plugins!FlattenSeq(s) = flat[n]
    BY <1>2 DEF Plugins!FlattenSeq
  <2> HIDE DEF flat
  <2>3. \A i \in 1 .. n : flat[i] = IF i = 1 THEN s[i] ELSE flat[i - 1] \o s[i]
    BY <2>1
  <2>4. 0 \in S
    <3>1. UpTo(U, 1) = U[1]
      <4>1. 1 .. 1 = {1}
        OBVIOUS
      <4>2. {U[i] : i \in {1}} = {U[1]}
        OBVIOUS
      <4> QED BY <4>1, <4>2 DEF UpTo
    <3>2. 1 \in 1 .. n => flat[1] = s[1] /\ Each(s[1], U[1])
      BY <2>3
    <3> QED BY <3>1, <3>2
  <2>5. ASSUME NEW k \in Nat, k \in S PROVE k + 1 \in S
    <3> SUFFICES ASSUME (k + 1) + 1 \in 1 .. n
                 PROVE  Each(flat[(k + 1) + 1], UpTo(U, (k + 1) + 1))
      OBVIOUS
    <3> DEFINE m == k + 1
    <3>1. m \in Nat /\ m \in 1 .. n /\ m + 1 \in 1 .. n /\ m + 1 # 1 /\ (m + 1) - 1 = m
      OBVIOUS
    <3>2. Each(flat[m], UpTo(U, m))
      BY <2>5, <3>1
    <3> HIDE DEF m
    <3>3. flat[m + 1] = flat[m] \o s[m + 1] /\ Each(s[m + 1], U[m + 1])
      BY <2>3, <3>1
    <3>4. 1 .. m + 1 = (1 .. m) \cup {m + 1} /\ \A i \in 1 .. m : i \in 1 .. n /\ i # m + 1
      BY <3>1
    <3>5. UpTo(U, m + 1) = UpTo(U, m) \cup U[m + 1]
      <4>1. \A v : v \in UpTo(U, m + 1) <=> \E i \in 1 .. m + 1 : v \in U[i]
        BY DEF UpTo
      <4>2. \A v : v \in UpTo(U, m) <=> \E i \in 1 .. m : v \in U[i]
        BY DEF UpTo
      <4>3. \A v : v \in UpTo(U, m + 1) <=> v \in UpTo(U, m) \/ v \in U[m + 1]
        BY <3>4, <4>1, <4>2
      <4> QED BY <4>3
    <3>6. UpTo(U, m) \cap U[m + 1] = {}
      BY <3>1, <3>4 DEF UpTo
    <3>7. Each(flat[m] \o s[m + 1], UpTo(U, m) \cup U[m + 1])
      BY <3>2, <3>3, <3>6, JoinedEach
    <3> QED BY <3>3, <3>5, <3>7 DEF m
  <2>6. n - 1 \in S
    <3> HIDE DEF S
    <3>1. \A k \in Nat : k \in S
      BY <2>4, <2>5, Induct
    <3> QED BY <1>2, <3>1
  <2>7. (n - 1) + 1 = n /\ n \in 1 .. n
    BY <1>2
  <2> QED BY <2>2, <2>6, <2>7
<1> QED BY <1>1, <1>2

-----------------------------------------------------------------------------
(* The plugins: what the handlers do to the lists.                         *)

Chosen(W, fl) == {v \in W : fl[v]}

\* Each provider that is wired is in the search list, once, and in the default
\* list, once, if its flag says so.
Kept(l, fl) ==
    /\ l \in [all : Seq(Plugins!Providers), dflt : Seq(Plugins!Providers),
              wired : SUBSET Plugins!Providers]
    /\ fl \in [Plugins!Providers -> BOOLEAN]
    /\ Each(l.all, l.wired)
    /\ Each(l.dflt, Chosen(l.wired, fl))

LEMMA EachSeq ==
    ASSUME NEW s, NEW V, Each(s, V), NEW P, V \subseteq P PROVE s \in Seq(P)
BY DEF Each

LEMMA KeptBuilt ==
    ASSUME NEW a, NEW d, NEW W \in SUBSET Plugins!Providers,
           NEW fl \in [Plugins!Providers -> BOOLEAN], Each(a, W), Each(d, Chosen(W, fl))
    PROVE  Kept([all |-> a, dflt |-> d, wired |-> W], fl)
<1>1. Chosen(W, fl) \subseteq Plugins!Providers
  BY DEF Chosen
<1>2. a \in Seq(Plugins!Providers) /\ d \in Seq(Plugins!Providers)
  BY <1>1, EachSeq
<1> QED BY <1>2 DEF Kept

LEMMA KeptRecord ==
    ASSUME NEW l, NEW fl, Kept(l, fl)
    PROVE  /\ l = [all |-> l.all, dflt |-> l.dflt, wired |-> l.wired]
           /\ l.wired \in SUBSET Plugins!Providers /\ fl \in [Plugins!Providers -> BOOLEAN]
           /\ Each(l.all, l.wired) /\ Each(l.dflt, Chosen(l.wired, fl))
           /\ Plugins!ToSet(l.all) = l.wired /\ Plugins!ToSet(l.dflt) = Chosen(l.wired, fl)
<1>1. Each(l.all, l.wired) /\ Each(l.dflt, Chosen(l.wired, fl))
  BY DEF Kept
<1>2. Plugins!ToSet(l.all) = l.wired /\ Plugins!ToSet(l.dflt) = Chosen(l.wired, fl)
  BY <1>1, ToSetIs
<1> QED BY <1>1, <1>2 DEF Kept

LEMMA DropKept ==
    ASSUME NEW l, NEW fl, Kept(l, fl), NEW V
    PROVE  /\ Kept(Plugins!Drop(l, V), fl)
           /\ Plugins!Drop(l, V).wired = l.wired \ V
           /\ Ordered(l.all, shards) => Ordered(Plugins!Drop(l, V).all, shards)
<1> DEFINE a == Plugins!Without(l.all, V)
           d == Plugins!Without(l.dflt, V)
           W == l.wired \ V
<1>1. Plugins!Drop(l, V) = [all |-> a, dflt |-> d, wired |-> W]
  BY DEF Plugins!Drop
<1>2. Each(a, W) /\ (Ordered(l.all, shards) => Ordered(a, shards))
  BY KeptRecord, WithoutFacts
<1>3. Each(d, Chosen(l.wired, fl) \ V)
  BY KeptRecord, WithoutFacts
<1>4. Chosen(l.wired, fl) \ V = Chosen(W, fl)
  BY DEF Chosen
<1>5. W \in SUBSET Plugins!Providers /\ fl \in [Plugins!Providers -> BOOLEAN]
  BY KeptRecord
<1> HIDE DEF a, d, W
<1>6. Kept([all |-> a, dflt |-> d, wired |-> W], fl)
  BY <1>2, <1>3, <1>4, <1>5, KeptBuilt
<1> QED BY <1>1, <1>2, <1>6 DEF W

\* The flags of some providers of an array become on, and the loader hears of it.
LEMMA DefaultKept ==
    ASSUME NEW l, NEW fl, Kept(l, fl), NEW array, NEW A, Each(array, A),
           NEW V, V \subseteq A, NEW on \in BOOLEAN,
           NEW gl \in [Plugins!Providers -> BOOLEAN],
           \A v \in Plugins!Providers : gl[v] <=> IF v \in V THEN on ELSE fl[v]
    PROVE  /\ Kept(Plugins!DefaultChanged(l, array, V, on), gl)
           /\ Plugins!DefaultChanged(l, array, V, on).wired = l.wired
           /\ Plugins!DefaultChanged(l, array, V, on).all = l.all
<1> DEFINE C == Chosen(l.wired, fl)
           more == (V \cap l.wired) \ Plugins!ToSet(l.dflt)
           d == IF on THEN l.dflt \o Plugins!Only(array, more)
                ELSE Plugins!Without(l.dflt, V \cap l.wired)
<1>1. /\ l = [all |-> l.all, dflt |-> l.dflt, wired |-> l.wired]
      /\ l.wired \in SUBSET Plugins!Providers
      /\ Each(l.all, l.wired) /\ Each(l.dflt, C) /\ Plugins!ToSet(l.dflt) = C
  BY KeptRecord
<1>2. Plugins!DefaultChanged(l, array, V, on) = [all |-> l.all, dflt |-> d, wired |-> l.wired]
  <2>1. Plugins!DefaultChanged(l, array, V, on) = [l EXCEPT !.dflt = d]
    BY Zenon DEF Plugins!DefaultChanged
  <2> HIDE DEF d
  <2> QED BY <1>1, <2>1
<1>3. ASSUME on PROVE Each(d, Chosen(l.wired, gl))
  <2>1. Each(Plugins!Only(array, more), A \cap more)
    BY OnlyFacts
  <2>2. A \cap more = (V \cap l.wired) \ C
    BY <1>1
  <2>3. C \cap ((V \cap l.wired) \ C) = {}
    OBVIOUS
  <2>4. Chosen(l.wired, gl) = C \cup ((V \cap l.wired) \ C)
    <3>1. \A v \in l.wired : gl[v] <=> v \in V \/ fl[v]
      BY <1>1, <1>3, Zenon
    <3> QED BY <3>1 DEF Chosen
  <2> HIDE DEF C, more
  <2>5. Each(l.dflt \o Plugins!Only(array, more), C \cup ((V \cap l.wired) \ C))
    BY <1>1, <2>1, <2>2, <2>3, JoinedEach
  <2>6. d = l.dflt \o Plugins!Only(array, more)
    BY <1>3, Zenon
  <2> HIDE DEF d
  <2> QED BY <2>4, <2>5, <2>6
<1>4. ASSUME ~on PROVE Each(d, Chosen(l.wired, gl))
  <2>1. Each(Plugins!Without(l.dflt, V \cap l.wired), C \ (V \cap l.wired))
    BY <1>1, WithoutFacts
  <2>2. Chosen(l.wired, gl) = C \ (V \cap l.wired)
    <3>1. \A v \in l.wired : v \in Plugins!Providers
      BY <1>1
    <3>2. \A v \in l.wired : gl[v] <=> v \notin V /\ fl[v]
      BY <1>4, <3>1, Zenon
    <3> QED BY <3>2 DEF Chosen
  <2>3. d = Plugins!Without(l.dflt, V \cap l.wired)
    BY <1>4, Zenon
  <2> HIDE DEF d, C
  <2> QED BY <2>1, <2>2, <2>3
<1>5. Each(d, Chosen(l.wired, gl))
  <2> HIDE DEF d
  <2> QED BY <1>3, <1>4, Zenon
<1> HIDE DEF d
<1> QED BY <1>1, <1>2, <1>5, KeptBuilt

LEMMA FlagsAre ==
    ASSUME NEW fl \in [Plugins!Providers -> BOOLEAN], NEW array, NEW on \in BOOLEAN
    PROVE  /\ Plugins!Flags(fl, array, on) \in [Plugins!Providers -> BOOLEAN]
           /\ \A v \in Plugins!Providers :
                Plugins!Flags(fl, array, on)[v] <=>
                  IF v \in {w \in Plugins!ToSet(array) : fl[w] # on} THEN on ELSE fl[v]
<1> DEFINE A == Plugins!ToSet(array)
           V == {w \in A : fl[w] # on}
<1>1. Plugins!Flags(fl, array, on) = [v \in Plugins!Providers |-> IF v \in A THEN on ELSE fl[v]]
  BY DEF Plugins!Flags
<1> HIDE DEF A
<1>2. \A v \in Plugins!Providers : fl[v] \in BOOLEAN
  OBVIOUS
<1>3. Plugins!Flags(fl, array, on) \in [Plugins!Providers -> BOOLEAN]
  BY <1>1, <1>2
<1>4. ASSUME NEW v \in Plugins!Providers
      PROVE  Plugins!Flags(fl, array, on)[v] <=> IF v \in V THEN on ELSE fl[v]
  <2>1. Plugins!Flags(fl, array, on)[v] = IF v \in A THEN on ELSE fl[v]
    BY <1>1
  <2> QED BY <1>2, <2>1
<1> QED BY <1>3, <1>4 DEF A

LEMMA ApplyKept ==
    ASSUME NEW l, NEW fl, Kept(l, fl), NEW array, NEW A, Each(array, A), NEW on \in BOOLEAN
    PROVE  /\ Kept(Plugins!ApplyDefault(l, array, fl, on), Plugins!Flags(fl, array, on))
           /\ Plugins!ApplyDefault(l, array, fl, on).wired = l.wired
           /\ Plugins!ApplyDefault(l, array, fl, on).all = l.all
<1> DEFINE V == {v \in Plugins!ToSet(array) : fl[v] # on}
           gl == Plugins!Flags(fl, array, on)
<1>1. Plugins!ApplyDefault(l, array, fl, on) = Plugins!DefaultChanged(l, array, V, on)
  BY DEF Plugins!ApplyDefault
<1>2. V \subseteq A
  BY ToSetIs
<1>3. fl \in [Plugins!Providers -> BOOLEAN]
  BY KeptRecord
<1>4. /\ gl \in [Plugins!Providers -> BOOLEAN]
      /\ \A v \in Plugins!Providers : gl[v] <=> IF v \in V THEN on ELSE fl[v]
  BY <1>3, FlagsAre
<1> HIDE DEF V, gl
<1>5. /\ Kept(Plugins!DefaultChanged(l, array, V, on), gl)
      /\ Plugins!DefaultChanged(l, array, V, on).wired = l.wired
      /\ Plugins!DefaultChanged(l, array, V, on).all = l.all
  BY <1>2, <1>4, DefaultKept
<1> QED BY <1>1, <1>5 DEF gl

LEMMA AddKept ==
    ASSUME NEW l, NEW fl, Kept(l, fl), NEW array, NEW A \in SUBSET Plugins!Providers,
           Each(array, A), A \cap l.wired = {}, NEW on \in BOOLEAN,
           \A v \in Plugins!Providers : shards[v] \in Int
    PROVE  /\ Kept(Plugins!add_providers(l, array, fl, on), Plugins!Flags(fl, array, on))
           /\ Plugins!add_providers(l, array, fl, on).wired = l.wired \cup A
           /\ Ordered(Plugins!add_providers(l, array, fl, on).all, shards)
<1> DEFINE a == l.all \o array
           new == {v \in Plugins!ToSet(array) : fl[v]}
           d == l.dflt \o Plugins!Only(array, new)
           W == l.wired \cup A
           b == Plugins!Sorted(a, shards)
           m == [all |-> b, dflt |-> d, wired |-> W]
<1>1. /\ l.wired \in SUBSET Plugins!Providers /\ fl \in [Plugins!Providers -> BOOLEAN]
      /\ Each(l.all, l.wired) /\ Each(l.dflt, Chosen(l.wired, fl))
  BY KeptRecord
<1>2. Plugins!ToSet(array) = A
  BY ToSetIs
<1>3. Plugins!Listed(l, array, fl) = [all |-> a, wired |-> W, dflt |-> d]
  BY <1>2 DEF Plugins!Listed
<1>4. Each(a, W)
  BY <1>1, JoinedEach
<1>5. Each(d, Chosen(W, fl))
  <2>1. Each(Plugins!Only(array, new), A \cap new)
    BY OnlyFacts
  <2>2. A \cap new = Chosen(A, fl)
    BY <1>2 DEF Chosen
  <2>3. Chosen(l.wired, fl) \cap Chosen(A, fl) = {}
    BY DEF Chosen
  <2>4. Chosen(W, fl) = Chosen(l.wired, fl) \cup Chosen(A, fl)
    BY DEF Chosen
  <2> HIDE DEF new, W
  <2>5. Each(l.dflt \o Plugins!Only(array, new), Chosen(l.wired, fl) \cup Chosen(A, fl))
    BY <1>1, <2>1, <2>2, <2>3, JoinedEach
  <2> QED BY <2>4, <2>5
<1>6. W \in SUBSET Plugins!Providers
  BY <1>1
<1>7. Each(b, W) /\ Ordered(b, shards)
  <2>1. \A v \in W : shards[v] \in Int
    BY <1>6
  <2> HIDE DEF a, W
  <2> QED BY <1>4, <2>1, SortedFacts
<1> HIDE DEF a, d, W
<1>8. [Plugins!Listed(l, array, fl) EXCEPT !.all = Plugins!Sorted(@, shards)] = m
  BY <1>3
<1>9. Plugins!add_providers(l, array, fl, on) = Plugins!ApplyDefault(m, array, fl, on)
  BY <1>8 DEF Plugins!add_providers
<1> HIDE DEF b
<1>10. Kept(m, fl) /\ m.wired = W /\ m.all = b
  BY <1>1, <1>5, <1>6, <1>7, KeptBuilt
<1> HIDE DEF m
<1>11. /\ Kept(Plugins!ApplyDefault(m, array, fl, on), Plugins!Flags(fl, array, on))
       /\ Plugins!ApplyDefault(m, array, fl, on).wired = m.wired
       /\ Plugins!ApplyDefault(m, array, fl, on).all = m.all
  BY <1>10, ApplyKept
<1> QED BY <1>7, <1>9, <1>10, <1>11 DEF W

\* Lists and flags with W wired, as a handler leaves them.
Leaves(r, W) ==
    Kept(r.lists, r.flag) /\ Ordered(r.lists.all, shards) /\ r.lists.wired = W

\* What the lists and the flags are once a plugin's array is replaced.
LEMMA OfferKept ==
    ASSUME NEW l, NEW fl, Kept(l, fl), NEW p \in Plugins!Plugins, NEW array,
           NEW A \in SUBSET Plugins!Providers, Each(array, A), NEW on \in BOOLEAN,
           Ordered(l.all, shards), byDefault[p] \in BOOLEAN,
           \A v \in Plugins!Providers : shards[v] \in Int
    PROVE  /\ on => Leaves(Plugins!Offer(l, fl, p, array, on), l.wired \cup A)
           /\ ~on => Leaves(Plugins!Offer(l, fl, p, array, on), l.wired \ A)
<1> DEFINE r == Plugins!Offer(l, fl, p, array, on)
           m == Plugins!DropOffered(l, array)
           V == Plugins!ToSet(array) \cap Plugins!ToSet(l.all)
<1>1. m = Plugins!Drop(l, V)
  BY DEF Plugins!DropOffered
<1>2. V = A \cap l.wired
  BY ToSetIs, KeptRecord
<1>3. Kept(m, fl) /\ m.wired = l.wired \ V /\ Ordered(m.all, shards)
  <2> HIDE DEF m, V
  <2> QED BY <1>1, DropKept
<1>4. m.wired = l.wired \ A
  BY <1>2, <1>3
<1>5. ASSUME on PROVE Leaves(r, l.wired \cup A)
  <2> DEFINE n == Plugins!add_providers(m, array, fl, byDefault[p])
             gl == Plugins!Flags(fl, array, byDefault[p])
  <2>1. r = [lists |-> n, flag |-> gl]
    BY <1>5, Zenon DEF Plugins!Offer, Plugins!on_plugin_search_providers_changed
  <2>2. r.lists = n /\ r.flag = gl
    BY <2>1
  <2>3. A \cap m.wired = {}
    BY <1>4
  <2> HIDE DEF m
  <2>4. /\ Kept(n, gl) /\ n.wired = m.wired \cup A /\ Ordered(n.all, shards)
    BY <1>3, <2>3, AddKept
  <2>5. m.wired \cup A = l.wired \cup A
    BY <1>4
  <2> HIDE DEF n, gl, r
  <2> QED BY <2>2, <2>4, <2>5 DEF Leaves
<1>6. ASSUME ~on PROVE Leaves(r, l.wired \ A)
  <2>1. r = [lists |-> m, flag |-> fl]
    BY <1>6, Zenon DEF Plugins!Offer, Plugins!on_plugin_search_providers_changed
  <2>2. r.lists = m /\ r.flag = fl
    BY <2>1
  <2> HIDE DEF m, r
  <2> QED BY <1>3, <1>4, <2>2 DEF Leaves
<1> QED BY <1>5, <1>6

-----------------------------------------------------------------------------
(* The plugins: every handler keeps the lists.                             *)

\* What a plugin offers is wired exactly if the plugin is enabled.
WiredIfEnabled ==
    \A p \in Plugins!Plugins : \A v \in Plugins!ToSet(offered[p]) :
       v \in lists.wired <=> enabled[p]

PluginInv ==
    /\ Plugins!TypeOK
    /\ offered = [p \in Plugins!Plugins |-> offered[p]]
    /\ enabled = setting
    /\ loaded = "up" => /\ Kept(lists, flag)
                        /\ Ordered(lists.all, shards)
                        /\ WiredIfEnabled

LEMMA ArrayFacts ==
    ASSUME NEW p \in Plugins!Plugins, NEW array \in Arrays[p] \cup {<<>>}
    PROVE  /\ Each(array, Plugins!ToSet(array))
           /\ Plugins!ToSet(array) \in SUBSET Plugins!Offers(p)
           /\ Plugins!ToSet(array) \in SUBSET Plugins!Providers
<1> DEFINE A == Plugins!ToSet(array)
<1>1. Each(array, A)
  <2>1. CASE array = <<>>
    <3>1. A = {}
      BY <2>1 DEF Plugins!ToSet
    <3> QED BY <2>1, <3>1, EachEmpty
  <2>2. CASE array \in Arrays[p]
    <3>1. array \in Seq(Plugins!Offers(p)) /\ \A i, j \in DOMAIN array : array[i] = array[j] => i = j
      BY <2>2, PluginsAssumption
    <3>2. Len(array) \in Nat /\ DOMAIN array = 1 .. Len(array)
      BY <3>1
    <3>3. \A i \in DOMAIN array : array[i] \in A
      BY DEF Plugins!ToSet
    <3>4. array \in [1 .. Len(array) -> A]
      BY <3>1, <3>2, <3>3
    <3>5. array \in Seq(A)
      BY <3>2, <3>4, SeqDef
    <3>6. \A v \in A : \E i \in DOMAIN array : array[i] = v
      BY DEF Plugins!ToSet
    <3> HIDE DEF A
    <3> QED BY <3>1, <3>5, <3>6 DEF Each
  <2> QED BY <2>1, <2>2
<1>2. \A v \in A : array # <<>>
  BY DEF Plugins!ToSet
<1>3. A \in SUBSET Plugins!Offers(p)
  BY <1>2 DEF Plugins!Offers
<1>4. Plugins!Offers(p) \subseteq Plugins!Providers
  BY DEF Plugins!Providers
<1> QED BY <1>1, <1>3, <1>4

LEMMA PluginTypes ==
    ASSUME PluginInv
    PROVE  /\ \A v \in Plugins!Providers : shards[v] \in Int
           /\ shards \in [Plugins!Providers -> ShardCounts]
           /\ flag \in [Plugins!Providers -> BOOLEAN]
           /\ byDefault \in [Plugins!Plugins -> BOOLEAN]
           /\ enabled \in [Plugins!Plugins -> BOOLEAN]
           /\ \A p \in Plugins!Plugins : offered[p] \in Arrays[p] \cup {<<>>}
           /\ enabled = setting
           /\ DOMAIN offered = Plugins!Plugins
<1>1. /\ shards \in [Plugins!Providers -> ShardCounts]
      /\ flag \in [Plugins!Providers -> BOOLEAN]
      /\ byDefault \in [Plugins!Plugins -> BOOLEAN]
      /\ enabled \in [Plugins!Plugins -> BOOLEAN]
      /\ \A p \in Plugins!Plugins : offered[p] \in Arrays[p] \cup {<<>>}
  BY DEF PluginInv, Plugins!TypeOK
<1>2. \A v \in Plugins!Providers : shards[v] \in Int
  <2>1. \A c \in ShardCounts : c \in Int
    BY PluginsAssumption
  <2> TAKE v \in Plugins!Providers
  <2>2. shards[v] \in ShardCounts
    BY <1>1
  <2> QED BY <2>1, <2>2
<1>3. DOMAIN offered = Plugins!Plugins
  <2> DEFINE f == [p \in Plugins!Plugins |-> offered[p]]
  <2>1. DOMAIN f = Plugins!Plugins
    OBVIOUS
  <2>2. offered = f
    BY DEF PluginInv
  <2> HIDE DEF f
  <2> QED BY <2>1, <2>2
<1> QED BY <1>1, <1>2, <1>3 DEF PluginInv

LEMMA KeptTypes ==
    ASSUME NEW l, NEW fl, Kept(l, fl)
    PROVE  Plugins!ToSet(l.all) \cup Plugins!ToSet(l.dflt) \cup l.wired \subseteq Plugins!Providers
<1>1. /\ Plugins!ToSet(l.all) = l.wired /\ l.wired \in SUBSET Plugins!Providers
      /\ Plugins!ToSet(l.dflt) = Chosen(l.wired, fl)
  BY KeptRecord
<1>2. Chosen(l.wired, fl) \subseteq l.wired
  BY DEF Chosen
<1> QED BY <1>1, <1>2

\* An action about the array of one plugin.
LEMMA PluginHandled ==
    ASSUME PluginInv, loaded = "up", loaded' = "up",
           NEW p \in Plugins!Plugins, NEW array \in Arrays[p] \cup {<<>>}, NEW on \in BOOLEAN,
           offered' = [offered EXCEPT ![p] = array],
           enabled' = [enabled EXCEPT ![p] = on],
           setting' = enabled',
           byDefault' = byDefault, shards' = shards,
           Kept(lists', flag'), Ordered(lists'.all, shards),
           lists'.wired = IF on THEN lists.wired \cup Plugins!ToSet(array)
                          ELSE lists.wired \ Plugins!ToSet(array)
    PROVE  PluginInv'
<1>1. /\ shards \in [Plugins!Providers -> ShardCounts]
      /\ byDefault \in [Plugins!Plugins -> BOOLEAN]
      /\ enabled \in [Plugins!Plugins -> BOOLEAN]
      /\ \A q \in Plugins!Plugins : offered[q] \in Arrays[q] \cup {<<>>}
      /\ DOMAIN offered = Plugins!Plugins
  BY PluginTypes
<1>2. \A q \in Plugins!Plugins : offered'[q] = IF q = p THEN array ELSE offered[q]
  BY <1>1
<1>3. offered' = [q \in Plugins!Plugins |-> offered'[q]]
  BY <1>1
<1>4. \A q \in Plugins!Plugins : offered'[q] \in Arrays[q] \cup {<<>>}
  BY <1>1, <1>2
<1>5. enabled' \in [Plugins!Plugins -> BOOLEAN]
  BY <1>1
<1>6. \A q \in Plugins!Plugins : enabled'[q] <=> IF q = p THEN on ELSE enabled[q]
  BY <1>1
<1>7. flag' \in [Plugins!Providers -> BOOLEAN]
  BY DEF Kept
<1>8. Plugins!ToSet(lists'.all) \cup Plugins!ToSet(lists'.dflt) \cup lists'.wired
        \subseteq Plugins!Providers
  BY KeptTypes
<1>9. Plugins!TypeOK'
  BY <1>1, <1>4, <1>5, <1>7, <1>8 DEF Plugins!TypeOK
<1>10. ASSUME NEW q \in Plugins!Plugins, NEW v \in Plugins!ToSet(offered'[q])
       PROVE  v \in lists'.wired <=> enabled'[q]
  <2>1. CASE q = p
    <3>1. v \in Plugins!ToSet(array)
      BY <1>2, <2>1
    <3>2. v \in lists'.wired <=> on
      BY <3>1
    <3> QED BY <1>6, <2>1, <3>2, Zenon
  <2>2. CASE q # p
    <3>1. v \in Plugins!ToSet(offered[q])
      BY <1>2, <2>2
    <3>2. v \in lists.wired <=> enabled[q]
      BY <3>1 DEF PluginInv, WiredIfEnabled
    <3>3. v \in Plugins!Offers(q) /\ Plugins!ToSet(array) \in SUBSET Plugins!Offers(p)
      BY <1>1, <3>1, ArrayFacts
    <3>4. v \notin Plugins!ToSet(array)
      BY <2>2, <3>3, PluginsAssumption
    <3>5. v \in lists'.wired <=> v \in lists.wired
      BY <3>4
    <3> QED BY <1>6, <2>2, <3>2, <3>5, Zenon
  <2> QED BY <2>1, <2>2
<1>11. WiredIfEnabled'
  BY <1>10, Zenon DEF WiredIfEnabled
<1> QED BY <1>3, <1>9, <1>11 DEF PluginInv

\* An action that leaves the plugins and what is wired.
LEMMA ProvidersHandled ==
    ASSUME PluginInv, loaded = "up", UNCHANGED <<loaded, setting, enabled, offered>>,
           byDefault' \in [Plugins!Plugins -> BOOLEAN],
           shards' \in [Plugins!Providers -> ShardCounts],
           Kept(lists', flag'), Ordered(lists'.all, shards'), lists'.wired = lists.wired
    PROVE  PluginInv'
<1>1. flag' \in [Plugins!Providers -> BOOLEAN]
  BY DEF Kept
<1>2. Plugins!ToSet(lists'.all) \cup Plugins!ToSet(lists'.dflt) \cup lists'.wired
        \subseteq Plugins!Providers
  BY KeptTypes
<1>3. Plugins!TypeOK'
  BY <1>1, <1>2 DEF PluginInv, Plugins!TypeOK
<1>4. WiredIfEnabled'
  BY DEF PluginInv, WiredIfEnabled
<1> QED BY <1>3, <1>4 DEF PluginInv

LEMMA PluginsInit == Plugins!Init => PluginInv
<1> SUFFICES ASSUME Plugins!Init PROVE PluginInv
  OBVIOUS
<1>1. \A V : V = {} => Plugins!ToSet(<<>>) = V
  BY DEF Plugins!ToSet
<1>2. Plugins!Empty.all = <<>> /\ Plugins!Empty.dflt = <<>> /\ Plugins!Empty.wired = {}
  BY DEF Plugins!Empty
<1>3. Plugins!ToSet(lists.all) \cup Plugins!ToSet(lists.dflt) \cup lists.wired
        \subseteq Plugins!Providers
  <2>1. lists.all = <<>> /\ lists.dflt = <<>> /\ lists.wired = {}
    BY <1>2 DEF Plugins!Init
  <2>2. Plugins!ToSet(<<>>) = {}
    BY <1>1
  <2> QED BY <2>1, <2>2
<1>4. 1 \in ShardCounts
  BY PluginsAssumption
<1>5. Plugins!TypeOK
  BY <1>3, <1>4 DEF Plugins!Init, Plugins!TypeOK
<1> QED BY <1>5 DEF Plugins!Init, PluginInv

\* While a plugin is activated or deactivated it may offer another array.
LEMMA OfferedKept ==
    ASSUME PluginInv, loaded = "up", NEW p \in Plugins!Plugins, NEW array \in Arrays[p]
    PROVE  LET r == Plugins!Offered(lists, flag, p, array, enabled[p])
               A == Plugins!ToSet(array)
           IN (enabled[p] => Leaves(r, lists.wired \cup A)) /\ (~enabled[p] => Leaves(r, lists.wired \ A))
<1> DEFINE A == Plugins!ToSet(array)
           r == Plugins!Offered(lists, flag, p, array, enabled[p])
<1>1. Kept(lists, flag) /\ Ordered(lists.all, shards) /\ WiredIfEnabled
  BY DEF PluginInv
<1>2. ASSUME array = offered[p]
      PROVE  (enabled[p] => Leaves(r, lists.wired \cup A)) /\ (~enabled[p] => Leaves(r, lists.wired \ A))
  <2>1. r = [lists |-> lists, flag |-> flag]
    BY <1>2, Zenon DEF Plugins!Offered
  <2>2. r.lists = lists /\ r.flag = flag
    BY <2>1
  <2>3. \A v \in A : v \in lists.wired <=> enabled[p]
    BY <1>1, <1>2, Zenon DEF WiredIfEnabled
  <2> HIDE DEF A, r
  <2>4. Leaves(r, lists.wired)
    BY <1>1, <2>2 DEF Leaves
  <2>5. ASSUME enabled[p] PROVE lists.wired = lists.wired \cup A
    <3>1. \A v \in A : v \in lists.wired
      BY <2>3, <2>5, Zenon
    <3> QED BY <3>1
  <2>6. ASSUME ~enabled[p] PROVE lists.wired = lists.wired \ A
    <3>1. \A v \in A : v \notin lists.wired
      BY <2>3, <2>6, Zenon
    <3> QED BY <3>1
  <2> QED BY <2>4, <2>5, <2>6, Zenon
<1>3. ASSUME array # offered[p]
      PROVE  (enabled[p] => Leaves(r, lists.wired \cup A)) /\ (~enabled[p] => Leaves(r, lists.wired \ A))
  <2>1. r = Plugins!Offer(lists, flag, p, array, enabled[p])
    BY <1>3, Zenon DEF Plugins!Offered
  <2>2. byDefault[p] \in BOOLEAN /\ enabled[p] \in BOOLEAN
        /\ \A v \in Plugins!Providers : shards[v] \in Int
    BY PluginTypes
  <2>3. Each(array, A) /\ A \in SUBSET Plugins!Providers
    BY ArrayFacts
  <2> HIDE DEF A, r
  <2>4. /\ enabled[p] => Leaves(Plugins!Offer(lists, flag, p, array, enabled[p]), lists.wired \cup A)
        /\ ~enabled[p] => Leaves(Plugins!Offer(lists, flag, p, array, enabled[p]), lists.wired \ A)
    BY <1>1, <2>2, <2>3, OfferKept
  <2> QED BY <2>1, <2>4, Zenon
<1> QED BY <1>2, <1>3, Zenon

LEMMA PluginsSwitchOn ==
    ASSUME PluginInv, NEW p \in Plugins!Plugins, Plugins!SwitchOn(p) PROVE PluginInv'
<1>1. loaded = "up" /\ loaded' = "up" /\ ~setting[p] /\ byDefault' = byDefault /\ shards' = shards
  BY DEF Plugins!SwitchOn
<1>2. ~enabled[p]
  BY <1>1, Zenon DEF PluginInv
<1>3. PICK ok \in BOOLEAN, array \in Arrays[p] :
        LET m == Plugins!Offered(lists, flag, p, array, enabled[p])
            n == IF ok THEN Plugins!on_plugin_enabled_changed(m.lists, m.flag, p, array, TRUE)
                 ELSE m
        IN /\ offered' = [offered EXCEPT ![p] = array]
           /\ enabled' = [enabled EXCEPT ![p] = ok]
           /\ setting' = [setting EXCEPT ![p] = ok]
           /\ lists' = n.lists /\ flag' = n.flag
  BY Zenon DEF Plugins!SwitchOn
<1> DEFINE A == Plugins!ToSet(array)
           m == Plugins!Offered(lists, flag, p, array, enabled[p])
           gl == Plugins!Flags(m.flag, array, byDefault[p])
           added == Plugins!add_providers(m.lists, array, m.flag, byDefault[p])
<1>4. Each(array, A) /\ A \in SUBSET Plugins!Providers
  BY ArrayFacts
<1>5. Kept(m.lists, m.flag) /\ Ordered(m.lists.all, shards) /\ m.lists.wired = lists.wired \ A
  <2>1. Leaves(m, lists.wired \ A)
    BY <1>1, <1>2, OfferedKept, Zenon
  <2> QED BY <2>1, Zenon DEF Leaves
<1>6. byDefault[p] \in BOOLEAN /\ \A v \in Plugins!Providers : shards[v] \in Int
  BY PluginTypes
<1>7. /\ offered' = [offered EXCEPT ![p] = array]
      /\ enabled' = [enabled EXCEPT ![p] = ok]
      /\ setting' = enabled'
  BY <1>3 DEF PluginInv
<1>8. /\ Kept(lists', flag') /\ Ordered(lists'.all, shards)
      /\ lists'.wired = IF ok THEN lists.wired \cup A ELSE lists.wired \ A
  <2>1. CASE ok
    <3>1. lists' = [lists |-> added, flag |-> gl].lists /\ flag' = [lists |-> added, flag |-> gl].flag
      BY <1>3, <2>1, Zenon DEF Plugins!on_plugin_enabled_changed
    <3>2. lists' = added /\ flag' = gl
      BY <3>1
    <3>3. A \cap m.lists.wired = {}
      BY <1>5
    <3> HIDE DEF m, A
    <3>4. Kept(added, gl) /\ added.wired = m.lists.wired \cup A /\ Ordered(added.all, shards)
      BY <1>4, <1>5, <1>6, <3>3, AddKept
    <3>5. m.lists.wired \cup A = lists.wired \cup A
      BY <1>5
    <3> HIDE DEF added, gl
    <3> QED BY <2>1, <3>2, <3>4, <3>5
  <2>2. CASE ~ok
    <3>1. lists' = m.lists /\ flag' = m.flag
      BY <1>3, <2>2, Zenon
    <3> HIDE DEF m, A
    <3> QED BY <1>5, <2>2, <3>1
  <2> QED BY <2>1, <2>2
<1> HIDE DEF m, gl, added
<1>9. array \in Arrays[p] \cup {<<>>}
  OBVIOUS
<1> QED BY <1>1, <1>7, <1>8, <1>9, PluginHandled DEF A

LEMMA PluginsSwitchOff ==
    ASSUME PluginInv, NEW p \in Plugins!Plugins, Plugins!SwitchOff(p) PROVE PluginInv'
<1>1. loaded = "up" /\ loaded' = "up" /\ setting[p] /\ byDefault' = byDefault /\ shards' = shards
  BY DEF Plugins!SwitchOff
<1>2. enabled[p]
  BY <1>1, Zenon DEF PluginInv
<1>3. PICK array \in Arrays[p] :
        LET m == Plugins!Offered(lists, flag, p, array, enabled[p])
            n == Plugins!on_plugin_enabled_changed(m.lists, m.flag, p, array, FALSE)
        IN /\ offered' = [offered EXCEPT ![p] = array]
           /\ lists' = n.lists /\ flag' = n.flag
  BY Zenon DEF Plugins!SwitchOff
<1> DEFINE A == Plugins!ToSet(array)
           m == Plugins!Offered(lists, flag, p, array, enabled[p])
           rest == Plugins!Drop(m.lists, A)
<1>5. Kept(m.lists, m.flag) /\ Ordered(m.lists.all, shards) /\ m.lists.wired = lists.wired \cup A
  <2>1. Leaves(m, lists.wired \cup A)
    BY <1>1, <1>2, OfferedKept, Zenon
  <2> QED BY <2>1, Zenon DEF Leaves
<1>7. /\ offered' = [offered EXCEPT ![p] = array]
      /\ enabled' = [enabled EXCEPT ![p] = FALSE]
      /\ setting' = enabled'
  BY <1>3 DEF PluginInv, Plugins!SwitchOff
<1>8. /\ Kept(lists', flag') /\ Ordered(lists'.all, shards)
      /\ lists'.wired = lists.wired \ A
  <2>1. lists' = [lists |-> rest, flag |-> m.flag].lists
        /\ flag' = [lists |-> rest, flag |-> m.flag].flag
    BY <1>3, Zenon DEF Plugins!on_plugin_enabled_changed, Plugins!remove_providers
  <2>2. lists' = rest /\ flag' = m.flag
    BY <2>1
  <2> HIDE DEF m, A
  <2>3. Kept(rest, m.flag) /\ rest.wired = m.lists.wired \ A /\ Ordered(rest.all, shards)
    BY <1>5, DropKept
  <2>4. m.lists.wired \ A = lists.wired \ A
    BY <1>5
  <2> HIDE DEF rest
  <2> QED BY <2>2, <2>3, <2>4
<1> HIDE DEF m, rest
<1>9. array \in Arrays[p] \cup {<<>>} /\ FALSE \in BOOLEAN
  OBVIOUS
<1>10. lists'.wired = IF FALSE THEN lists.wired \cup A ELSE lists.wired \ A
  BY <1>8
<1> QED BY <1>1, <1>7, <1>8, <1>9, <1>10, PluginHandled DEF A

LEMMA PluginsChangeOffer ==
    ASSUME PluginInv, NEW p \in Plugins!Plugins, Plugins!ChangeOffer(p) PROVE PluginInv'
<1>1. /\ loaded = "up" /\ loaded' = "up" /\ setting' = setting /\ enabled' = enabled
      /\ byDefault' = byDefault /\ shards' = shards
  BY DEF Plugins!ChangeOffer
<1>2. PICK array \in Arrays[p] \ {offered[p]} :
        LET m == Plugins!Offer(lists, flag, p, array, enabled[p])
        IN /\ lists' = m.lists /\ flag' = m.flag
           /\ offered' = [offered EXCEPT ![p] = array]
  BY Zenon DEF Plugins!ChangeOffer
<1> DEFINE A == Plugins!ToSet(array)
           m == Plugins!Offer(lists, flag, p, array, enabled[p])
<1>3. array \in Arrays[p] /\ array \in Arrays[p] \cup {<<>>}
  OBVIOUS
<1>4. Each(array, A) /\ A \in SUBSET Plugins!Providers
  BY <1>3, ArrayFacts
<1>5. /\ Kept(lists, flag) /\ Ordered(lists.all, shards)
      /\ byDefault[p] \in BOOLEAN /\ enabled[p] \in BOOLEAN
      /\ enabled \in [Plugins!Plugins -> BOOLEAN] /\ enabled = setting
      /\ \A v \in Plugins!Providers : shards[v] \in Int
  BY <1>1, PluginTypes DEF PluginInv
<1>6. lists' = m.lists /\ flag' = m.flag
  BY <1>2, Zenon
<1>7. PICK on \in BOOLEAN : on = enabled[p]
  BY <1>5
<1> HIDE DEF m, A
<1>8. /\ enabled[p] => Leaves(m, lists.wired \cup A)
      /\ ~enabled[p] => Leaves(m, lists.wired \ A)
  BY <1>4, <1>5, OfferKept DEF m
<1>9. Leaves(m, IF on THEN lists.wired \cup A ELSE lists.wired \ A)
  <2>1. CASE on
    BY <1>7, <1>8, <2>1, Zenon
  <2>2. CASE ~on
    BY <1>7, <1>8, <2>2, Zenon
  <2> QED BY <2>1, <2>2
<1>10. /\ Kept(lists', flag') /\ Ordered(lists'.all, shards)
       /\ lists'.wired = IF on THEN lists.wired \cup A ELSE lists.wired \ A
  BY <1>6, <1>9, Zenon DEF Leaves
<1>11. enabled' = [enabled EXCEPT ![p] = on] /\ setting' = enabled'
  BY <1>1, <1>5, <1>7
<1>12. offered' = [offered EXCEPT ![p] = array]
  BY <1>2, Zenon
<1> QED BY <1>1, <1>3, <1>10, <1>11, <1>12, PluginHandled DEF A

LEMMA PluginsSetDefault ==
    ASSUME PluginInv, NEW p \in Plugins!Plugins, Plugins!SetDefault(p) PROVE PluginInv'
<1>1. /\ loaded = "up" /\ UNCHANGED <<loaded, setting, enabled, offered, shards>>
      /\ byDefault' = [byDefault EXCEPT ![p] = ~@]
      /\ lists' = Plugins!ApplyDefault(lists, offered[p], flag, byDefault'[p])
      /\ flag' = Plugins!Flags(flag, offered[p], byDefault'[p])
  BY DEF Plugins!SetDefault
<1>2. /\ Kept(lists, flag) /\ Ordered(lists.all, shards)
      /\ byDefault \in [Plugins!Plugins -> BOOLEAN]
      /\ shards \in [Plugins!Providers -> ShardCounts]
      /\ offered[p] \in Arrays[p] \cup {<<>>}
  BY <1>1, PluginTypes DEF PluginInv
<1>3. byDefault' \in [Plugins!Plugins -> BOOLEAN]
  BY <1>1, <1>2
<1>4. byDefault'[p] \in BOOLEAN
  BY <1>3
<1>5. Each(offered[p], Plugins!ToSet(offered[p]))
  BY <1>2, ArrayFacts
<1>6. PICK on \in BOOLEAN : on = byDefault'[p]
  BY <1>4
<1>7. lists' = Plugins!ApplyDefault(lists, offered[p], flag, on)
      /\ flag' = Plugins!Flags(flag, offered[p], on)
  BY <1>1, <1>6
<1>8. /\ Kept(Plugins!ApplyDefault(lists, offered[p], flag, on), Plugins!Flags(flag, offered[p], on))
      /\ Plugins!ApplyDefault(lists, offered[p], flag, on).wired = lists.wired
      /\ Plugins!ApplyDefault(lists, offered[p], flag, on).all = lists.all
  BY <1>2, <1>5, ApplyKept
<1>9. Kept(lists', flag') /\ lists'.wired = lists.wired /\ Ordered(lists'.all, shards')
  BY <1>1, <1>2, <1>7, <1>8
<1>10. shards' \in [Plugins!Providers -> ShardCounts]
  BY <1>1, <1>2
<1> QED BY <1>1, <1>3, <1>9, <1>10, ProvidersHandled

LEMMA PluginsSetShards ==
    ASSUME PluginInv, NEW v \in Plugins!Providers, Plugins!SetShards(v) PROVE PluginInv'
<1>1. /\ loaded = "up" /\ UNCHANGED <<loaded, setting, enabled, offered, byDefault, flag>>
      /\ lists' = IF v \in lists.wired THEN [lists EXCEPT !.all = Plugins!Sorted(@, shards')]
                  ELSE lists
  BY DEF Plugins!SetShards
<1>2. PICK n \in ShardCounts : shards' = [shards EXCEPT ![v] = n]
  BY DEF Plugins!SetShards
<1>3. /\ Kept(lists, flag) /\ Ordered(lists.all, shards)
      /\ byDefault \in [Plugins!Plugins -> BOOLEAN]
      /\ shards \in [Plugins!Providers -> ShardCounts]
      /\ flag \in [Plugins!Providers -> BOOLEAN]
  BY <1>1, PluginTypes DEF PluginInv
<1>4. shards' \in [Plugins!Providers -> ShardCounts]
  BY <1>2, <1>3
<1>5. /\ lists = [all |-> lists.all, dflt |-> lists.dflt, wired |-> lists.wired]
      /\ lists.wired \in SUBSET Plugins!Providers
      /\ Each(lists.all, lists.wired) /\ Each(lists.dflt, Chosen(lists.wired, flag))
  BY <1>3, KeptRecord
<1>6. Kept(lists', flag') /\ lists'.wired = lists.wired /\ Ordered(lists'.all, shards')
  <2>1. CASE v \in lists.wired
    <3> DEFINE b == Plugins!Sorted(lists.all, shards')
               sh == shards'
    <3>1. lists' = [all |-> b, dflt |-> lists.dflt, wired |-> lists.wired]
      BY <1>1, <1>5, <2>1
    <3>2. \A w \in lists.wired : sh[w] \in Int
      <4>1. \A c \in ShardCounts : c \in Int
        BY PluginsAssumption
      <4> TAKE w \in lists.wired
      <4>2. sh[w] \in ShardCounts
        BY <1>4, <1>5
      <4> QED BY <4>1, <4>2
    <3>3. b = Plugins!Sorted(lists.all, sh)
      OBVIOUS
    <3> HIDE DEF b, sh
    <3>4. Each(b, lists.wired) /\ Ordered(b, sh)
      BY <1>5, <3>2, <3>3, SortedFacts
    <3>5. Kept([all |-> b, dflt |-> lists.dflt, wired |-> lists.wired], flag)
      BY <1>3, <1>5, <3>4, KeptBuilt
    <3>6. lists'.all = b /\ lists'.wired = lists.wired /\ flag' = flag
      BY <1>1, <3>1
    <3>7. Kept(lists', flag')
      BY <3>1, <3>5, <3>6
    <3> QED BY <3>4, <3>6, <3>7 DEF sh
  <2>2. CASE v \notin lists.wired
    <3>1. lists' = lists /\ flag' = flag
      BY <1>1, <2>2
    <3>2. \A w \in lists.wired : shards'[w] = shards[w]
      BY <1>2, <1>3, <1>5, <2>2
    <3>3. \A i \in DOMAIN lists.all : lists.all[i] \in lists.wired
      BY <1>5, EachTypes
    <3>4. Ordered(lists.all, shards')
      BY <1>3, <3>2, <3>3 DEF Ordered
    <3> QED BY <1>3, <3>1, <3>4
  <2> QED BY <2>1, <2>2
<1>7. byDefault' \in [Plugins!Plugins -> BOOLEAN]
  BY <1>1, <1>3
<1> QED BY <1>1, <1>4, <1>6, <1>7, ProvidersHandled

LEMMA PluginsSetFlag ==
    ASSUME PluginInv, NEW v \in Plugins!Providers, Plugins!SetFlag(v) PROVE PluginInv'
<1>1. /\ loaded = "up" /\ UNCHANGED <<loaded, setting, enabled, offered, byDefault, shards>>
      /\ flag' = [flag EXCEPT ![v] = ~@]
      /\ lists' = Plugins!DefaultChanged(lists, <<v>>, {v}, flag'[v])
  BY DEF Plugins!SetFlag
<1>2. /\ Kept(lists, flag) /\ Ordered(lists.all, shards)
      /\ byDefault \in [Plugins!Plugins -> BOOLEAN]
      /\ shards \in [Plugins!Providers -> ShardCounts]
      /\ flag \in [Plugins!Providers -> BOOLEAN]
  BY <1>1, PluginTypes DEF PluginInv
<1> DEFINE gl == flag'
<1>3. gl \in [Plugins!Providers -> BOOLEAN]
  BY <1>1, <1>2
<1>4. PICK on \in BOOLEAN : on = gl[v]
  BY <1>3
<1>5. \A w \in Plugins!Providers : gl[w] <=> IF w \in {v} THEN on ELSE flag[w]
  BY <1>1, <1>2, <1>4
<1>6. Each(<<v>>, {v})
  <2>1. <<v>> \in Seq({v}) /\ DOMAIN <<v>> = {1} /\ <<v>>[1] = v
    OBVIOUS
  <2> QED BY <2>1 DEF Each
<1>7. lists' = Plugins!DefaultChanged(lists, <<v>>, {v}, on)
  BY <1>1, <1>4
<1> HIDE DEF gl
<1>8. /\ Kept(Plugins!DefaultChanged(lists, <<v>>, {v}, on), gl)
      /\ Plugins!DefaultChanged(lists, <<v>>, {v}, on).wired = lists.wired
      /\ Plugins!DefaultChanged(lists, <<v>>, {v}, on).all = lists.all
  <2>1. {v} \subseteq {v}
    OBVIOUS
  <2> QED BY <1>2, <1>3, <1>5, <1>6, <2>1, DefaultKept
<1>9. Kept(lists', flag') /\ lists'.wired = lists.wired /\ Ordered(lists'.all, shards')
  BY <1>1, <1>2, <1>7, <1>8 DEF gl
<1>10. shards' \in [Plugins!Providers -> ShardCounts] /\ byDefault' \in [Plugins!Plugins -> BOOLEAN]
  BY <1>1, <1>2
<1> QED BY <1>1, <1>9, <1>10, ProvidersHandled

LEMMA NoneListed ==
    /\ Plugins!ToSet(Plugins!Empty.all) \cup Plugins!ToSet(Plugins!Empty.dflt)
         \cup Plugins!Empty.wired = {}
<1>1. Plugins!Empty.all = <<>> /\ Plugins!Empty.dflt = <<>> /\ Plugins!Empty.wired = {}
  BY DEF Plugins!Empty
<1>2. Plugins!ToSet(<<>>) = {}
  BY DEF Plugins!ToSet
<1> QED BY <1>1, <1>2

LEMMA PluginsShutdown == ASSUME PluginInv, Plugins!Shutdown PROVE PluginInv'
<1>1. /\ loaded' = "down" /\ lists' = Plugins!Empty
      /\ UNCHANGED <<setting, byDefault, enabled, offered, flag, shards>>
  BY DEF Plugins!Shutdown
<1>2. Plugins!ToSet(lists'.all) \cup Plugins!ToSet(lists'.dflt) \cup lists'.wired
        \subseteq Plugins!Providers
  BY <1>1, NoneListed
<1>3. Plugins!TypeOK'
  BY <1>1, <1>2 DEF PluginInv, Plugins!TypeOK
<1> QED BY <1>1, <1>3 DEF PluginInv

\* The providers that are listed as the loader comes up: those of the plugins
\* that are up, in their order.
LEMMA StartListed ==
    ASSUME NEW live \in SUBSET Plugins!Plugins,
           NEW arrays, \A p \in Plugins!Plugins : arrays[p] \in Arrays[p]
    PROVE  LET start == Plugins!Only(Plugin, live)
               listed == Plugins!FlattenSeq([i \in DOMAIN start |-> arrays[start[i]]])
           IN Each(listed, UNION {Plugins!ToSet(arrays[p]) : p \in live})
<1> DEFINE start == Plugins!Only(Plugin, live)
           s == [i \in DOMAIN start |-> arrays[start[i]]]
           n == Len(start)
           U == [i \in 1 .. n |-> Plugins!ToSet(arrays[start[i]])]
           W == UNION {Plugins!ToSet(arrays[p]) : p \in live}
<1>1. Each(Plugin, Plugins!Plugins)
  <2>1. \A p \in Plugins!Plugins : \E i \in DOMAIN Plugin : Plugin[i] = p
    BY DEF Plugins!Plugins, Plugins!ToSet
  <2> QED BY <2>1, PluginsAssumption DEF Each
<1>2. Each(start, Plugins!Plugins \cap live)
  BY <1>1, OnlyFacts
<1>3. Plugins!Plugins \cap live = live
  OBVIOUS
<1>4. Each(start, live)
  BY <1>2, <1>3
<1> HIDE DEF start
<1>5. n \in Nat /\ DOMAIN start = 1 .. n /\ \A i \in 1 .. n : start[i] \in live
  BY <1>4, EachTypes
<1>6. \A i \in 1 .. n : start[i] \in Plugins!Plugins /\ arrays[start[i]] \in Arrays[start[i]]
  BY <1>5
<1>7. ASSUME NEW i \in 1 .. n
      PROVE  /\ s[i] = arrays[start[i]] /\ U[i] = Plugins!ToSet(s[i])
             /\ Each(s[i], U[i]) /\ U[i] \in SUBSET Plugins!Offers(start[i])
             /\ U[i] \in SUBSET Plugins!Providers
  <2>1. s[i] = arrays[start[i]] /\ U[i] = Plugins!ToSet(s[i])
    BY <1>5
  <2>2. arrays[start[i]] \in Arrays[start[i]] \cup {<<>>} /\ start[i] \in Plugins!Plugins
    BY <1>6
  <2> HIDE DEF s, U, n
  <2> QED BY <2>1, <2>2, ArrayFacts
<1>8. s \in Seq(Seq(Plugins!Providers)) /\ Len(s) = n
  <2>1. \A i \in 1 .. n : s[i] \in Seq(Plugins!Providers)
    <3> HIDE DEF s, U, n
    <3> QED BY <1>7, EachSeq
  <2>2. s \in [1 .. n -> Seq(Plugins!Providers)]
    BY <1>5, <2>1
  <2> HIDE DEF s, n
  <2> QED BY <1>5, <2>2, SeqDef
<1>9. ASSUME NEW i \in 1 .. n, NEW j \in 1 .. n, i # j PROVE U[i] \cap U[j] = {}
  <2>1. start[i] # start[j]
    BY <1>4, <1>5, <1>9 DEF Each
  <2>2. Plugins!Offers(start[i]) \cap Plugins!Offers(start[j]) = {}
    BY <1>6, <2>1, PluginsAssumption
  <2>3. U[i] \in SUBSET Plugins!Offers(start[i]) /\ U[j] \in SUBSET Plugins!Offers(start[j])
    BY <1>7
  <2> HIDE DEF U
  <2> QED BY <2>2, <2>3
<1>10. UpTo(U, n) = W
  <2>1. \A v : v \in UpTo(U, n) <=> \E i \in 1 .. n : v \in U[i]
    BY DEF UpTo
  <2>2. \A i \in 1 .. n : U[i] = Plugins!ToSet(arrays[start[i]])
    OBVIOUS
  <2>3. \A p \in live : \E i \in 1 .. n : start[i] = p
    BY <1>4, <1>5 DEF Each
  <2> HIDE DEF U, n
  <2>4. \A v : v \in W <=> \E p \in live : v \in Plugins!ToSet(arrays[p])
    OBVIOUS
  <2> HIDE DEF W
  <2>5. \A v : v \in UpTo(U, n) <=> v \in W
    BY <1>5, <2>1, <2>2, <2>3, <2>4
  <2> QED BY <2>5
<1> HIDE DEF s, U, n
<1>11. Each(Plugins!FlattenSeq(s), UpTo(U, n))
  BY <1>5, <1>7, <1>8, <1>9, FlattenedEach
<1>12. Each(Plugins!FlattenSeq(s), W)
  BY <1>10, <1>11
<1> QED BY <1>12 DEF s, start

LEMMA PluginsInitialize == ASSUME PluginInv, Plugins!Initialize PROVE PluginInv'
<1>1. loaded' = "up" /\ shards' = shards
  BY DEF Plugins!Initialize
<1>2. PICK want \in [Plugins!Plugins -> BOOLEAN], on \in [Plugins!Plugins -> BOOLEAN],
           ready \in SUBSET Plugins!Plugins,
           arrays \in {f \in [Plugins!Plugins -> UNION {Arrays[p] : p \in Plugins!Plugins}] :
                         \A p \in Plugins!Plugins : f[p] \in Arrays[p]} :
        LET live == Plugins!initialize_plugin(want, ready)
            start == Plugins!Only(Plugin, live)
            listed == Plugins!FlattenSeq([i \in DOMAIN start |-> arrays[start[i]]])
            of(v) == CHOOSE p \in Plugins!Plugins : v \in Plugins!Offers(p)
            final == [v \in Plugins!Providers |->
                        IF v \in Plugins!ToSet(listed) THEN on[of(v)] ELSE flag[v]]
            all == Plugins!Sorted(listed, shards)
        IN /\ setting' = [p \in Plugins!Plugins |-> p \in live]
           /\ enabled' = setting'
           /\ byDefault' = on
           /\ offered' = arrays
           /\ flag' = final
           /\ lists' = [all |-> all, wired |-> Plugins!ToSet(all),
                        dflt |-> Plugins!Only(listed, {v \in Plugins!Providers : final[v]})]
  BY Zenon DEF Plugins!Initialize
<1> DEFINE live == Plugins!initialize_plugin(want, ready)
           start == Plugins!Only(Plugin, live)
           listed == Plugins!FlattenSeq([i \in DOMAIN start |-> arrays[start[i]]])
           of(v) == CHOOSE p \in Plugins!Plugins : v \in Plugins!Offers(p)
           final == [v \in Plugins!Providers |->
                       IF v \in Plugins!ToSet(listed) THEN on[of(v)] ELSE flag[v]]
           all == Plugins!Sorted(listed, shards)
           W == UNION {Plugins!ToSet(arrays[p]) : p \in live}
<1>3. /\ setting' = [p \in Plugins!Plugins |-> p \in live]
      /\ enabled' = setting' /\ byDefault' = on /\ offered' = arrays /\ flag' = final
      /\ lists' = [all |-> all, wired |-> Plugins!ToSet(all),
                   dflt |-> Plugins!Only(listed, {v \in Plugins!Providers : final[v]})]
  BY <1>2, Zenon
<1>4. live \in SUBSET Plugins!Plugins
  BY DEF Plugins!initialize_plugin
<1>5. arrays \in [Plugins!Plugins -> UNION {Arrays[p] : p \in Plugins!Plugins}]
      /\ \A p \in Plugins!Plugins : arrays[p] \in Arrays[p]
  OBVIOUS
<1>6. /\ \A v \in Plugins!Providers : shards[v] \in Int
      /\ shards \in [Plugins!Providers -> ShardCounts]
      /\ flag \in [Plugins!Providers -> BOOLEAN]
  BY PluginTypes
<1>7. Each(listed, W)
  <2> HIDE DEF live
  <2> QED BY <1>4, <1>5, StartListed
<1>8. \A v : v \in W <=> \E p \in live : v \in Plugins!ToSet(arrays[p])
  <2> HIDE DEF live
  <2> QED OBVIOUS
<1>9. \A p \in Plugins!Plugins : /\ Plugins!ToSet(arrays[p]) \in SUBSET Plugins!Offers(p)
                                 /\ Plugins!ToSet(arrays[p]) \in SUBSET Plugins!Providers
  BY <1>5, ArrayFacts
<1> HIDE DEF live, listed, W
<1>10. W \in SUBSET Plugins!Providers
  BY <1>4, <1>8, <1>9
<1>11. final \in [Plugins!Providers -> BOOLEAN]
  <2>1. ASSUME NEW v \in Plugins!Providers PROVE on[of(v)] \in BOOLEAN
    <3>1. \E p \in Plugins!Plugins : v \in Plugins!Offers(p)
      BY DEF Plugins!Providers
    <3>2. of(v) \in Plugins!Plugins
      BY <3>1
    <3> HIDE DEF of
    <3> QED BY <3>2
  <2> HIDE DEF of
  <2>2. ASSUME NEW v \in Plugins!Providers
        PROVE  (IF v \in Plugins!ToSet(listed) THEN on[of(v)] ELSE flag[v]) \in BOOLEAN
    BY <1>6, <2>1
  <2> QED BY <2>2
<1> HIDE DEF final
<1>12. Each(all, W) /\ Ordered(all, shards)
  <2>1. \A v \in W : shards[v] \in Int
    BY <1>6, <1>10
  <2> QED BY <1>7, <2>1, SortedFacts
<1> HIDE DEF all
<1>13. Plugins!ToSet(all) = W
  BY <1>12, ToSetIs
<1> DEFINE T == {v \in Plugins!Providers : final[v]}
           d == Plugins!Only(listed, T)
<1>14. Each(d, Chosen(W, final))
  <2>1. Each(d, W \cap T)
    BY <1>7, OnlyFacts
  <2>2. W \cap T = Chosen(W, final)
    BY <1>10 DEF Chosen
  <2> HIDE DEF d, T
  <2> QED BY <2>1, <2>2
<1>15. lists' = [all |-> all, dflt |-> d, wired |-> W]
  BY <1>3, <1>13
<1> HIDE DEF d
<1>16. Kept([all |-> all, dflt |-> d, wired |-> W], final)
  BY <1>10, <1>11, <1>12, <1>14, KeptBuilt
<1>17. Kept(lists', flag') /\ lists'.wired = W /\ lists'.all = all
  BY <1>3, <1>15, <1>16
<1>18. Ordered(lists'.all, shards')
  BY <1>1, <1>12, <1>17
<1>19. Plugins!ToSet(lists'.all) \cup Plugins!ToSet(lists'.dflt) \cup lists'.wired
         \subseteq Plugins!Providers
  BY <1>17, KeptTypes
<1>20. /\ setting' \in [Plugins!Plugins -> BOOLEAN] /\ enabled' = setting'
       /\ \A p \in Plugins!Plugins : enabled'[p] <=> p \in live
  <2>1. setting' = [p \in Plugins!Plugins |-> p \in live] /\ enabled' = setting'
    BY <1>3
  <2>2. \A p \in Plugins!Plugins : (p \in live) \in BOOLEAN
    OBVIOUS
  <2>3. setting' \in [Plugins!Plugins -> BOOLEAN]
    BY <2>1, <2>2, Zenon
  <2>4. \A p \in Plugins!Plugins : enabled'[p] <=> p \in live
    BY <2>1, Zenon
  <2> QED BY <2>1, <2>3, <2>4
<1>21. Plugins!TypeOK'
  <2>1. \A p \in Plugins!Plugins : offered'[p] \in Arrays[p] \cup {<<>>}
    BY <1>3, <1>5
  <2>2. byDefault' \in [Plugins!Plugins -> BOOLEAN] /\ flag' \in [Plugins!Providers -> BOOLEAN]
        /\ shards' \in [Plugins!Providers -> ShardCounts]
    BY <1>1, <1>3, <1>6, <1>11
  <2> QED BY <1>1, <1>19, <1>20, <2>1, <2>2 DEF Plugins!TypeOK
<1>22. WiredIfEnabled'
  <2>1. ASSUME NEW p \in Plugins!Plugins, NEW v \in Plugins!ToSet(arrays[p])
        PROVE  v \in W <=> p \in live
    <3>1. ASSUME NEW q \in live, v \in Plugins!ToSet(arrays[q]) PROVE q = p
      <4>1. v \in Plugins!Offers(p) /\ v \in Plugins!Offers(q) /\ q \in Plugins!Plugins
        BY <1>4, <1>9, <3>1
      <4> QED BY <4>1, PluginsAssumption
    <3> QED BY <1>8, <3>1
  <2>2. lists'.wired = W /\ offered' = arrays
    BY <1>3, <1>17
  <2>3. ASSUME NEW p \in Plugins!Plugins, NEW v \in Plugins!ToSet(offered'[p])
        PROVE  v \in lists'.wired <=> enabled'[p]
    <3>1. v \in lists'.wired <=> p \in live
      BY <2>1, <2>2
    <3> QED BY <1>20, <3>1, Zenon
  <2> QED BY <2>3, Zenon DEF WiredIfEnabled
<1>23. offered' = [p \in Plugins!Plugins |-> offered'[p]]
  BY <1>3, <1>5
<1> QED BY <1>17, <1>18, <1>20, <1>21, <1>22, <1>23 DEF PluginInv

LEMMA PluginsNext == PluginInv /\ [Plugins!Next]_(Plugins!vars) => PluginInv'
<1> SUFFICES ASSUME PluginInv, [Plugins!Next]_(Plugins!vars) PROVE PluginInv'
  OBVIOUS
<1>1. CASE Plugins!Initialize
  BY <1>1, PluginsInitialize
<1>2. CASE \E p \in Plugins!Plugins : \/ Plugins!SwitchOn(p) \/ Plugins!SwitchOff(p)
                                      \/ Plugins!SetDefault(p) \/ Plugins!ChangeOffer(p)
  BY <1>2, PluginsSwitchOn, PluginsSwitchOff, PluginsSetDefault, PluginsChangeOffer
<1>3. CASE \E v \in Plugins!Providers : Plugins!SetShards(v) \/ Plugins!SetFlag(v)
  BY <1>3, PluginsSetShards, PluginsSetFlag
<1>4. CASE Plugins!Shutdown
  BY <1>4, PluginsShutdown
<1>5. CASE UNCHANGED Plugins!vars
  <2>1. UNCHANGED <<loaded, setting, byDefault, enabled, offered, flag, shards, lists>>
    BY <1>5 DEF Plugins!vars
  <2>2. Plugins!TypeOK'
    BY <2>1 DEF PluginInv, Plugins!TypeOK
  <2>3. loaded = "up" => WiredIfEnabled'
    BY <2>1 DEF PluginInv, WiredIfEnabled
  <2> QED BY <2>1, <2>2, <2>3 DEF PluginInv
<1> QED BY <1>1, <1>2, <1>3, <1>4, <1>5, Zenon DEF Plugins!Next

LEMMA PluginInvMeans == PluginInv => Plugins!OffersAreListed
<1> SUFFICES ASSUME PluginInv, loaded = "up" PROVE Plugins!OffersAreListed
  BY DEF Plugins!OffersAreListed
<1>1. Kept(lists, flag) /\ Ordered(lists.all, shards) /\ WiredIfEnabled
  BY DEF PluginInv
<1>2. Each(lists.all, lists.wired) /\ Each(lists.dflt, Chosen(lists.wired, flag))
  BY <1>1, KeptRecord
<1>3. ASSUME NEW p \in Plugins!Plugins, NEW v \in Plugins!ToSet(offered[p])
      PROVE  LET listed == IF enabled[p] THEN 1 ELSE 0
             IN /\ Plugins!Times(lists.all, v) = listed
                /\ v \in lists.wired <=> enabled[p]
                /\ Plugins!Times(lists.dflt, v) = IF flag[v] THEN listed ELSE 0
  <2>1. v \in lists.wired <=> enabled[p]
    BY <1>1 DEF WiredIfEnabled
  <2>2. Plugins!Times(lists.all, v) = IF v \in lists.wired THEN 1 ELSE 0
    BY <1>2, TimesIs
  <2>3. Plugins!Times(lists.dflt, v) = IF v \in Chosen(lists.wired, flag) THEN 1 ELSE 0
    BY <1>2, TimesIs
  <2>4. v \in Chosen(lists.wired, flag) <=> v \in lists.wired /\ flag[v]
    BY DEF Chosen
  <2>5. CASE enabled[p]
    <3>1. v \in lists.wired
      BY <2>1, <2>5, Zenon
    <3>2. Plugins!Times(lists.all, v) = 1
      BY <2>2, <3>1
    <3>3. Plugins!Times(lists.dflt, v) = IF flag[v] THEN 1 ELSE 0
      BY <2>3, <2>4, <3>1, Zenon
    <3> QED BY <2>1, <2>5, <3>2, <3>3, Zenon
  <2>6. CASE ~enabled[p]
    <3>1. v \notin lists.wired
      BY <2>1, <2>6, Zenon
    <3>2. Plugins!Times(lists.all, v) = 0
      BY <2>2, <3>1
    <3>3. Plugins!Times(lists.dflt, v) = 0
      BY <2>3, <2>4, <3>1, Zenon
    <3> QED BY <2>1, <2>6, <3>2, <3>3, Zenon
  <2> QED BY <2>5, <2>6
<1>4. \A i, j \in DOMAIN lists.all :
        i < j => shards[lists.all[i]] <= shards[lists.all[j]]
  BY <1>1 DEF Ordered
<1> QED BY <1>3, <1>4, Zenon DEF Plugins!OffersAreListed

\* While the loader is up, each provider that an enabled plugin offers is
\* searched, once, and by default if it wants to be, and no provider of a
\* disabled plugin is: whatever plugins, arrays and shard counts there are.
THEOREM PluginsAreListed == Plugins!Spec => []OffersAreListed
<1>1. PluginInv => OffersAreListed
  BY PluginInvMeans, Zenon DEF OffersAreListed
<1> QED BY PluginsInit, PluginsNext, <1>1, PTL DEF Plugins!Spec
=============================================================================
