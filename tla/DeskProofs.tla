----------------------------- MODULE DeskProofs -----------------------------
(***************************************************************************)
(* What the main thread keeps in step with what is outside it, for any     *)
(* values of the constants that the assumptions of Desk allow: the icon    *)
(* cache, the query, the table of the bus, the rows and the opening of     *)
(* files, each with the invariant it needs; then all of them together with *)
(* the lists of search providers (PluginProofs).                           *)
(***************************************************************************)
EXTENDS PluginProofs

-----------------------------------------------------------------------------
(* The icon cache.                                                         *)

IconsInv == Icons!TypeOK /\ StaleIsPending

LEMMA IconsInit == Icons!Init => IconsInv
<1> SUFFICES ASSUME Icons!Init PROVE IconsInv
  OBVIOUS
<1>1. Icons!TypeOK
  <2>1. watching \in BOOLEAN /\ timer \in BOOLEAN
    BY Zenon DEF Icons!Init
  <2>2. /\ disk \in [Entry -> 0 .. MaxVersion] /\ events \in Nat
        /\ cached \in [Entry -> Icons!Uncached .. MaxVersion]
    BY IconsAssumption DEF Icons!Init, Icons!Cleared, Icons!Uncached
  <2> QED BY <2>1, <2>2 DEF Icons!TypeOK
<1>2. \A e \in Entry : cached[e] = Icons!Uncached
  BY DEF Icons!Init, Icons!Cleared
<1>3. StaleIsPending
  BY <1>2 DEF StaleIsPending, Icons!StaleIsPending
<1> QED BY <1>1, <1>3 DEF IconsInv

LEMMA IconsNext == IconsInv /\ [Icons!Next]_(Icons!vars) => IconsInv'
<1> SUFFICES ASSUME IconsInv, [Icons!Next]_(Icons!vars) PROVE IconsInv'
  OBVIOUS
<1> USE IconsAssumption
<1>1. CASE UNCHANGED Icons!vars
  BY <1>1 DEF Icons!vars, IconsInv, Icons!TypeOK, StaleIsPending, Icons!StaleIsPending
<1>2. ASSUME NEW e \in Entry, Icons!FileChange(e) PROVE IconsInv'
  BY <1>2 DEF Icons!FileChange, IconsInv, Icons!TypeOK, StaleIsPending, Icons!StaleIsPending
<1>3. ASSUME NEW e \in Entry, Icons!Get(e) PROVE IconsInv'
  BY <1>3 DEF Icons!Get, IconsInv, Icons!TypeOK, StaleIsPending, Icons!StaleIsPending,
              Icons!Uncached
<1>4. CASE Icons!on_file_change
  BY <1>4 DEF Icons!on_file_change, IconsInv, Icons!TypeOK, StaleIsPending,
              Icons!StaleIsPending
<1>5. CASE Icons!debounced_cache_clear
  <2>1. /\ cached' = Icons!Cleared /\ timer' = FALSE
        /\ UNCHANGED <<disk, watching, events>>
    BY <1>5 DEF Icons!debounced_cache_clear
  <2>2. timer' \in BOOLEAN
    BY <2>1, Zenon
  <2>3. cached' \in [Entry -> Icons!Uncached .. MaxVersion]
    BY <2>1 DEF Icons!Cleared, Icons!Uncached
  <2>4. Icons!TypeOK'
    BY <2>1, <2>2, <2>3 DEF IconsInv, Icons!TypeOK
  <2>5. StaleIsPending'
    BY <2>1 DEF StaleIsPending, Icons!StaleIsPending, Icons!Cleared
  <2> QED BY <2>4, <2>5 DEF IconsInv
<1>6. CASE Icons!on_theme_changed
  BY <1>6 DEF Icons!on_theme_changed, Icons!Cleared, IconsInv, Icons!TypeOK,
              StaleIsPending, Icons!StaleIsPending, Icons!Uncached
<1> QED BY <1>1, <1>2, <1>3, <1>4, <1>5, <1>6 DEF Icons!Next

\* Whatever the order of changes, reports, lookups and timeouts, a stale entry of
\* the icon cache is on its way out as long as the directories are watched.
THEOREM StaleEntriesGo == Icons!Spec => []StaleIsPending
<1>1. IconsInv => StaleIsPending
  BY DEF IconsInv
<1> QED BY IconsInit, IconsNext, <1>1, PTL DEF Icons!Spec

-----------------------------------------------------------------------------
(* The query: texts, their characters and the places in them.               *)

LEMMA SameCardinality == \A S : Query!Cardinality(S) = Cardinality(S)
BY Zenon DEF Query!Cardinality, Cardinality

LEMMA EmptyText == <<>> \in Query!Text /\ Len(<<>>) = 0
BY DEF Query!Text

LEMMA TextFacts ==
    ASSUME NEW t \in Query!Text
    PROVE  /\ Len(t) \in Nat /\ DOMAIN t = 1 .. Len(t)
           /\ Len(t) = 0 <=> t = <<>>
BY DEF Query!Text

LEMMA CountFacts ==
    ASSUME NEW t \in Query!Text
    PROVE  /\ Query!Starts(t) \in SUBSET Nat /\ IsFiniteSet(Query!Starts(t))
           /\ Query!Starts(t) \subseteq 1 .. Len(t)
           /\ Query!utf8_char_count(t) \in 0 .. Len(t)
           /\ Query!Plain(t) => Query!utf8_char_count(t) = Len(t)
<1>1. Len(t) \in Nat /\ DOMAIN t = 1 .. Len(t)
  BY TextFacts
<1>2. IsFiniteSet(1 .. Len(t)) /\ Cardinality(1 .. Len(t)) = Len(t)
  BY <1>1, Counted
<1>3. Query!Starts(t) \subseteq 1 .. Len(t)
  BY <1>1 DEF Query!Starts
<1>4. /\ IsFiniteSet(Query!Starts(t)) /\ Cardinality(Query!Starts(t)) <= Len(t)
      /\ Cardinality(Query!Starts(t)) \in Nat
  BY <1>2, <1>3, FS_Subset, FS_CardinalityType
<1>5. ASSUME Query!Plain(t) PROVE Query!Starts(t) = 1 .. Len(t)
  <2>1. \A i \in 1 .. Len(t) : t[i] # "m"
    BY <1>1, <1>5 DEF Query!Plain, Query!ToSet
  <2> QED BY <1>1, <2>1 DEF Query!Starts
<1>6. Query!utf8_char_count(t) = Cardinality(Query!Starts(t))
  BY SameCardinality DEF Query!utf8_char_count
<1>7. Query!Starts(t) \in SUBSET Nat
  BY <1>3
<1> QED BY <1>1, <1>2, <1>3, <1>4, <1>5, <1>6, <1>7

\* The position of a character, which is its number in a text without marks.
LEMMA PosFacts ==
    ASSUME NEW t \in Query!Text, NEW c \in Nat
    PROVE  LET pos == Query!utf8_char_to_byte_pos(t, c)
           IN /\ pos \in 0 .. Len(t)
              /\ c <= Query!utf8_char_count(t) => c <= pos
              /\ Query!Plain(t) /\ c <= Len(t) => pos = c
<1> DEFINE n == Query!utf8_char_count(t)
           S == Query!Starts(t)
           rank(i) == Cardinality({j \in S : j < i})
           i0 == CHOOSE i \in S : rank(i) = c
           pos == Query!utf8_char_to_byte_pos(t, c)
<1>1. /\ Len(t) \in Nat /\ S \in SUBSET Nat /\ IsFiniteSet(S) /\ n \in 0 .. Len(t)
      /\ S \subseteq 1 .. Len(t)
      /\ Query!Plain(t) => n = Len(t)
  BY TextFacts, CountFacts
<1>2. n = Cardinality(S)
  BY SameCardinality DEF Query!utf8_char_count
<1>3. (c >= n => pos = Len(t)) /\ (~ (c >= n) => pos = i0 - 1)
  BY SameCardinality DEF Query!utf8_char_to_byte_pos
<1>4. ASSUME c < n PROVE i0 \in S /\ rank(i0) = c
  <2>1. \E i \in S : rank(i) = c
    <3> HIDE DEF n, S
    <3> QED BY <1>1, <1>2, <1>4, ElementOfRank
  <2> HIDE DEF rank
  <2> QED BY <2>1
<1> SUFFICES /\ pos \in 0 .. Len(t)
             /\ c <= n => c <= pos
             /\ Query!Plain(t) /\ c <= Len(t) => pos = c
  OBVIOUS
<1> HIDE DEF n, S, i0, pos
<1>5. CASE c >= n
  BY <1>1, <1>3, <1>5
<1>6. CASE c < n
  <2> DEFINE below == {j \in S : j < i0}
  <2>1. i0 \in 1 .. Len(t) /\ \A j \in S : j \in 1 .. Len(t)
    BY <1>1, <1>4, <1>6
  <2>2. below \subseteq 1 .. i0 - 1
    <3>1. \A j \in S : j < i0 => j \in 1 .. i0 - 1
      BY <2>1
    <3> QED BY <3>1
  <2>3. IsFiniteSet(1 .. i0 - 1) /\ Cardinality(1 .. i0 - 1) = i0 - 1
    BY <1>1, <2>1, Counted
  <2>4. Cardinality(below) = c
    BY <1>4, <1>6
  <2>5. c <= i0 - 1
    <3> HIDE DEF below
    <3> QED BY <2>2, <2>3, <2>4, FS_Subset
  <2>6. ASSUME Query!Plain(t) PROVE c = i0 - 1
    <3>1. IsFiniteSet(1 .. Len(t)) /\ Cardinality(1 .. Len(t)) = Len(t)
      BY <1>1, Counted
    <3>2. S = 1 .. Len(t)
      BY <1>1, <1>2, <2>6, <3>1, FS_Subset
    <3>3. \A j \in S : j < i0 <=> j \in 1 .. i0 - 1
      BY <2>1
    <3>4. below = 1 .. i0 - 1
      BY <1>1, <2>1, <2>2, <3>2, <3>3
    <3> QED BY <2>3, <2>4, <3>4
  <2> QED BY <1>1, <1>3, <1>6, <2>1, <2>5, <2>6
<1> QED BY <1>1, <1>5, <1>6

LEMMA InsertedFacts ==
    ASSUME NEW t \in Query!Text, NEW tail \in Query!Text, NEW pos \in 0 .. Len(t)
    PROVE  /\ Query!Inserted(t, pos, tail) \in Query!Text
           /\ Len(Query!Inserted(t, pos, tail)) = Len(t) + Len(tail)
           /\ Query!Plain(Query!Inserted(t, pos, tail)) => Query!Plain(t) /\ Query!Plain(tail)
           /\ tail = <<>> => Query!Inserted(t, pos, tail) = t
<1> DEFINE a == SubSeq(t, 1, pos)
           b == SubSeq(t, pos + 1, Len(t))
           r == Query!Inserted(t, pos, tail)
<1>1. Len(t) \in Nat /\ Len(tail) \in Nat /\ t \in Query!Text /\ tail \in Query!Text
  BY TextFacts
<1>2. /\ a \in Query!Text /\ Len(a) = pos
      /\ \A i \in 1 .. pos : a[i] = t[i]
  BY <1>1 DEF Query!Text
<1>3. /\ b \in Query!Text /\ Len(b) = Len(t) - pos
      /\ \A i \in 1 .. Len(t) - pos : b[i] = t[pos + i]
  BY <1>1 DEF Query!Text
<1>4. r = (a \o tail) \o b
  BY DEF Query!Inserted
<1> HIDE DEF a, b, r
<1>5. /\ a \o tail \in Query!Text /\ Len(a \o tail) = pos + Len(tail)
      /\ \A i \in 1 .. pos + Len(tail) :
            (a \o tail)[i] = IF i <= pos THEN a[i] ELSE tail[i - pos]
  BY <1>1, <1>2, ConcatProperties DEF Query!Text
<1>6. /\ r \in Query!Text /\ Len(r) = Len(t) + Len(tail)
      /\ \A i \in 1 .. Len(t) + Len(tail) :
            r[i] = IF i <= pos + Len(tail) THEN (a \o tail)[i] ELSE b[i - (pos + Len(tail))]
  <2> DEFINE al == a \o tail
  <2>1. al \in Query!Text /\ Len(al) = pos + Len(tail) /\ r = al \o b
    BY <1>4, <1>5
  <2>2. pos + Len(tail) + (Len(t) - pos) = Len(t) + Len(tail)
    BY <1>1
  <2> HIDE DEF al
  <2>3. /\ al \in Seq({"a", "s", "m"}) /\ b \in Seq({"a", "s", "m"})
    BY <1>3, <2>1 DEF Query!Text
  <2>4. /\ r \in Seq({"a", "s", "m"}) /\ Len(r) = Len(al) + Len(b)
        /\ \A i \in 1 .. Len(al) + Len(b) :
              r[i] = IF i <= Len(al) THEN al[i] ELSE b[i - Len(al)]
    <3> DEFINE s == al \o b
    <3>1. /\ s \in Seq({"a", "s", "m"}) /\ Len(s) = Len(al) + Len(b)
          /\ \A i \in 1 .. Len(al) + Len(b) :
                s[i] = IF i <= Len(al) THEN al[i] ELSE b[i - Len(al)]
      BY <2>3, ConcatProperties
    <3>2. r = s
      BY <2>1
    <3> HIDE DEF s
    <3> QED BY <3>1, <3>2
  <2>5. Len(al) + Len(b) = Len(t) + Len(tail)
    BY <1>3, <2>1, <2>2
  <2>6. /\ r \in Query!Text /\ Len(r) = Len(t) + Len(tail)
        /\ \A i \in 1 .. Len(t) + Len(tail) :
              r[i] = IF i <= pos + Len(tail) THEN al[i] ELSE b[i - (pos + Len(tail))]
    BY <2>1, <2>4, <2>5 DEF Query!Text
  <2> QED BY <2>6 DEF al
<1>7. ASSUME Query!Plain(r) PROVE Query!Plain(t) /\ Query!Plain(tail)
  <2>1. \A i \in 1 .. Len(r) : r[i] # "m"
    BY <1>6, <1>7, TextFacts DEF Query!Plain, Query!ToSet
  <2>2. \A i \in 1 .. Len(tail) : tail[i] # "m"
    <3> TAKE i \in 1 .. Len(tail)
    <3>1. /\ pos + i \in 1 .. Len(t) + Len(tail) /\ pos + i \in 1 .. pos + Len(tail)
          /\ ~ (pos + i <= pos) /\ (pos + i) - pos = i /\ pos + i <= pos + Len(tail)
      BY <1>1
    <3>2. r[pos + i] = tail[i]
      BY <1>5, <1>6, <3>1
    <3> QED BY <1>6, <2>1, <3>1, <3>2
  <2>3. \A i \in 1 .. Len(t) : t[i] # "m"
    <3> TAKE i \in 1 .. Len(t)
    <3>1. CASE i <= pos
      <4>1. /\ i \in 1 .. Len(t) + Len(tail) /\ i \in 1 .. pos + Len(tail)
            /\ i <= pos + Len(tail) /\ i \in 1 .. pos
        BY <1>1, <3>1
      <4>2. r[i] = t[i]
        BY <1>2, <1>5, <1>6, <3>1, <4>1
      <4> QED BY <1>6, <2>1, <4>1, <4>2
    <3>2. CASE i > pos
      <4> DEFINE k == i + Len(tail)
      <4>1. /\ k \in 1 .. Len(t) + Len(tail) /\ ~ (k <= pos + Len(tail))
            /\ k - (pos + Len(tail)) = i - pos /\ i - pos \in 1 .. Len(t) - pos
            /\ pos + (i - pos) = i
        BY <1>1, <3>2
      <4> HIDE DEF k
      <4>2. r[k] = t[i]
        BY <1>3, <1>6, <4>1
      <4> QED BY <1>6, <2>1, <4>1, <4>2
    <3> QED BY <1>1, <3>1, <3>2
  <2> QED BY <1>1, <2>2, <2>3, TextFacts DEF Query!Plain, Query!ToSet
<1>8. ASSUME tail = <<>> PROVE r = t
  <2>1. Len(tail) = 0
    BY <1>8, TextFacts
  <2>2. \A i \in 1 .. Len(t) : r[i] = t[i]
    <3> TAKE i \in 1 .. Len(t)
    <3>1. CASE i <= pos
      <4>1. i \in 1 .. pos /\ i <= pos + Len(tail) /\ i \in 1 .. pos + Len(tail)
            /\ i \in 1 .. Len(t) + Len(tail)
        BY <1>1, <2>1, <3>1
      <4> QED BY <1>2, <1>5, <1>6, <3>1, <4>1
    <3>2. CASE i > pos
      <4>1. /\ i \in 1 .. Len(t) + Len(tail) /\ ~ (i <= pos + Len(tail))
            /\ i - (pos + Len(tail)) = i - pos /\ i - pos \in 1 .. Len(t) - pos
            /\ pos + (i - pos) = i
        BY <1>1, <2>1, <3>2
      <4> QED BY <1>3, <1>6, <4>1
    <3> QED BY <1>1, <3>1, <3>2
  <2>3. Len(r) = Len(t)
    BY <1>1, <1>6, <2>1
  <2> QED BY <1>1, <1>6, <2>2, <2>3, SeqEqual DEF Query!Text
<1> QED BY <1>6, <1>7, <1>8 DEF r

\* What is left after characters are erased holds the characters before them.
LEMMA ErasedFacts ==
    ASSUME NEW t \in Query!Text, NEW c \in Nat, NEW k \in Nat
    PROVE  LET r == Query!string_builder_erase_chars(t, c, k)
           IN /\ r \in Query!Text
              /\ c <= Query!utf8_char_count(t) /\ Query!Plain(r) => c <= Query!utf8_char_count(r)
              /\ c >= Query!utf8_char_count(t) => r = t
<1> DEFINE from == Query!utf8_char_to_byte_pos(t, c)
           to == Query!utf8_char_to_byte_pos(t, c + k)
           a == SubSeq(t, 1, from)
           b == SubSeq(t, to + 1, Len(t))
           r == Query!string_builder_erase_chars(t, c, k)
<1>1. Len(t) \in Nat /\ t \in Query!Text
  BY TextFacts
<1>2. from \in 0 .. Len(t) /\ (c <= Query!utf8_char_count(t) => c <= from)
  BY PosFacts
<1>3. to \in 0 .. Len(t)
  BY PosFacts
<1>4. r = a \o b
  BY DEF Query!string_builder_erase_chars, Query!Cut
<1>10. ASSUME c >= Query!utf8_char_count(t) PROVE r = t
  <2>1. Query!utf8_char_count(t) \in Nat
    BY CountFacts, <1>1
  <2>2. from = Len(t) /\ to = Len(t)
    BY <1>10, <2>1 DEF Query!utf8_char_to_byte_pos
  <2>3. SubSeq(t, 1, Len(t)) = t /\ SubSeq(t, Len(t) + 1, Len(t)) = <<>>
    BY <1>1 DEF Query!Text
  <2>4. t \o <<>> = t
    BY ConcatEmptySeq DEF Query!Text
  <2>5. a = t /\ b = <<>>
    BY <2>2, <2>3
  <2> HIDE DEF a, b, r
  <2> QED BY <1>4, <2>4, <2>5
<1> HIDE DEF from, to
<1>5. a \in Query!Text /\ Len(a) = from
  BY <1>1, <1>2 DEF Query!Text
<1>6. b \in Query!Text /\ Len(b) \in Nat
  BY <1>1, <1>3 DEF Query!Text
<1> HIDE DEF a, b, r
<1>7. r \in Query!Text /\ Len(r) = Len(a) + Len(b)
  BY <1>4, <1>5, <1>6, ConcatProperties DEF Query!Text
<1>8. Query!Plain(r) => Query!utf8_char_count(r) = Len(r)
  BY <1>7, CountFacts
<1>9. c <= Query!utf8_char_count(t) /\ Query!Plain(r) => c <= Query!utf8_char_count(r)
  BY <1>1, <1>2, <1>5, <1>6, <1>7, <1>8
<1> QED BY <1>7, <1>9, <1>10 DEF r

-----------------------------------------------------------------------------
(* The query: where the cursor can go.                                      *)

LEMMA MinIn == ASSUME NEW T \in SUBSET Nat, T # {} PROVE Query!Min(T) \in T
<1>1. \E x \in T : \A y \in T : x <= y
  BY LeastNat
<1> QED BY <1>1 DEF Query!Min

LEMMA MaxIn ==
    ASSUME NEW T \in SUBSET Nat, T # {}, NEW n \in Nat, \A x \in T : x <= n
    PROVE  Query!Max(T) \in T
<1>1. \E x \in T : \A y \in T : y <= x
  BY GreatestNat
<1>2. \A x, y \in T : y <= x <=> x >= y
  OBVIOUS
<1>3. \E x \in T : \A y \in T : x >= y
  BY <1>1, <1>2
<1> QED BY <1>3 DEF Query!Max

LEMMA ClampedFacts ==
    ASSUME NEW t \in Query!Text, NEW c \in Int
    PROVE  Query!Clamped(t, c) \in 0 .. Query!utf8_char_count(t)
<1> DEFINE n == Query!utf8_char_count(t)
<1>1. n \in Nat
  BY TextFacts, CountFacts
<1>2. CASE c < 0
  BY <1>1, <1>2 DEF Query!Clamped
<1>3. CASE c >= 0
  <2> HIDE DEF n
  <2>1. \A x \in {c, n} : x \in Nat
    BY <1>1, <1>3
  <2>2. Query!Min({c, n}) \in {c, n} /\ \A y \in {c, n} : Query!Min({c, n}) <= y
    <3>1. \E x \in {c, n} : \A y \in {c, n} : x <= y
      BY <2>1, LeastNat
    <3> QED BY <3>1 DEF Query!Min
  <2>3. Query!Min({c, n}) \in 0 .. n
    BY <1>1, <2>1, <2>2
  <2>4. Query!Clamped(t, c) = Query!Min({c, n})
    BY <1>3 DEF Query!Clamped, n
  <2> QED BY <2>3, <2>4 DEF n
<1> QED BY <1>2, <1>3

LEMMA WordLeftFacts ==
    ASSUME NEW t \in Query!Text, NEW c \in Nat
    PROVE  Query!NextWordLeft(t, c) \in 0 .. c
<1> DEFINE word == {i \in 1 .. c : ~ Query!IsBoundary(t, i - 1)}
           end == IF word = {} THEN 0 ELSE Query!Max(word)
           gaps == {0} \cup {i \in 1 .. end - 1 : Query!IsBoundary(t, i - 1)}
<1>1. word \in SUBSET Nat /\ \A i \in word : i <= c
  OBVIOUS
<1>2. end \in 0 .. c
  <2>1. CASE word = {}
    BY <2>1
  <2>2. CASE word # {}
    <3>1. Query!Max(word) \in word
      <4> HIDE DEF word
      <4> QED BY <1>1, <2>2, MaxIn
    <3> QED BY <2>2, <3>1
  <2> QED BY <2>1, <2>2
<1> HIDE DEF end
<1>3. gaps \in SUBSET Nat /\ gaps # {} /\ \A i \in gaps : i <= c
  BY <1>2
<1>4. Query!Max(gaps) \in gaps
  <2> HIDE DEF gaps
  <2> QED BY <1>3, MaxIn
<1>5. Query!NextWordLeft(t, c) = Query!Max(gaps)
  BY Zenon DEF Query!NextWordLeft, end
<1> HIDE DEF gaps
<1>6. \A i \in gaps : i \in 0 .. c
  BY <1>3
<1>7. Query!Max(gaps) \in 0 .. c
  BY <1>4, <1>6, Zenon
<1> QED BY <1>5, <1>7

LEMMA WordRightFacts ==
    ASSUME NEW t \in Query!Text, NEW c \in Nat
    PROVE  Query!NextWordRight(t, c) \in Nat
<1> DEFINE n == Query!utf8_char_count(t)
           word == {i \in c .. n - 1 : ~ Query!IsBoundary(t, i)}
           begin == IF word = {} THEN n ELSE Query!Min(word)
           gaps == {n} \cup {i \in begin .. n - 1 : Query!IsBoundary(t, i)}
<1>1. n \in Nat
  BY TextFacts, CountFacts
<1> HIDE DEF n
<1>2. word \in SUBSET Nat
  BY <1>1
<1>3. begin \in Nat
  <2>1. CASE word = {}
    BY <1>1, <2>1
  <2>2. CASE word # {}
    <3>1. Query!Min(word) \in word
      <4> HIDE DEF word
      <4> QED BY <1>2, <2>2, MinIn
    <3> QED BY <1>2, <2>2, <3>1
  <2> QED BY <2>1, <2>2
<1> HIDE DEF begin
<1>4. gaps \in SUBSET Nat /\ gaps # {}
  BY <1>1, <1>3
<1>5. Query!Min(gaps) \in gaps
  <2> HIDE DEF gaps
  <2> QED BY <1>4, MinIn
<1>6. Query!NextWordRight(t, c) = Query!Min(gaps)
  BY Zenon DEF Query!NextWordRight, begin, n
<1> HIDE DEF gaps
<1> QED BY <1>4, <1>5, <1>6

-----------------------------------------------------------------------------
(* The query: the cursor is in the text, and edits go where it is drawn.    *)

QueryInv ==
    /\ state_sf \in Query!Pane
    /\ queries \in [Query!Pane -> Query!Text]
    /\ cursor \in [Query!Pane -> Nat]
    /\ preedit \in Query!Text
    /\ drawn = Query!Render(state_sf, Query!query, Query!at, preedit)
    /\ CursorInText

LEMMA QueryNow == QueryInv => Query!query \in Query!Text /\ Query!at \in Nat
BY DEF QueryInv, Query!query, Query!at

\* Every edit of the current pane that puts the cursor into a text without marks.
LEMMA EditKeeps ==
    ASSUME QueryInv, NEW t \in Query!Text, NEW c \in Nat, Query!Edit(t, c),
           state_sf # Query!ForTargets /\ Query!Plain(t) => c <= Query!utf8_char_count(t)
    PROVE  QueryInv'
<1>1. /\ queries' = [queries EXCEPT ![state_sf] = t]
      /\ cursor' = [cursor EXCEPT ![state_sf] = c]
      /\ state_sf' = state_sf /\ preedit' = preedit
      /\ drawn' = Query!Render(state_sf', queries'[state_sf'], cursor'[state_sf'], preedit')
  BY DEF Query!Edit, Query!adjust_label
<1>2. state_sf \in Query!Pane /\ queries \in [Query!Pane -> Query!Text]
      /\ cursor \in [Query!Pane -> Nat] /\ preedit \in Query!Text
  BY DEF QueryInv
<1>3. queries'[state_sf'] = t /\ cursor'[state_sf'] = c
  BY <1>1, <1>2
<1>4. CursorInText'
  BY <1>1, <1>3 DEF CursorInText, Query!CursorInText, Query!query, Query!at
<1> QED BY <1>1, <1>2, <1>4 DEF QueryInv, Query!query, Query!at

LEMMA QueryInit == Query!Init => QueryInv
<1> SUFFICES ASSUME Query!Init PROVE QueryInv
  OBVIOUS
<1>1. /\ state_sf = Query!ForSources /\ preedit = <<>>
      /\ queries = [p \in Query!Pane |-> <<>>] /\ cursor = [p \in Query!Pane |-> 0]
      /\ drawn = Query!Render(Query!ForSources, <<>>, 0, <<>>)
  BY DEF Query!Init
<1>2. Query!ForSources \in Query!Pane
  BY DEF Query!ForSources, Query!Pane, Query!ForPlugins, Query!ForTargets
<1>3. Query!query = <<>> /\ Query!at = 0
  BY <1>1, <1>2 DEF Query!query, Query!at
<1>4. CursorInText
  BY <1>3, EmptyText, CountFacts DEF CursorInText, Query!CursorInText
<1> QED BY <1>1, <1>2, <1>3, <1>4, EmptyText DEF QueryInv

LEMMA AppendKeeps ==
    ASSUME QueryInv, NEW tail \in Tails, Query!state_append_query(tail) PROVE QueryInv'
<1> DEFINE p == Query!utf8_char_to_byte_pos(Query!query, Query!at)
           t == Query!Inserted(Query!query, p, tail)
           c == Query!at + Query!utf8_char_count(tail)
<1>1. tail \in Query!Text /\ Query!query \in Query!Text /\ Query!at \in Nat
  BY QueryAssumption, QueryNow
<1>2. p \in 0 .. Len(Query!query)
  BY <1>1, PosFacts
<1>3. Query!Edit(t, c)
  BY DEF Query!state_append_query
<1>4. /\ t \in Query!Text /\ Len(t) = Len(Query!query) + Len(tail)
      /\ Query!Plain(t) => Query!Plain(Query!query) /\ Query!Plain(tail)
  BY <1>1, <1>2, InsertedFacts
<1>5. c \in Nat
  BY <1>1, CountFacts, TextFacts
<1> HIDE DEF p, t
<1>6. ASSUME state_sf # Query!ForTargets, Query!Plain(t) PROVE c <= Query!utf8_char_count(t)
  <2>1. Query!at <= Query!utf8_char_count(Query!query)
    BY <1>4, <1>6 DEF QueryInv, CursorInText, Query!CursorInText
  <2>2. /\ Query!utf8_char_count(t) = Len(t) /\ Query!utf8_char_count(tail) = Len(tail)
        /\ Query!utf8_char_count(Query!query) = Len(Query!query)
    BY <1>1, <1>4, <1>6, CountFacts
  <2> QED BY <1>1, <1>4, <2>1, <2>2, TextFacts
<1> HIDE DEF c
<1> QED BY <1>3, <1>4, <1>5, <1>6, EditKeeps

LEMMA BackwardKeeps ==
    ASSUME QueryInv, Query!state_delete_char_backward PROVE QueryInv'
<1> DEFINE c == Query!Clamped(Query!query, Query!at - 1)
           t == Query!string_builder_erase_chars(Query!query, c, 1)
<1>1. Query!query \in Query!Text /\ Query!at - 1 \in Int
  BY QueryNow
<1>2. c \in Nat /\ c <= Query!utf8_char_count(Query!query)
  BY <1>1, ClampedFacts, CountFacts, TextFacts
<1>3. Query!Edit(t, c)
  BY DEF Query!state_delete_char_backward
<1> HIDE DEF c
<1>4. t \in Query!Text /\ (Query!Plain(t) => c <= Query!utf8_char_count(t))
  BY <1>1, <1>2, ErasedFacts
<1> HIDE DEF t
<1> QED BY <1>2, <1>3, <1>4, EditKeeps

LEMMA ForwardKeeps ==
    ASSUME QueryInv, Query!state_delete_char_forward PROVE QueryInv'
<1> DEFINE q == Query!query
           c == Query!at
           t == Query!string_builder_erase_chars(q, c, 1)
<1>1. q \in Query!Text /\ c \in Nat
  BY QueryNow
<1>2. Query!utf8_char_count(q) \in Nat
  BY <1>1, CountFacts, TextFacts
<1>3. Query!Edit(t, c)
  BY DEF Query!state_delete_char_forward
<1>4. state_sf # Query!ForTargets /\ Query!Plain(q) => c <= Query!utf8_char_count(q)
  BY DEF QueryInv, CursorInText, Query!CursorInText
<1> HIDE DEF c, q
<1>5. /\ t \in Query!Text
      /\ c <= Query!utf8_char_count(q) /\ Query!Plain(t) => c <= Query!utf8_char_count(t)
      /\ c >= Query!utf8_char_count(q) => t = q
  BY <1>1, ErasedFacts
<1> HIDE DEF t
<1>6. state_sf # Query!ForTargets /\ Query!Plain(t) => c <= Query!utf8_char_count(t)
  BY <1>1, <1>2, <1>4, <1>5
<1> QED BY <1>1, <1>3, <1>5, <1>6, EditKeeps

LEMMA WordKeeps ==
    ASSUME QueryInv, Query!state_delete_word PROVE QueryInv'
<1> DEFINE l == Query!NextWordLeft(Query!query, Query!at)
           t == Query!string_builder_erase_chars(Query!query, l, Query!at - l)
           c == Query!Clamped(t, l)
<1>1. Query!query \in Query!Text /\ Query!at \in Nat
  BY QueryNow
<1>2. l \in Nat /\ Query!at - l \in Nat
  <2>1. l \in 0 .. Query!at
    BY <1>1, WordLeftFacts
  <2> HIDE DEF l
  <2> QED BY <1>1, <2>1
<1>3. Query!Edit(t, c)
  BY DEF Query!state_delete_word
<1> HIDE DEF l
<1>4. t \in Query!Text
  BY <1>1, <1>2, ErasedFacts
<1> HIDE DEF t
<1>5. c \in Nat /\ c <= Query!utf8_char_count(t)
  BY <1>2, <1>4, ClampedFacts, CountFacts, TextFacts
<1> HIDE DEF c
<1> QED BY <1>3, <1>4, <1>5, EditKeeps

LEMMA MoveKeeps == ASSUME QueryInv, Query!Move PROVE QueryInv'
<1>1. Query!query \in Query!Text /\ Query!at \in Nat
  BY QueryNow
<1>2. /\ Query!NextWordLeft(Query!query, Query!at) \in Int
      /\ Query!NextWordRight(Query!query, Query!at) \in Int
      /\ Query!utf8_char_count(Query!query) \in Int
  <2>1. Query!NextWordLeft(Query!query, Query!at) \in 0 .. Query!at
    BY <1>1, WordLeftFacts
  <2>2. Query!NextWordRight(Query!query, Query!at) \in Nat
    BY <1>1, WordRightFacts
  <2>3. Query!utf8_char_count(Query!query) \in 0 .. Len(Query!query)
    BY <1>1, CountFacts
  <2> QED BY <1>1, <2>1, <2>2, <2>3, TextFacts
<1>3. PICK m \in Int : Query!MoveTo(m)
  BY <1>1, <1>2 DEF Query!Move
<1> DEFINE c == Query!Clamped(Query!query, m)
<1>4. Query!Edit(Query!query, c)
  BY <1>3 DEF Query!MoveTo
<1>5. c \in Nat /\ c <= Query!utf8_char_count(Query!query)
  BY <1>1, ClampedFacts, CountFacts, TextFacts
<1> HIDE DEF c
<1> QED BY <1>1, <1>4, <1>5, EditKeeps

\* The pane that is entered gets its cursor placed, whatever it was before.
LEMMA ChangeKeeps ==
    ASSUME QueryInv, NEW what \in Query!ForReset .. Query!ForTargets,
           Query!state_change_category(what)
    PROVE  QueryInv'
<1> DEFINE pane == IF what = Query!ForReset THEN Query!ForSources ELSE what
           t == queries'[pane]
<1>1. pane \in Query!Pane
  BY DEF Query!Pane, Query!ForReset, Query!ForPlugins, Query!ForSources, Query!ForTargets
<1> HIDE DEF pane
<1>2. /\ queries' = [p \in Query!Pane |-> IF p > what THEN <<>> ELSE queries[p]]
      /\ state_sf' = pane /\ preedit' = preedit
      /\ cursor' = [cursor EXCEPT ![pane] = Query!utf8_char_count(queries'[pane])]
      /\ drawn' = Query!Render(state_sf', queries'[state_sf'], cursor'[state_sf'], preedit')
  BY DEF Query!state_change_category, Query!adjust_label, pane
<1>3. queries \in [Query!Pane -> Query!Text] /\ cursor \in [Query!Pane -> Nat]
      /\ preedit \in Query!Text
  BY DEF QueryInv
<1>4. queries' \in [Query!Pane -> Query!Text]
  BY <1>2, <1>3, EmptyText
<1>5. t \in Query!Text
  BY <1>1, <1>4
<1>6. Query!utf8_char_count(t) \in Nat
  <2> HIDE DEF t
  <2> QED BY <1>5, CountFacts, TextFacts
<1>7. cursor' \in [Query!Pane -> Nat] /\ cursor'[pane] = Query!utf8_char_count(t)
  BY <1>1, <1>2, <1>3, <1>6
<1>8. CursorInText'
  BY <1>2, <1>6, <1>7 DEF CursorInText, Query!CursorInText, Query!query, Query!at
<1> QED BY <1>1, <1>2, <1>3, <1>4, <1>7, <1>8 DEF QueryInv, Query!query, Query!at

LEMMA QueryNext == QueryInv /\ [Query!Next]_(Query!vars) => QueryInv'
<1> SUFFICES ASSUME QueryInv, [Query!Next]_(Query!vars) PROVE QueryInv'
  OBVIOUS
<1>1. CASE UNCHANGED Query!vars
  BY <1>1 DEF Query!vars, QueryInv, CursorInText, Query!CursorInText, Query!query, Query!at
<1>2. ASSUME NEW tail \in Tails, Query!state_append_query(tail) PROVE QueryInv'
  BY <1>2, AppendKeeps
<1>3. CASE Query!state_delete_line
  <2>1. Query!Edit(<<>>, 0)
    BY <1>3 DEF Query!state_delete_line
  <2>2. 0 <= Query!utf8_char_count(<<>>)
    BY EmptyText, CountFacts
  <2> QED BY <2>1, <2>2, EmptyText, EditKeeps
<1>4. CASE Query!set_preedit
  <2>1. preedit' \in Query!Text
    BY <1>4, EmptyText, QueryAssumption DEF Query!set_preedit
  <2> QED BY <1>4, <2>1 DEF Query!set_preedit, Query!adjust_label, QueryInv, CursorInText,
                            Query!CursorInText, Query!query, Query!at
<1>5. CASE Query!ChangePane
  <2>1. state_sf \in 0 .. 3
    BY DEF QueryInv, Query!Pane, Query!ForPlugins, Query!ForTargets
  <2>2. PICK what \in -1 .. 3 : Query!state_change_category(what)
    BY <1>5, <2>1 DEF Query!ChangePane, Query!ForTargets
  <2>3. what \in Query!ForReset .. Query!ForTargets
    BY DEF Query!ForReset, Query!ForTargets
  <2> QED BY <2>2, <2>3, ChangeKeeps
<1>6. CASE Query!EnterTargets
  <2>1. Query!ForTargets \in Query!Pane
    BY DEF Query!ForTargets, Query!Pane, Query!ForPlugins
  <2> QED BY <1>6, <2>1 DEF Query!EnterTargets, Query!adjust_label, QueryInv, CursorInText,
                            Query!CursorInText, Query!query, Query!at
<1>7. CASE Query!state_reset
  <2>1. /\ state_sf' = Query!ForSources /\ preedit' = preedit
        /\ queries' = [p \in Query!Pane |-> <<>>] /\ cursor' = [p \in Query!Pane |-> 0]
        /\ drawn' = Query!Render(state_sf', queries'[state_sf'], cursor'[state_sf'], preedit')
    BY <1>7 DEF Query!state_reset, Query!adjust_label
  <2>2. Query!ForSources \in Query!Pane
    BY DEF Query!ForSources, Query!Pane, Query!ForPlugins, Query!ForTargets
  <2>3. queries'[state_sf'] = <<>> /\ cursor'[state_sf'] = 0
    BY <2>1, <2>2
  <2>4. CursorInText'
    BY <2>3, EmptyText, CountFacts DEF CursorInText, Query!CursorInText, Query!query, Query!at
  <2> QED BY <2>1, <2>2, <2>4, EmptyText DEF QueryInv, Query!query, Query!at
<1> QED BY <1>1, <1>2, <1>3, <1>4, <1>5, <1>6, <1>7, BackwardKeeps, ForwardKeeps, WordKeeps,
           MoveKeeps DEF Query!Next

\* Whatever is typed, erased and composed in whichever panes, the cursor of a pane
\* other than the targets' is within its text as long as that has no marks.
THEOREM CursorStaysInText == Query!Spec => []CursorInText
<1>1. QueryInv => CursorInText
  BY DEF QueryInv
<1> QED BY QueryInit, QueryNext, <1>1, PTL DEF Query!Spec

LEMMA AppendWhereDrawn ==
    ASSUME QueryInv, NEW tail \in Tails, Query!state_append_query(tail)
    PROVE  /\ preedit = <<>> => Query!query' = Query!Inserted(drawn.text, drawn.cursor, tail)
           /\ preedit = tail => Query!query' = drawn.text
           /\ preedit = <<>> /\ state_sf # Query!ForTargets /\ Query!Plain(Query!query') =>
                drawn'.cursor = drawn.cursor + Len(tail)
<1> DEFINE q == Query!query
           p == Query!utf8_char_to_byte_pos(q, Query!at)
           t == Query!Inserted(q, p, tail)
           c == Query!at + Query!utf8_char_count(tail)
<1>1. tail \in Query!Text /\ q \in Query!Text /\ Query!at \in Nat
  BY QueryAssumption, QueryNow
<1>2. /\ p \in 0 .. Len(q)
      /\ Query!Plain(q) /\ Query!at <= Len(q) => p = Query!at
  BY <1>1, PosFacts
<1>3. /\ t \in Query!Text /\ Len(t) = Len(q) + Len(tail)
      /\ Query!Plain(t) => Query!Plain(q) /\ Query!Plain(tail)
  BY <1>1, <1>2, InsertedFacts
<1>4. Query!Inserted(q, p, <<>>) = q
  BY <1>1, <1>2, EmptyText, InsertedFacts
<1>5. Len(q) \in Nat /\ Len(tail) \in Nat /\ Len(t) \in Nat
      /\ (Len(q) = 0 <=> q = <<>>) /\ (Len(t) = 0 <=> t = <<>>)
  BY <1>1, <1>3, TextFacts
<1>6. /\ drawn.text = IF q = <<>> /\ preedit = <<>> THEN <<>> ELSE Query!Inserted(q, p, preedit)
      /\ drawn.cursor = IF q = <<>> /\ preedit = <<>> THEN 0 ELSE p + Len(preedit)
  BY DEF QueryInv, Query!Render
<1>7. /\ queries' = [queries EXCEPT ![state_sf] = t] /\ cursor' = [cursor EXCEPT ![state_sf] = c]
      /\ state_sf' = state_sf /\ preedit' = preedit
      /\ drawn' = Query!Render(state_sf', queries'[state_sf'], cursor'[state_sf'], preedit')
  BY DEF Query!state_append_query, Query!Edit, Query!adjust_label
<1>8. queries'[state_sf'] = t /\ cursor'[state_sf'] = c /\ Query!query' = t
  BY <1>7 DEF QueryInv, Query!query
<1>9. preedit = <<>> => drawn'.cursor =
        IF t = <<>> THEN 0 ELSE Query!utf8_char_to_byte_pos(t, c) + Len(preedit)
  BY <1>7, <1>8 DEF Query!Render
<1>10. state_sf # Query!ForTargets /\ Query!Plain(q) => Query!at <= Query!utf8_char_count(q)
  BY DEF QueryInv, CursorInText, Query!CursorInText
<1> HIDE DEF q, p, t, c
<1>11. ASSUME preedit = <<>> PROVE drawn.text = q /\ drawn.cursor = p
  BY <1>2, <1>4, <1>5, <1>6, <1>11, EmptyText
<1>12. preedit = <<>> => Query!query' = Query!Inserted(drawn.text, drawn.cursor, tail)
  BY <1>8, <1>11 DEF t
<1>13. ASSUME preedit = tail PROVE Query!query' = drawn.text
  <2>1. CASE q = <<>> /\ tail = <<>>
    BY <1>3, <1>5, <1>6, <1>8, <1>13, <2>1, EmptyText
  <2>2. CASE ~ (q = <<>> /\ tail = <<>>)
    BY <1>6, <1>8, <1>13, <2>2 DEF t
  <2> QED BY <2>1, <2>2
<1>14. ASSUME preedit = <<>>, state_sf # Query!ForTargets, Query!Plain(t)
       PROVE  drawn'.cursor = drawn.cursor + Len(tail)
  <2>1. /\ Query!utf8_char_count(q) = Len(q) /\ Query!utf8_char_count(tail) = Len(tail)
    BY <1>1, <1>3, <1>14, CountFacts
  <2>2. Query!at <= Len(q) /\ p = Query!at
    BY <1>2, <1>3, <1>10, <1>14, <2>1
  <2>3. c = p + Len(tail) /\ c \in Nat /\ c <= Len(t)
    BY <1>1, <1>3, <1>5, <2>1, <2>2 DEF c
  <2>4. Query!utf8_char_to_byte_pos(t, c) = c
    BY <1>3, <1>14, <2>3, PosFacts
  <2> QED BY <1>3, <1>5, <1>9, <1>11, <1>14, <2>2, <2>3, <2>4, EmptyText
<1> QED BY <1>8, <1>12, <1>13, <1>14

\* Text is put where the label showed the cursor, composed text as it was shown,
\* and the cursor is then shown right behind it.
THEOREM EditsGoWhereDrawn == Query!Spec => EditsWhereDrawn
<1>1. QueryInv /\ [Query!Next]_(Query!vars) =>
        [\A tail \in Tails :
           Query!state_append_query(tail) =>
             /\ preedit = <<>> =>
                  Query!query' = Query!Inserted(drawn.text, drawn.cursor, tail)
             /\ preedit = tail => Query!query' = drawn.text
             /\ preedit = <<>> /\ state_sf # Query!ForTargets /\ Query!Plain(Query!query') =>
                  drawn'.cursor = drawn.cursor + Len(tail)]_(Query!vars)
  BY AppendWhereDrawn
<1> QED BY QueryInit, QueryNext, <1>1, PTL DEF Query!Spec, EditsWhereDrawn, Query!EditsWhereDrawn

-----------------------------------------------------------------------------
(* The bus: the signals that wait for the monitor.                          *)

Signal == [name : Bus!Maybe(Name), old : Bus!Maybe(Owner), new : Bus!Maybe(Owner)]

\* A signal in queue q takes name n from connection o, or gives it to o; with
\* None for the name, it announces the interface of o.
Taken(q, n, o) == \E i \in 1 .. Len(q) : q[i].name = n /\ q[i].old = o
Given(q, n, o) == \E i \in 1 .. Len(q) : q[i].name = n /\ q[i].new = o

\* The changes of a name follow on each other and end with its present owner.
Chained(q, own) ==
    \A i \in 1 .. Len(q) : q[i].name # None =>
        /\ \/ q[i].new = own[q[i].name]
           \/ \E j \in 1 .. Len(q) : i < j /\ q[j].name = q[i].name /\ q[j].old = q[i].new
        /\ \E j \in 1 .. Len(q) :
              i <= j /\ q[j].name = q[i].name /\ q[j].new = own[q[i].name]

LEMMA AppendFacts ==
    ASSUME NEW q \in Seq(Signal), NEW s \in Signal
    PROVE  /\ Len(q) \in Nat /\ Append(q, s) \in Seq(Signal)
           /\ Len(Append(q, s)) = Len(q) + 1
           /\ \A i \in 1 .. Len(q) : Append(q, s)[i] = q[i]
           /\ Append(q, s)[Len(q) + 1] = s
BY AppendProperties, LenProperties

LEMMA AppendTells ==
    ASSUME NEW q \in Seq(Signal), NEW s \in Signal
    PROVE  /\ \A n, o : Taken(q, n, o) => Taken(Append(q, s), n, o)
           /\ \A n, o : Given(q, n, o) => Given(Append(q, s), n, o)
           /\ Taken(Append(q, s), s.name, s.old) /\ Given(Append(q, s), s.name, s.new)
<1> DEFINE r == Append(q, s)
<1>1. /\ Len(q) \in Nat /\ Len(r) = Len(q) + 1
      /\ \A i \in 1 .. Len(q) : r[i] = q[i]
      /\ r[Len(q) + 1] = s
  BY AppendFacts
<1> HIDE DEF r
<1>2. Len(q) + 1 \in 1 .. Len(r) /\ \A i \in 1 .. Len(q) : i \in 1 .. Len(r)
  BY <1>1
<1>3. \A n, o : Taken(q, n, o) => Taken(r, n, o)
  BY <1>1, <1>2 DEF Taken
<1>4. \A n, o : Given(q, n, o) => Given(r, n, o)
  BY <1>1, <1>2 DEF Given
<1>5. Taken(r, s.name, s.old) /\ Given(r, s.name, s.new)
  BY <1>1, <1>2 DEF Taken, Given
<1> QED BY <1>3, <1>4, <1>5 DEF r

LEMMA TailFacts ==
    ASSUME NEW q \in Seq(Signal), q # <<>>
    PROVE  /\ Len(q) \in Nat \ {0} /\ Tail(q) \in Seq(Signal)
           /\ Len(Tail(q)) = Len(q) - 1 /\ Head(q) = q[1] /\ Head(q) \in Signal
           /\ \A i \in 1 .. Len(q) - 1 : Tail(q)[i] = q[i + 1]
<1>1. Len(q) \in Nat /\ Len(q) # 0
  BY EmptySeq, LenProperties
<1>2. /\ Head(q) \in Signal /\ Tail(q) \in Seq(Signal) /\ Len(Tail(q)) = Len(q) - 1
      /\ \A i \in 1 .. Len(Tail(q)) : Tail(q)[i] = q[i + 1]
  BY HeadTailProperties
<1>3. Head(q) = q[1]
  OBVIOUS
<1> QED BY <1>1, <1>2, <1>3

LEMMA TailTells ==
    ASSUME NEW q \in Seq(Signal), q # <<>>
    PROVE  /\ \A n, o : Taken(q, n, o) =>
                Taken(Tail(q), n, o) \/ (Head(q).name = n /\ Head(q).old = o)
           /\ \A n, o : Given(q, n, o) =>
                Given(Tail(q), n, o) \/ (Head(q).name = n /\ Head(q).new = o)
<1> DEFINE r == Tail(q)
<1>1. /\ Len(q) \in Nat \ {0} /\ Len(r) = Len(q) - 1 /\ Head(q) = q[1]
      /\ \A i \in 1 .. Len(q) - 1 : r[i] = q[i + 1]
  BY TailFacts
<1> HIDE DEF r
<1>2. \A i \in 1 .. Len(q) : i = 1 \/ (i - 1 \in 1 .. Len(r) /\ r[i - 1] = q[i])
  BY <1>1
<1>3. \A n, o : Taken(q, n, o) => Taken(r, n, o) \/ (Head(q).name = n /\ Head(q).old = o)
  BY <1>1, <1>2 DEF Taken
<1>4. \A n, o : Given(q, n, o) => Given(r, n, o) \/ (Head(q).name = n /\ Head(q).new = o)
  BY <1>1, <1>2 DEF Given
<1> QED BY <1>3, <1>4 DEF r

\* A name whose change waits is given to its owner by one that waits.
LEMMA TakenIsGiven ==
    ASSUME NEW q \in Seq(Signal), NEW own, Chained(q, own), NEW n, n # None, NEW o,
           Taken(q, n, o)
    PROVE  Given(q, n, own[n])
BY DEF Taken, Given, Chained

LEMMA ChainChange ==
    ASSUME NEW q \in Seq(Signal), NEW own \in [Name -> Bus!Maybe(Owner)], Chained(q, own),
           NEW n \in Name, NEW x \in Bus!Maybe(Owner)
    PROVE  Chained(Append(q, [name |-> n, old |-> own[n], new |-> x]), [own EXCEPT ![n] = x])
<1> DEFINE s == [name |-> n, old |-> own[n], new |-> x]
           r == Append(q, s)
           end == Len(q) + 1
           now == [own EXCEPT ![n] = x]
<1>1. s \in Signal
  BY DEF Signal, Bus!Maybe
<1>2. /\ Len(q) \in Nat /\ Len(r) = end
      /\ \A i \in 1 .. Len(q) : r[i] = q[i]
      /\ r[end] = s
  <2> HIDE DEF s
  <2> QED BY <1>1, AppendFacts
<1>3. s.name = n /\ s.old = own[n] /\ s.new = x /\ now[n] = x
  OBVIOUS
<1>4. \A i \in 1 .. Len(q) : q[i] \in Signal
  BY <1>2
<1>5. \A i \in 1 .. Len(q) : q[i].name # None => q[i].name \in Name
  BY <1>4 DEF Signal, Bus!Maybe
<1>6. \A m \in Name : m # n => now[m] = own[m]
  OBVIOUS
<1> HIDE DEF r, s, now
<1>7. ASSUME NEW i \in 1 .. Len(q), q[i].name # None, q[i].name = n
      PROVE  \/ q[i].new = now[n]
             \/ \E j \in 1 .. Len(r) : i < j /\ r[j].name = n /\ r[j].old = q[i].new
  <2>1. CASE q[i].new = own[n]
    <3>1. end \in 1 .. Len(r) /\ i < end
      BY <1>2
    <3> QED BY <1>2, <1>3, <2>1, <3>1
  <2>2. CASE q[i].new # own[n]
    <3>1. PICK j \in 1 .. Len(q) : i < j /\ q[j].name = n /\ q[j].old = q[i].new
      BY <1>7, <2>2 DEF Chained
    <3>2. j \in 1 .. Len(r) /\ r[j] = q[j]
      BY <1>2
    <3> QED BY <3>1, <3>2
  <2> QED BY <2>1, <2>2
<1>8. ASSUME NEW i \in 1 .. Len(q), q[i].name # None, q[i].name # n
      PROVE  /\ \/ q[i].new = now[q[i].name]
                \/ \E j \in 1 .. Len(r) :
                      i < j /\ r[j].name = q[i].name /\ r[j].old = q[i].new
             /\ \E j \in 1 .. Len(r) :
                   i <= j /\ r[j].name = q[i].name /\ r[j].new = now[q[i].name]
  <2>1. now[q[i].name] = own[q[i].name]
    BY <1>5, <1>6, <1>8
  <2>2. \A j \in 1 .. Len(q) : j \in 1 .. Len(r) /\ r[j] = q[j]
    BY <1>2
  <2>3. /\ \/ q[i].new = own[q[i].name]
           \/ \E j \in 1 .. Len(q) : i < j /\ q[j].name = q[i].name /\ q[j].old = q[i].new
        /\ \E j \in 1 .. Len(q) :
              i <= j /\ q[j].name = q[i].name /\ q[j].new = own[q[i].name]
    BY <1>8 DEF Chained
  <2>4. \E j \in 1 .. Len(r) : i <= j /\ r[j].name = q[i].name /\ r[j].new = own[q[i].name]
    BY <2>2, <2>3
  <2>5. \/ q[i].new = own[q[i].name]
        \/ \E j \in 1 .. Len(r) : i < j /\ r[j].name = q[i].name /\ r[j].old = q[i].new
    BY <2>2, <2>3
  <2> QED BY <2>1, <2>4, <2>5
<1>9. ASSUME NEW i \in 1 .. Len(r), r[i].name = n
      PROVE  \E j \in 1 .. Len(r) : i <= j /\ r[j].name = n /\ r[j].new = now[n]
  <2>1. end \in 1 .. Len(r) /\ i <= end
    BY <1>2
  <2> QED BY <1>2, <1>3, <2>1
<1>10. \A i \in 1 .. Len(r) : i \in 1 .. Len(q) \/ i = end
  BY <1>2
<1>11. ASSUME NEW i \in 1 .. Len(r), r[i].name # None
       PROVE  /\ \/ r[i].new = now[r[i].name]
                 \/ \E j \in 1 .. Len(r) :
                      i < j /\ r[j].name = r[i].name /\ r[j].old = r[i].new
              /\ \E j \in 1 .. Len(r) :
                   i <= j /\ r[j].name = r[i].name /\ r[j].new = now[r[i].name]
  <2>1. CASE i = end
    BY <1>2, <1>3, <1>9, <2>1
  <2>2. CASE i \in 1 .. Len(q)
    <3>1. r[i] = q[i]
      BY <1>2, <2>2
    <3>2. CASE q[i].name = n
      BY <1>7, <1>9, <1>11, <2>2, <3>1, <3>2
    <3>3. CASE q[i].name # n
      BY <1>8, <1>11, <2>2, <3>1, <3>3
    <3> QED BY <3>2, <3>3
  <2> QED BY <1>10, <2>1, <2>2
<1> QED BY <1>11 DEF Chained, r, now, s

LEMMA ChainAnnounce ==
    ASSUME NEW q \in Seq(Signal), NEW own, Chained(q, own), NEW o \in Owner
    PROVE  Chained(Append(q, [name |-> None, old |-> o, new |-> None]), own)
<1> DEFINE s == [name |-> None, old |-> o, new |-> None]
           r == Append(q, s)
<1>1. s \in Signal /\ s.name = None
  BY DEF Signal, Bus!Maybe
<1>2. /\ Len(q) \in Nat /\ Len(r) = Len(q) + 1
      /\ \A i \in 1 .. Len(q) : r[i] = q[i]
      /\ r[Len(q) + 1] = s
  <2> HIDE DEF s
  <2> QED BY <1>1, AppendFacts
<1> HIDE DEF r, s
<1>3. \A i \in 1 .. Len(q) : i \in 1 .. Len(r)
  BY <1>2
<1>4. \A i \in 1 .. Len(r) : r[i].name # None => i \in 1 .. Len(q)
  BY <1>1, <1>2
<1>5. ASSUME NEW i \in 1 .. Len(r), r[i].name # None
      PROVE  /\ \/ r[i].new = own[r[i].name]
                \/ \E j \in 1 .. Len(r) :
                      i < j /\ r[j].name = r[i].name /\ r[j].old = r[i].new
             /\ \E j \in 1 .. Len(r) :
                   i <= j /\ r[j].name = r[i].name /\ r[j].new = own[r[i].name]
  <2>1. i \in 1 .. Len(q) /\ r[i] = q[i]
    BY <1>2, <1>4, <1>5
  <2>2. /\ \/ q[i].new = own[q[i].name]
           \/ \E j \in 1 .. Len(q) : i < j /\ q[j].name = q[i].name /\ q[j].old = q[i].new
        /\ \E j \in 1 .. Len(q) :
              i <= j /\ q[j].name = q[i].name /\ q[j].new = own[q[i].name]
    BY <1>5, <2>1 DEF Chained
  <2>3. \E j \in 1 .. Len(r) : i <= j /\ r[j].name = r[i].name /\ r[j].new = own[r[i].name]
    BY <1>2, <1>3, <2>1, <2>2
  <2>4. \/ r[i].new = own[r[i].name]
        \/ \E j \in 1 .. Len(r) : i < j /\ r[j].name = r[i].name /\ r[j].old = r[i].new
    BY <1>2, <1>3, <2>1, <2>2
  <2> QED BY <2>3, <2>4
<1>6. Chained(r, own)
  BY <1>5 DEF Chained
<1> QED BY <1>6 DEF r, s

LEMMA ChainTail ==
    ASSUME NEW q \in Seq(Signal), q # <<>>, NEW own, Chained(q, own)
    PROVE  /\ Chained(Tail(q), own)
           /\ Head(q).name # None =>
                \/ Head(q).new = own[Head(q).name]
                \/ Taken(Tail(q), Head(q).name, Head(q).new)
<1> DEFINE r == Tail(q)
<1>1. /\ Len(q) \in Nat \ {0} /\ Len(r) = Len(q) - 1 /\ Head(q) = q[1]
      /\ \A i \in 1 .. Len(q) - 1 : r[i] = q[i + 1]
  BY TailFacts
<1> HIDE DEF r
<1>2. \A i \in 1 .. Len(r) : i + 1 \in 1 .. Len(q) /\ r[i] = q[i + 1]
  BY <1>1
<1>3. \A j \in 1 .. Len(q) : j = 1 \/ (j - 1 \in 1 .. Len(r) /\ r[j - 1] = q[j])
  BY <1>1
<1>4. ASSUME NEW i \in 1 .. Len(r), r[i].name # None
      PROVE  \/ r[i].new = own[r[i].name]
             \/ \E j \in 1 .. Len(r) : i < j /\ r[j].name = r[i].name /\ r[j].old = r[i].new
  <2>1. CASE r[i].new # own[r[i].name]
    <3>1. PICK j \in 1 .. Len(q) : i + 1 < j /\ q[j].name = r[i].name /\ q[j].old = r[i].new
      BY <1>2, <1>4, <2>1 DEF Chained
    <3>2. j - 1 \in 1 .. Len(r) /\ r[j - 1] = q[j] /\ i < j - 1
      BY <1>3, <3>1
    <3> QED BY <3>1, <3>2
  <2> QED BY <2>1
<1>5. ASSUME NEW i \in 1 .. Len(r), r[i].name # None
      PROVE  \E j \in 1 .. Len(r) : i <= j /\ r[j].name = r[i].name /\ r[j].new = own[r[i].name]
  <2>1. PICK j \in 1 .. Len(q) : i + 1 <= j /\ q[j].name = r[i].name
                                  /\ q[j].new = own[r[i].name]
    BY <1>2, <1>5 DEF Chained
  <2>2. j # 1 /\ i <= j - 1
    BY <2>1
  <2>3. j - 1 \in 1 .. Len(r) /\ r[j - 1] = q[j]
    BY <1>3, <2>2
  <2> QED BY <2>1, <2>2, <2>3
<1>6. Chained(r, own)
  BY <1>4, <1>5 DEF Chained
<1>7. ASSUME q[1].name # None, q[1].new # own[q[1].name]
      PROVE  Taken(r, q[1].name, q[1].new)
  <2>1. PICK j \in 1 .. Len(q) : 1 < j /\ q[j].name = q[1].name /\ q[j].old = q[1].new
    BY <1>1, <1>7 DEF Chained
  <2>2. j - 1 \in 1 .. Len(r) /\ r[j - 1] = q[j]
    BY <1>3, <2>1
  <2> QED BY <2>1, <2>2 DEF Taken
<1> QED BY <1>1, <1>6, <1>7 DEF r

-----------------------------------------------------------------------------
(* The bus: connections that wait for their interface.                      *)

Held(p) == {p[i] : i \in 1 .. Len(p)}

LEMMA HeldAppend ==
    ASSUME NEW p \in Seq(Bus!Pair), NEW e \in Bus!Pair
    PROVE  Append(p, e) \in Seq(Bus!Pair) /\ Held(Append(p, e)) = Held(p) \cup {e}
<1> DEFINE r == Append(p, e)
<1>1. /\ r \in Seq(Bus!Pair) /\ Len(p) \in Nat /\ Len(r) = Len(p) + 1
      /\ \A i \in 1 .. Len(p) : r[i] = p[i]
      /\ r[Len(p) + 1] = e
  BY AppendProperties, LenProperties
<1> HIDE DEF r
<1>2. \A i \in 1 .. Len(r) : r[i] = e \/ \E j \in 1 .. Len(p) : r[i] = p[j]
  BY <1>1
<1>3. Len(p) + 1 \in 1 .. Len(r) /\ \A i \in 1 .. Len(p) : i \in 1 .. Len(r)
  BY <1>1
<1>4. Held(r) \subseteq Held(p) \cup {e}
  BY <1>2 DEF Held
<1>5. Held(p) \cup {e} \subseteq Held(r)
  BY <1>1, <1>3 DEF Held
<1> QED BY <1>1, <1>4, <1>5 DEF r

LEMMA HeldWithout ==
    ASSUME NEW p \in Seq(Bus!Pair), NEW i \in 1 .. Len(p)
    PROVE  LET r == SubSeq(p, 1, i - 1) \o SubSeq(p, i + 1, Len(p))
           IN /\ r \in Seq(Bus!Pair) /\ Held(r) \subseteq Held(p)
              /\ \A e \in Held(p) : e = p[i] \/ e \in Held(r)
<1> DEFINE a == SubSeq(p, 1, i - 1)
           b == SubSeq(p, i + 1, Len(p))
           r == a \o b
<1>0. Len(p) \in Nat /\ i \in Nat /\ i <= Len(p) /\ i >= 1
  BY LenProperties
<1>1. a \in Seq(Bus!Pair) /\ Len(a) = i - 1 /\ \A k \in 1 .. i - 1 : a[k] = p[k]
  BY <1>0
<1>2. /\ b \in Seq(Bus!Pair) /\ Len(b) = Len(p) - i
      /\ \A k \in 1 .. Len(p) - i : b[k] = p[i + k]
  BY <1>0
<1> HIDE DEF a, b
<1>3. /\ r \in Seq(Bus!Pair) /\ Len(r) = Len(a) + Len(b)
      /\ \A k \in 1 .. Len(a) + Len(b) : r[k] = IF k <= Len(a) THEN a[k] ELSE b[k - Len(a)]
  BY <1>1, <1>2, ConcatProperties
<1> HIDE DEF r
<1>4. Len(r) = Len(p) - 1
  BY <1>0, <1>1, <1>2, <1>3
<1>5. \A k \in 1 .. Len(p) - 1 : r[k] = IF k <= i - 1 THEN p[k] ELSE p[k + 1]
  <2> TAKE k \in 1 .. Len(p) - 1
  <2>1. CASE k <= i - 1
    BY <1>0, <1>1, <1>2, <1>3, <2>1, SMTT(30)
  <2>2. CASE ~ (k <= i - 1)
    <3>1. k - (i - 1) \in 1 .. Len(p) - i /\ i + (k - (i - 1)) = k + 1
      BY <1>0, <2>2
    <3>2. k \in 1 .. Len(a) + Len(b) /\ ~ (k <= Len(a)) /\ k - Len(a) = k - (i - 1)
      BY <1>0, <1>1, <1>2, <2>2
    <3>3. r[k] = b[k - (i - 1)]
      BY <1>3, <3>2
    <3> QED BY <1>2, <2>2, <3>1, <3>3
  <2> QED BY <2>1, <2>2
<1>6. \A k \in 1 .. Len(r) : \E j \in 1 .. Len(p) : r[k] = p[j]
  BY <1>0, <1>4, <1>5
<1>7. \A j \in 1 .. Len(p) : j = i \/ \E k \in 1 .. Len(r) : r[k] = p[j]
  <2> TAKE j \in 1 .. Len(p)
  <2>1. CASE j < i
    <3>1. j \in 1 .. Len(p) - 1 /\ j <= i - 1
      BY <1>0, <2>1
    <3> QED BY <1>4, <1>5, <3>1
  <2>2. CASE j > i
    <3>1. j - 1 \in 1 .. Len(p) - 1 /\ ~ (j - 1 <= i - 1) /\ (j - 1) + 1 = j
      BY <1>0, <2>2
    <3>2. r[j - 1] = p[j]
      BY <1>5, <3>1
    <3> QED BY <1>4, <3>1, <3>2
  <2> QED BY <1>0, <2>1, <2>2
<1>8. Held(r) \subseteq Held(p)
  BY <1>6 DEF Held
<1>9. \A e \in Held(p) : e = p[i] \/ e \in Held(r)
  BY <1>7 DEF Held
<1> QED BY <1>3, <1>8, <1>9 DEF r, a, b

-----------------------------------------------------------------------------
(* The bus: the invariant.                                                  *)

BusTypes ==
    /\ owner \in [Name -> Bus!Maybe(Owner)]
    /\ exported \in SUBSET Owner /\ odd \in SUBSET Owner
    /\ signals \in Seq(Signal)
    /\ phase \in {"start", "scan", "asking", "reporting", "loop"}
    /\ toScan \in SUBSET Name
    /\ phase \in {"asking", "reporting"} => asked \in Bus!Pair
    /\ pending \in Seq(Bus!Pair)
    /\ table \in [Name -> Bus!Maybe(Owner)]

LEMMA HeldPairs == BusTypes => \A e \in Held(pending) : e \in Bus!Pair
<1> SUFFICES ASSUME BusTypes, NEW i \in 1 .. Len(pending) PROVE pending[i] \in Bus!Pair
  BY DEF Held
<1> QED BY ElementOfSeq DEF BusTypes

PhasesRight ==
    /\ phase = "start" =>
         signals = <<>> /\ Held(pending) = {} /\ \A n \in Name : table[n] = None
    /\ phase = "loop" => toScan = {}

\* That o owns n is true, or the signal of its end is still to come, or o is odd.
Known(n, o) == o = owner[n] \/ o \in odd \/ Taken(signals, n, o)

KnownRight ==
    /\ phase \in {"asking", "reporting"} => Known(asked.name, asked.owner)
    /\ \A e \in Held(pending) : Known(e.name, e.owner)
    /\ \A n \in Name : table[n] \notin {None, owner[n]} \cup odd =>
                          \E o \in Owner : Taken(signals, n, o)

OneName ==
    \A e, f \in Held(pending) : e.owner = f.owner => e.name = f.name \/ e.owner \in odd

Comes(o) == o \in exported => Taken(signals, None, o)

\* What will put an owner into the table if it exports the interface.
UnderWay(n, o) ==
    \/ phase = "start" \/ n \in toScan
    \/ phase = "asking" /\ asked.name = n /\ asked.owner = o
    \/ phase = "reporting" /\ asked.name = n /\ asked.owner = o /\ (found \/ Comes(o))
    \/ Given(signals, n, o)
    \/ table[n] \in {o} \cup odd
    \/ (\E e \in Held(pending) : e.name = n /\ e.owner = o) /\ Comes(o)

Followed ==
    \A n \in Name : owner[n] # None /\ owner[n] \notin slow \cup odd => UnderWay(n, owner[n])

BusInv == BusTypes /\ PhasesRight /\ Chained(signals, owner) /\ KnownRight /\ OneName /\ Followed

LEMMA BusInit == Bus!Init => BusInv
<1> SUFFICES ASSUME Bus!Init PROVE BusInv
  OBVIOUS
<1>1. /\ owner \in [Name -> Bus!Maybe(Owner)] /\ exported \in SUBSET Owner
      /\ signals = <<>> /\ phase = "start" /\ toScan = {} /\ pending = <<>> /\ odd = {}
      /\ table = [n \in Name |-> None]
  BY DEF Bus!Init
<1>2. Len(<<>>) = 0 /\ Held(<<>>) = {}
  BY DEF Held
<1>3. BusTypes
  BY <1>1 DEF BusTypes, Bus!Maybe
<1>4. Chained(signals, owner)
  BY <1>1, <1>2 DEF Chained
<1> QED BY <1>1, <1>2, <1>3, <1>4 DEF BusInv, PhasesRight, KnownRight, OneName, Followed,
                                      UnderWay

\* The owner of a name for which a change waits is on its way.
LEMMA TakenIsUnderWay ==
    ASSUME BusInv, NEW n \in Name, NEW o, Taken(signals, n, o)
    PROVE  Given(signals, n, owner[n])
<1>1. n # None
  BY BusAssumption
<1> QED BY <1>1, TakenIsGiven DEF BusInv, BusTypes

LEMMA BusChange ==
    ASSUME BusInv, NEW n \in Name, NEW o \in Bus!Maybe(Owner), Bus!Change(n, o)
    PROVE  BusInv'
<1> DEFINE s == [name |-> n, old |-> owner[n], new |-> o]
<1>1. /\ owner' = [owner EXCEPT ![n] = o]
      /\ signals' = IF phase = "start" THEN signals ELSE Append(signals, s)
      /\ UNCHANGED <<exported, phase, toScan, asked, found, pending, table, slow, odd>>
  BY DEF Bus!Change, Bus!Happens, Bus!Emit
<1>2. /\ owner \in [Name -> Bus!Maybe(Owner)] /\ signals \in Seq(Signal)
      /\ Chained(signals, owner)
  BY DEF BusInv, BusTypes
<1>3. s \in Signal /\ s.name = n /\ s.old = owner[n] /\ s.new = o
  BY <1>2 DEF Signal, Bus!Maybe
<1>4. owner' \in [Name -> Bus!Maybe(Owner)] /\ owner'[n] = o
      /\ \A m \in Name : m # n => owner'[m] = owner[m]
  BY <1>1, <1>2
<1>5. signals' \in Seq(Signal)
  <2> HIDE DEF s
  <2> QED BY <1>1, <1>2, <1>3, AppendFacts
<1>6. BusTypes'
  BY <1>1, <1>4, <1>5 DEF BusInv, BusTypes
<1>7. CASE phase = "start"
  <2>1. signals' = <<>> /\ Held(pending') = {} /\ \A m \in Name : table'[m] = None
    BY <1>1, <1>7 DEF BusInv, PhasesRight
  <2>2. Chained(signals', owner')
    BY <2>1 DEF Chained
  <2>3. phase' = "start"
    BY <1>1, <1>7
  <2> QED BY <1>6, <2>1, <2>2, <2>3 DEF BusInv, PhasesRight, KnownRight, OneName, Followed,
                                        UnderWay
<1>8. CASE phase # "start"
  <2>1. Chained(signals', owner')
    BY <1>1, <1>2, <1>8, ChainChange
  <2>2. /\ \A m, v : Taken(signals, m, v) => Taken(signals', m, v)
        /\ \A m, v : Given(signals, m, v) => Given(signals', m, v)
        /\ Taken(signals', n, owner[n]) /\ Given(signals', n, o)
    <3> HIDE DEF s
    <3> QED BY <1>1, <1>2, <1>3, <1>8, AppendTells
  <2>3. \A m \in Name : owner[m] = owner'[m] \/ Taken(signals', m, owner[m])
    BY <1>4, <2>2
  <2>4. KnownRight'
    <3>1. \A m \in Name : \A v : Known(m, v) => v = owner'[m] \/ v \in odd' \/ Taken(signals', m, v)
      BY <1>1, <2>2, <2>3 DEF Known
    <3>2. phase \in {"asking", "reporting"} => asked.name \in Name
      BY DEF BusInv, BusTypes, Bus!Pair
    <3>3. \A e \in Held(pending) : e.name \in Name
      BY HeldPairs DEF BusInv, Bus!Pair
    <3>4. ASSUME NEW m \in Name, table'[m] \notin {None, owner'[m]} \cup odd'
          PROVE  \E p \in Owner : Taken(signals', m, p)
      <4>1. CASE table[m] = owner[m]
        <5>1. owner[m] \in Owner /\ Taken(signals', m, owner[m])
          BY <1>1, <1>2, <2>3, <3>4, <4>1 DEF Bus!Maybe
        <5> QED BY <5>1
      <4>2. CASE table[m] # owner[m]
        BY <1>1, <2>2, <3>4, <4>2 DEF BusInv, KnownRight
      <4> QED BY <4>1, <4>2
    <3> QED BY <1>1, <3>1, <3>2, <3>3, <3>4 DEF BusInv, KnownRight, Known
  <2>5. Followed'
    <3> SUFFICES ASSUME NEW m \in Name, NEW v, v = owner'[m], v # None,
                        v \notin slow' \cup odd'
                 PROVE  UnderWay(m, v)'
      BY DEF Followed, UnderWay, Comes
    <3>1. CASE m = n
      BY <1>4, <2>2, <3>1 DEF UnderWay
    <3>2. CASE m # n
      <4>1. v = owner[m]
        BY <1>4, <3>2
      <4>2. UnderWay(m, v)
        BY <1>1, <4>1 DEF BusInv, Followed
      <4> QED BY <1>1, <2>2, <4>1, <4>2 DEF UnderWay, Comes
    <3> QED BY <3>1, <3>2
  <2>6. PhasesRight' /\ OneName'
    BY <1>1, <1>8 DEF BusInv, PhasesRight, OneName
  <2> QED BY <1>6, <2>1, <2>4, <2>5, <2>6 DEF BusInv
<1> QED BY <1>7, <1>8

LEMMA BusLeave == ASSUME BusInv, NEW o \in Owner, Bus!Leave(o) PROVE BusInv'
<1>1. /\ exported' = exported \ {o} /\ \A n \in Name : owner[n] # o
      /\ UNCHANGED <<owner, signals, phase, toScan, asked, found, pending, table, slow, odd>>
  BY DEF Bus!Leave, Bus!Happens
<1>2. BusTypes' /\ PhasesRight' /\ Chained(signals', owner') /\ KnownRight' /\ OneName'
  BY <1>1 DEF BusInv, BusTypes, PhasesRight, KnownRight, Known, OneName
<1>3. Followed'
  BY <1>1 DEF BusInv, Followed, UnderWay, Comes
<1> QED BY <1>2, <1>3, <1>1 DEF BusInv

LEMMA BusExport == ASSUME BusInv, NEW o \in Owner, Bus!Export(o) PROVE BusInv'
<1> DEFINE s == [name |-> None, old |-> o, new |-> None]
<1>1. /\ exported' = exported \cup {o}
      /\ signals' = IF phase = "start" THEN signals ELSE Append(signals, s)
      /\ UNCHANGED <<owner, phase, toScan, asked, found, pending, table, slow, odd>>
  BY DEF Bus!Export, Bus!Happens, Bus!Emit
<1>2. signals \in Seq(Signal) /\ Chained(signals, owner)
  BY DEF BusInv, BusTypes
<1>3. s \in Signal /\ s.name = None /\ s.old = o
  BY DEF Signal, Bus!Maybe
<1>4. Chained(signals', owner')
  BY <1>1, <1>2, ChainAnnounce
<1> HIDE DEF s
<1>5. BusTypes'
  <2>1. signals' \in Seq(Signal)
    BY <1>1, <1>2, <1>3, AppendFacts
  <2> QED BY <1>1, <2>1 DEF BusInv, BusTypes
<1>6. /\ \A m, v : Taken(signals, m, v) => Taken(signals', m, v)
      /\ \A m, v : Given(signals, m, v) => Given(signals', m, v)
      /\ phase # "start" => Taken(signals', None, o)
  BY <1>1, <1>2, <1>3, AppendTells
<1>7. KnownRight' /\ OneName'
  BY <1>1, <1>6 DEF BusInv, KnownRight, Known, OneName
<1>8. PhasesRight'
  BY <1>1 DEF BusInv, PhasesRight
<1>9. phase # "start" => \A v : Comes(v) => Comes(v)'
  BY <1>1, <1>6 DEF Comes
<1>10. Followed'
  <2> SUFFICES ASSUME NEW m \in Name, owner[m] # None, owner[m] \notin slow \cup odd,
                      phase # "start"
               PROVE  UnderWay(m, owner[m])'
    BY <1>1 DEF Followed, UnderWay
  <2>1. UnderWay(m, owner[m])
    BY DEF BusInv, Followed
  <2> QED BY <1>1, <1>6, <1>9, <2>1 DEF UnderWay, Comes
<1> QED BY <1>4, <1>5, <1>7, <1>8, <1>10 DEF BusInv

LEMMA BusScan ==
    ASSUME BusInv, Bus!StartScan \/ Bus!EndScan \/ (\E n \in Name : Bus!ScanName(n))
    PROVE  BusInv'
<1>0. /\ owner \in [Name -> Bus!Maybe(Owner)] /\ toScan \in SUBSET Name
  BY DEF BusInv, BusTypes
<1>1. CASE Bus!StartScan
  <2>1. /\ phase = "start" /\ phase' = "scan" /\ toScan' = {n \in Name : owner[n] # None}
        /\ UNCHANGED <<owner, exported, signals, asked, found, pending, table, slow, odd>>
    BY <1>1 DEF Bus!StartScan, Bus!busVars
  <2>2. BusTypes' /\ PhasesRight' /\ Chained(signals', owner') /\ KnownRight' /\ OneName'
    BY <2>1 DEF BusInv, BusTypes, PhasesRight, KnownRight, Known, OneName
  <2>3. Followed'
    BY <2>1 DEF Followed, UnderWay
  <2> QED BY <2>2, <2>3 DEF BusInv
<1>2. CASE Bus!EndScan
  <2>1. /\ phase = "scan" /\ phase' = "loop" /\ toScan = {}
        /\ UNCHANGED <<owner, exported, signals, toScan, asked, found, pending, table, slow, odd>>
    BY <1>2 DEF Bus!EndScan, Bus!busVars
  <2>2. BusTypes' /\ PhasesRight' /\ Chained(signals', owner') /\ KnownRight' /\ OneName'
    BY <2>1 DEF BusInv, BusTypes, PhasesRight, KnownRight, Known, OneName
  <2>3. Followed'
    BY <2>1 DEF BusInv, Followed, UnderWay, Comes
  <2> QED BY <2>2, <2>3 DEF BusInv
<1>3. ASSUME NEW n \in Name, Bus!ScanName(n) PROVE BusInv'
  <2>1. /\ phase = "scan" /\ n \in toScan /\ toScan' = toScan \ {n}
        /\ UNCHANGED <<owner, exported, signals, found, pending, table, slow, odd>>
        /\ \/ owner[n] = None /\ UNCHANGED <<phase, asked>>
           \/ owner[n] # None /\ phase' = "asking" /\ asked' = [name |-> n, owner |-> owner[n]]
    BY <1>3 DEF Bus!ScanName, Bus!busVars
  <2>2. OneName' /\ Chained(signals', owner') /\ PhasesRight'
    BY <2>1 DEF BusInv, OneName, PhasesRight
  <2>3. CASE owner[n] = None
    <3>1. BusTypes' /\ KnownRight'
      BY <2>1, <2>3 DEF BusInv, BusTypes, KnownRight, Known
    <3>2. Followed'
      BY <2>1, <2>3 DEF BusInv, Followed, UnderWay, Comes
    <3> QED BY <2>2, <3>1, <3>2 DEF BusInv
  <2>4. CASE owner[n] # None
    <3>1. /\ phase' = "asking" /\ asked'.name = n /\ asked'.owner = owner[n]
          /\ asked' \in Bus!Pair
      BY <1>0, <2>1, <2>4 DEF Bus!Pair, Bus!Maybe
    <3>2. BusTypes' /\ KnownRight'
      BY <2>1, <3>1 DEF BusInv, BusTypes, KnownRight, Known
    <3>3. Followed'
      BY <2>1, <3>1 DEF BusInv, Followed, UnderWay, Comes
    <3> QED BY <2>2, <3>2, <3>3 DEF BusInv
  <2> QED BY <2>3, <2>4
<1> QED BY <1>1, <1>2, <1>3

LEMMA BusIntrospect == ASSUME BusInv, Bus!Introspect PROVE BusInv'
<1>1. /\ phase = "asking" /\ phase' = "reporting"
      /\ \/ (asked.owner \in exported => found') /\ UNCHANGED slow
         \/ slow' = slow \cup {asked.owner}
      /\ UNCHANGED <<owner, exported, signals, toScan, asked, pending, table, odd>>
  BY DEF Bus!Introspect, Bus!busVars
<1>2. BusTypes' /\ PhasesRight' /\ Chained(signals', owner') /\ KnownRight' /\ OneName'
  BY <1>1 DEF BusInv, BusTypes, PhasesRight, KnownRight, Known, OneName
<1>3. Followed'
  <2> SUFFICES ASSUME NEW m \in Name, owner[m] # None, owner[m] \notin slow' \cup odd
               PROVE  UnderWay(m, owner[m])'
    BY <1>1 DEF Followed, UnderWay, Comes
  <2>1. UnderWay(m, owner[m])
    BY <1>1 DEF BusInv, Followed
  <2> QED BY <1>1, <2>1 DEF UnderWay, Comes
<1> QED BY <1>2, <1>3 DEF BusInv

LEMMA BusReport == ASSUME BusInv, Bus!Report PROVE BusInv'
<1> DEFINE m == asked.name
           p == asked.owner
<1>1. /\ phase = "reporting" /\ phase' = IF toScan = {} THEN "loop" ELSE "scan"
      /\ UNCHANGED <<owner, exported, signals, toScan, found, slow>>
  BY DEF Bus!Report, Bus!busVars
<1>2. asked \in Bus!Pair /\ m \in Name /\ p \in Owner /\ Known(m, p)
  BY <1>1 DEF BusInv, BusTypes, KnownRight, Bus!Pair
<1>3. pending \in Seq(Bus!Pair) /\ table \in [Name -> Bus!Maybe(Owner)]
  BY DEF BusInv, BusTypes
<1>4. p = owner[m] \/ p \in odd \/ (Taken(signals, m, p) /\ Given(signals, m, owner[m]))
  BY <1>2, TakenIsUnderWay DEF Known
<1>5. Chained(signals', owner')
  BY <1>1 DEF BusInv
<1>6. CASE found /\ table' = [table EXCEPT ![m] = p] /\ UNCHANGED <<pending, odd>>
  <2>1. table'[m] = p /\ \A n \in Name : n # m => table'[n] = table[n]
    BY <1>2, <1>3, <1>6
  <2>2. BusTypes' /\ PhasesRight' /\ OneName'
    BY <1>1, <1>2, <1>6 DEF BusInv, BusTypes, PhasesRight, OneName, Bus!Maybe
  <2>3. KnownRight'
    <3>1. \A n \in Name : table'[n] \notin {None, owner[n]} \cup odd =>
             \E o \in Owner : Taken(signals, n, o)
      BY <1>2, <1>4, <2>1 DEF BusInv, KnownRight
    <3> QED BY <1>1, <1>6, <3>1 DEF BusInv, KnownRight, Known
  <2>4. Followed'
    <3> SUFFICES ASSUME NEW n \in Name, owner[n] # None, owner[n] \notin slow \cup odd
                 PROVE  UnderWay(n, owner[n])'
      BY <1>1, <1>6 DEF Followed, UnderWay, Comes
    <3>1. UnderWay(n, owner[n])
      BY DEF BusInv, Followed
    <3> QED BY <1>1, <1>4, <1>6, <2>1, <3>1 DEF UnderWay, Comes
  <2> QED BY <1>5, <2>2, <2>3, <2>4 DEF BusInv
<1>7. CASE ~ found /\ Bus!Pend /\ UNCHANGED table
  <2>1. pending' = Append(pending, asked) /\ odd \subseteq odd' /\ odd' \in SUBSET Owner
    BY <1>2, <1>7 DEF Bus!Pend, BusInv, BusTypes
  <2>2. pending' \in Seq(Bus!Pair) /\ Held(pending') = Held(pending) \cup {asked}
    BY <1>2, <1>3, <2>1, HeldAppend
  <2>3. \A e \in Held(pending) : e.owner = p /\ e.name # m => p \in odd'
    BY <1>7 DEF Bus!Pend, Held
  <2>4. BusTypes' /\ PhasesRight'
    BY <1>1, <1>7, <2>1, <2>2 DEF BusInv, BusTypes, PhasesRight
  <2>5. OneName'
    BY <2>1, <2>2, <2>3 DEF BusInv, OneName
  <2>6. KnownRight'
    BY <1>1, <1>2, <1>7, <2>1, <2>2 DEF BusInv, KnownRight, Known
  <2>7. Followed'
    <3> SUFFICES ASSUME NEW n \in Name, owner[n] # None, owner[n] \notin slow \cup odd'
                 PROVE  UnderWay(n, owner[n])'
      BY <1>1 DEF Followed, UnderWay, Comes
    <3>1. UnderWay(n, owner[n])
      BY <2>1 DEF BusInv, Followed
    <3> QED BY <1>1, <1>7, <2>1, <2>2, <3>1 DEF UnderWay, Comes
  <2> QED BY <1>5, <2>4, <2>5, <2>6, <2>7 DEF BusInv
<1> QED BY <1>6, <1>7 DEF Bus!Report

LEMMA BusOwnerChanged == ASSUME BusInv, Bus!OwnerChanged PROVE BusInv'
<1> DEFINE s == Head(signals)
           n == s.name
<1>1. /\ phase = "loop" /\ signals # <<>> /\ n # None /\ signals' = Tail(signals)
      /\ table' = IF s.old = None THEN table ELSE [table EXCEPT ![n] = None]
      /\ \/ s.new = None /\ UNCHANGED <<phase, asked>>
         \/ s.new # None /\ phase' = "asking" /\ asked' = [name |-> n, owner |-> s.new]
      /\ odd' = IF Bus!Entries(n, s.old) = {} THEN odd ELSE odd \cup {s.old}
      /\ UNCHANGED <<owner, exported, toScan, found, pending, slow>>
  BY DEF Bus!OwnerChanged, Bus!busVars
<1>2. /\ signals \in Seq(Signal) /\ Chained(signals, owner) /\ toScan = {}
      /\ table \in [Name -> Bus!Maybe(Owner)]
  BY <1>1 DEF BusInv, BusTypes, PhasesRight
<1>3. /\ signals' \in Seq(Signal) /\ s \in Signal
  BY <1>1, <1>2, TailFacts
<1>4. n \in Name /\ s.new \in Bus!Maybe(Owner) /\ s.old \in Bus!Maybe(Owner)
  BY <1>1, <1>3 DEF Signal, Bus!Maybe
<1>5. /\ Chained(signals', owner)
      /\ s.new = owner[n] \/ (Taken(signals', n, s.new) /\ Given(signals', n, owner[n]))
  <2>1. Chained(signals', owner) /\ (s.new = owner[n] \/ Taken(signals', n, s.new))
    BY <1>1, <1>2, ChainTail
  <2> HIDE DEF n
  <2> QED BY <1>1, <1>3, <2>1, TakenIsGiven
<1>6. /\ \A k, o : Taken(signals, k, o) => Taken(signals', k, o) \/ (n = k /\ s.old = o)
      /\ \A k, o : Given(signals, k, o) => Given(signals', k, o) \/ (n = k /\ s.new = o)
  BY <1>1, <1>2, TailTells
<1>7. \A e \in Held(pending) : e \in Bus!Pair
  BY HeldPairs DEF BusInv
<1> HIDE DEF n, s
<1>8. \A e \in Held(pending) : e.name = n /\ e.owner = s.old => s.old \in odd'
  <2> SUFFICES ASSUME NEW i \in 1 .. Len(pending), pending[i].name = n,
                      pending[i].owner = s.old
               PROVE  s.old \in odd'
    BY DEF Held
  <2>1. pending[i] \in Bus!Pair
    BY <1>7 DEF Held
  <2>2. pending[i] = [name |-> n, owner |-> s.old]
    BY <2>1 DEF Bus!Pair
  <2> QED BY <1>1, <2>2 DEF Bus!Entries
<1>9. odd \subseteq odd' /\ odd' \in SUBSET Owner
  <2>1. ASSUME Bus!Entries(n, s.old) # {} PROVE s.old \in Owner
    <3>1. PICK i \in 1 .. Len(pending) : pending[i] = [name |-> n, owner |-> s.old]
      BY <2>1 DEF Bus!Entries
    <3>2. pending[i] \in Bus!Pair
      BY <1>7 DEF Held
    <3> QED BY <3>1, <3>2 DEF Bus!Pair
  <2> QED BY <1>1, <2>1 DEF BusInv, BusTypes
<1>10. /\ table' \in [Name -> Bus!Maybe(Owner)]
       /\ s.old # None => table'[n] = None
       /\ s.old = None => table' = table
       /\ \A k \in Name : k # n => table'[k] = table[k]
  BY <1>1, <1>2, <1>4 DEF Bus!Maybe
<1>11. s.new # None => phase' = "asking" /\ asked'.name = n /\ asked'.owner = s.new
                       /\ asked' \in Bus!Pair
  BY <1>1, <1>4 DEF Bus!Pair, Bus!Maybe
<1>12. BusTypes'
  BY <1>1, <1>3, <1>9, <1>10, <1>11 DEF BusInv, BusTypes
<1>13. PhasesRight'
  BY <1>1, <1>2 DEF PhasesRight
<1>14. OneName'
  BY <1>1, <1>9 DEF BusInv, OneName
<1>15. KnownRight'
  <2>1. phase' \in {"asking", "reporting"} => Known(asked.name, asked.owner)'
    BY <1>1, <1>5, <1>11 DEF Known
  <2>2. \A e \in Held(pending) :
           e.owner = owner[e.name] \/ e.owner \in odd' \/ Taken(signals', e.name, e.owner)
    BY <1>6, <1>8, <1>9 DEF BusInv, KnownRight, Known
  <2>3. ASSUME NEW k \in Name, table'[k] \notin {None, owner[k]} \cup odd'
        PROVE  \E o \in Owner : Taken(signals', k, o)
    <3>1. table'[k] = table[k] /\ (k = n => s.old = None)
      BY <1>10, <2>3
    <3>2. PICK o \in Owner : Taken(signals, k, o)
      BY <1>9, <2>3, <3>1 DEF BusInv, KnownRight
    <3>3. o # None
      BY BusAssumption
    <3> QED BY <1>6, <3>1, <3>2, <3>3
  <2> QED BY <1>1, <2>1, <2>2, <2>3 DEF KnownRight, Known
<1>16. Followed'
  <2> SUFFICES ASSUME NEW k \in Name, owner[k] # None, owner[k] \notin slow \cup odd'
               PROVE  UnderWay(k, owner[k])'
    BY <1>1 DEF Followed, UnderWay, Comes
  <2>1. CASE k = n
    BY <1>1, <1>5, <1>11, <2>1 DEF UnderWay
  <2>2. CASE k # n
    <3>1. UnderWay(k, owner[k])
      BY <1>9 DEF BusInv, Followed
    <3>2. Comes(owner[k]) => Comes(owner[k])'
      BY <1>1, <1>6 DEF Comes
    <3> QED BY <1>1, <1>2, <1>6, <1>9, <1>10, <2>2, <3>1, <3>2 DEF UnderWay, Comes
  <2> QED BY <2>1, <2>2
<1> QED BY <1>1, <1>5, <1>12, <1>13, <1>14, <1>15, <1>16 DEF BusInv

LEMMA BusInterfacesAdded == ASSUME BusInv, Bus!InterfacesAdded PROVE BusInv'
<1> DEFINE s == Head(signals)
           o == s.old
           mine == {i \in 1 .. Len(pending) : pending[i].owner = o}
<1>1. /\ phase = "loop" /\ signals # <<>> /\ s.name = None /\ signals' = Tail(signals)
      /\ UNCHANGED <<owner, exported, phase, toScan, asked, found, slow, odd>>
  BY DEF Bus!InterfacesAdded, Bus!busVars
<1>2. /\ mine = {} /\ UNCHANGED <<pending, table>>
      \/ \E i \in mine : /\ table' = [table EXCEPT ![pending[i].name] = o]
                         /\ pending' = SubSeq(pending, 1, i - 1)
                                         \o SubSeq(pending, i + 1, Len(pending))
  BY DEF Bus!InterfacesAdded
<1>3. /\ signals \in Seq(Signal) /\ Chained(signals, owner) /\ toScan = {}
      /\ pending \in Seq(Bus!Pair) /\ table \in [Name -> Bus!Maybe(Owner)]
  BY <1>1 DEF BusInv, BusTypes, PhasesRight
<1>4. signals' \in Seq(Signal) /\ Chained(signals', owner')
  BY <1>1, <1>3, TailFacts, ChainTail
<1>5. /\ \A k, v : k # None /\ Taken(signals, k, v) => Taken(signals', k, v)
      /\ \A v : v # o /\ Taken(signals, None, v) => Taken(signals', None, v)
      /\ \A k, v : k # None /\ Given(signals, k, v) => Given(signals', k, v)
  BY <1>1, <1>3, TailTells
<1>6. \A n \in Name : n # None
  BY BusAssumption
<1>7. \A e \in Held(pending) : e \in Bus!Pair /\ e.name \in Name /\ e.owner \in Owner
  BY HeldPairs DEF BusInv, Bus!Pair
<1>8. \A v : v # o /\ Comes(v) => Comes(v)'
  BY <1>1, <1>5 DEF Comes
<1>9. CASE mine = {} /\ UNCHANGED <<pending, table>>
  <2>1. \A e \in Held(pending) : e.owner # o
    BY <1>9 DEF Held
  <2>2. BusTypes' /\ PhasesRight' /\ OneName'
    BY <1>1, <1>3, <1>4, <1>9 DEF BusInv, BusTypes, PhasesRight, OneName
  <2> HIDE DEF o, s, mine
  <2>3. KnownRight'
    BY <1>1, <1>5, <1>6, <1>7, <1>9 DEF BusInv, KnownRight, Known
  <2>4. Followed'
    <3> SUFFICES ASSUME NEW n \in Name, owner[n] # None, owner[n] \notin slow \cup odd
                 PROVE  UnderWay(n, owner[n])'
      BY <1>1 DEF Followed, UnderWay, Comes
    <3>1. UnderWay(n, owner[n])
      BY DEF BusInv, Followed
    <3>2. owner[n] # o /\ Comes(owner[n]) => Comes(owner[n])'
      BY <1>1, <1>8 DEF Comes
    <3> QED BY <1>1, <1>3, <1>5, <1>6, <1>9, <2>1, <3>1, <3>2 DEF UnderWay, Comes
  <2> QED BY <1>4, <2>2, <2>3, <2>4 DEF BusInv
<1>10. ASSUME NEW i \in 1 .. Len(pending), pending[i].owner = o,
              table' = [table EXCEPT ![pending[i].name] = o],
              pending' = SubSeq(pending, 1, i - 1) \o SubSeq(pending, i + 1, Len(pending))
       PROVE  BusInv'
  <2> DEFINE e0 == pending[i]
             m == e0.name
  <2>1. e0 \in Held(pending) /\ m \in Name /\ o \in Owner
    BY <1>7, <1>10 DEF Held
  <2>2. /\ pending' \in Seq(Bus!Pair) /\ Held(pending') \subseteq Held(pending)
        /\ \A e \in Held(pending) : e = e0 \/ e \in Held(pending')
    BY <1>3, <1>10, HeldWithout
  <2>3. /\ table' \in [Name -> Bus!Maybe(Owner)] /\ table'[m] = o
        /\ \A n \in Name : n # m => table'[n] = table[n]
    BY <1>3, <1>10, <2>1 DEF Bus!Maybe
  <2>4. e0.owner = o
    BY <1>10
  <2> HIDE DEF s, o, mine, e0, m
  <2>5. \/ o = owner[m] \/ o \in odd
        \/ (Taken(signals', m, o) /\ Given(signals', m, owner[m]))
    <3>1. Known(m, o)
      BY <2>1, <2>4 DEF BusInv, KnownRight, m
    <3> QED BY <1>5, <1>6, <2>1, <3>1, TakenIsUnderWay DEF Known
  <2>6. BusTypes' /\ PhasesRight' /\ OneName'
    BY <1>1, <1>3, <1>4, <2>2, <2>3 DEF BusInv, BusTypes, PhasesRight, OneName
  <2>7. KnownRight'
    <3>1. \A e \in Held(pending') :
             e.owner = owner[e.name] \/ e.owner \in odd \/ Taken(signals', e.name, e.owner)
      BY <1>5, <1>6, <1>7, <2>2 DEF BusInv, KnownRight, Known
    <3>2. \A n \in Name : table'[n] \notin {None, owner[n]} \cup odd =>
             \E v \in Owner : Taken(signals', n, v)
      BY <1>5, <1>6, <2>1, <2>3, <2>5 DEF BusInv, KnownRight
    <3> QED BY <1>1, <3>1, <3>2 DEF KnownRight, Known
  <2>8. Followed'
    <3> SUFFICES ASSUME NEW n \in Name, owner[n] # None, owner[n] \notin slow \cup odd
                 PROVE  UnderWay(n, owner[n])'
      BY <1>1 DEF Followed, UnderWay, Comes
    <3>1. UnderWay(n, owner[n])
      BY DEF BusInv, Followed
    <3>2. CASE \E e \in Held(pending) : e.name = n /\ e.owner = owner[n] /\ Comes(owner[n])
      <4>1. PICK e \in Held(pending) : e.name = n /\ e.owner = owner[n] /\ Comes(owner[n])
        BY <3>2
      <4>2. CASE owner[n] = o
        <5>1. e.owner = e0.owner /\ e.owner \notin odd
          BY <2>4, <4>1, <4>2
        <5>2. e.name = e0.name
          BY <2>1, <4>1, <5>1 DEF BusInv, OneName
        <5> QED BY <1>1, <2>3, <4>1, <4>2, <5>2 DEF UnderWay, m
      <4>3. CASE owner[n] # o
        <5>1. e \in Held(pending')
          BY <2>2, <2>4, <4>1, <4>3
        <5>2. Comes(owner[n])'
          BY <1>1, <1>8, <4>1, <4>3 DEF Comes
        <5> QED BY <1>1, <4>1, <5>1, <5>2 DEF UnderWay, Comes
      <4> QED BY <4>2, <4>3
    <3>3. CASE table[n] \in {owner[n]} \cup odd
      BY <1>1, <2>3, <2>5, <3>3 DEF UnderWay
    <3>4. CASE Given(signals, n, owner[n])
      BY <1>1, <1>5, <1>6, <3>4 DEF UnderWay
    <3> QED BY <1>1, <1>3, <3>1, <3>2, <3>3, <3>4 DEF UnderWay
  <2> QED BY <1>4, <2>6, <2>7, <2>8 DEF BusInv
<1>11. ASSUME NEW i \in mine, table' = [table EXCEPT ![pending[i].name] = o],
              pending' = SubSeq(pending, 1, i - 1) \o SubSeq(pending, i + 1, Len(pending))
       PROVE  BusInv'
  BY <1>10, <1>11
<1> QED BY <1>2, <1>9, <1>11

LEMMA BusNext == BusInv /\ [Bus!Next]_(Bus!vars) => BusInv'
<1> SUFFICES ASSUME BusInv, [Bus!Next]_(Bus!vars) PROVE BusInv'
  OBVIOUS
<1>1. CASE UNCHANGED Bus!vars
  BY <1>1 DEF Bus!vars, BusInv, BusTypes, PhasesRight, KnownRight, Known, OneName, Followed,
              UnderWay, Comes
<1> QED BY <1>1, BusChange, BusLeave, BusExport, BusScan, BusIntrospect, BusReport,
           BusOwnerChanged, BusInterfacesAdded DEF Bus!Next

\* Whatever happens on the bus while the monitor starts, scans and asks, its table
\* and the bus agree when every signal has been handled, with the exceptions that
\* EntriesAreCurrent and AppsAreFound name.
THEOREM TableFollowsBus == Bus!Spec => []TableMirrorsBus
<1>1. BusInv => TableMirrorsBus
  <2> SUFFICES ASSUME BusInv, phase = "loop", signals = <<>>, NEW n \in Name
               PROVE  /\ table[n] \in {None, owner[n]} \cup odd
                      /\ owner[n] \in exported \ (slow \cup odd) =>
                           table[n] \in {owner[n]} \cup odd
    BY DEF TableMirrorsBus, Bus!TableMirrorsBus, Bus!EntriesAreCurrent, Bus!AppsAreFound,
           Bus!CaughtUp
  <2>1. \A m, o : ~ Taken(signals, m, o) /\ ~ Given(signals, m, o)
    <3>1. Len(<<>>) = 0
      OBVIOUS
    <3> QED BY <3>1 DEF Taken, Given
  <2>2. table[n] \in {None, owner[n]} \cup odd
    BY <2>1 DEF BusInv, KnownRight
  <2>3. ASSUME owner[n] \in exported \ (slow \cup odd)
        PROVE  table[n] \in {owner[n]} \cup odd
    <3>1. owner[n] \in Owner /\ owner[n] # None /\ toScan = {}
      BY <2>3, BusAssumption DEF BusInv, BusTypes, PhasesRight
    <3>2. UnderWay(n, owner[n])
      BY <2>3, <3>1 DEF BusInv, Followed
    <3> QED BY <2>1, <2>3, <3>1, <3>2 DEF UnderWay, Comes
  <2> QED BY <2>2, <2>3
<1> QED BY BusInit, BusNext, <1>1, PTL DEF Bus!Spec

-----------------------------------------------------------------------------
(* The rows: the order of the pool.                                         *)

RowT == [event : Nat, abs : Int]

LEMMA CardinalityInRows == \A S : Rows!Cardinality(S) = Cardinality(S)
BY Zenon DEF Rows!Cardinality, Cardinality

LEMMA PrecedesOrders ==
    ASSUME NEW p \in Seq(RowT)
    PROVE  /\ \A i \in 1 .. Len(p) : ~ Rows!Precedes(p, i, i)
           /\ \A i, j \in 1 .. Len(p) : i = j \/ Rows!Precedes(p, i, j) \/ Rows!Precedes(p, j, i)
           /\ \A i, j, k \in 1 .. Len(p) :
                Rows!Precedes(p, i, j) /\ Rows!Precedes(p, j, k) => Rows!Precedes(p, i, k)
<1>1. \A i \in 1 .. Len(p) : p[i].event \in Nat /\ p[i].abs \in Int /\ i \in Nat
  <2> TAKE i \in 1 .. Len(p)
  <2>1. p[i] \in RowT
    BY ElementOfSeq
  <2> QED BY <2>1 DEF RowT
<1>2. \A i, j \in 1 .. Len(p) : Rows!Precedes(p, j, i) <=>
        \/ p[i].event < p[j].event
        \/ p[i].event = p[j].event /\ p[i].abs > p[j].abs
        \/ p[i].event = p[j].event /\ p[i].abs = p[j].abs /\ j < i
  BY <1>1 DEF Rows!Precedes, Rows!should_swap
<1>3. \A i \in 1 .. Len(p) : ~ Rows!Precedes(p, i, i)
  BY <1>1, <1>2
<1>4. \A i, j \in 1 .. Len(p) : i = j \/ Rows!Precedes(p, i, j) \/ Rows!Precedes(p, j, i)
  BY <1>1, <1>2
<1>5. ASSUME NEW i \in 1 .. Len(p), NEW j \in 1 .. Len(p), NEW k \in 1 .. Len(p),
             Rows!Precedes(p, i, j), Rows!Precedes(p, j, k)
      PROVE  Rows!Precedes(p, i, k)
  <2> DEFINE e(x) == p[x].event
             a(x) == p[x].abs
             above(x, y) == \/ e(y) < e(x)
                            \/ e(y) = e(x) /\ a(y) > a(x)
                            \/ e(y) = e(x) /\ a(y) = a(x) /\ x < y
  <2>1. /\ e(i) \in Nat /\ e(j) \in Nat /\ e(k) \in Nat
        /\ a(i) \in Int /\ a(j) \in Int /\ a(k) \in Int
        /\ i \in Nat /\ j \in Nat /\ k \in Nat
    BY <1>1
  <2>2. above(i, j) /\ above(j, k) /\ (above(i, k) => Rows!Precedes(p, i, k))
    BY <1>2, <1>5
  <2> HIDE DEF e, a
  <2>3. above(i, k)
    BY <2>1, <2>2
  <2> QED BY <2>2, <2>3
<1> QED BY <1>3, <1>4, <1>5

\* The rows of the pool have the places 1 to Len(p), one each.
LEMMA PlaceFacts ==
    ASSUME NEW p \in Seq(RowT)
    PROVE  /\ \A i \in 1 .. Len(p) : Rows!Place(p, i) \in 1 .. Len(p)
           /\ \A k \in 1 .. Len(p) : \E i \in 1 .. Len(p) : Rows!Place(p, i) = k
<1> DEFINE D == 1 .. Len(p)
           before(i) == {j \in D : Rows!Precedes(p, j, i)}
           R(i) == Rows!Place(p, i)
           f == [i \in D |-> R(i)]
<1>1. Len(p) \in Nat /\ DOMAIN p = D
  BY LenProperties
<1>2. IsFiniteSet(D) /\ Cardinality(D) = Len(p)
  BY <1>1, Counted
<1>3. \A i : R(i) = 1 + Cardinality(before(i))
  BY <1>1, CardinalityInRows DEF Rows!Place
<1>4. ASSUME NEW i \in D
      PROVE  /\ IsFiniteSet(before(i)) /\ Cardinality(before(i)) \in Nat
             /\ Cardinality(before(i)) < Len(p) /\ i \notin before(i)
  <2>1. i \notin before(i) /\ before(i) \in SUBSET D
    BY PrecedesOrders
  <2> HIDE DEF D, before
  <2>2. IsFiniteSet(before(i)) /\ Cardinality(before(i)) <= Len(p)
        /\ (Cardinality(before(i)) = Len(p) => D = before(i))
    BY <1>2, <2>1, FS_Subset
  <2>3. Cardinality(before(i)) \in Nat
    BY <2>2, FS_CardinalityType
  <2> QED BY <1>1, <1>4, <2>1, <2>2, <2>3
<1>5. ASSUME NEW i \in D, NEW j \in D, Rows!Precedes(p, i, j)
      PROVE  R(i) # R(j)
  <2>1. before(i) \in SUBSET before(j)
    BY <1>5, PrecedesOrders
  <2>2. i \in before(j) /\ i \notin before(i)
    BY <1>4, <1>5
  <2>3. IsFiniteSet(before(j)) /\ Cardinality(before(j)) \in Nat /\ Cardinality(before(i)) \in Nat
    BY <1>4
  <2>4. R(i) = 1 + Cardinality(before(i)) /\ R(j) = 1 + Cardinality(before(j))
    BY <1>3
  <2> HIDE DEF before, R
  <2>5. Cardinality(before(i)) # Cardinality(before(j))
    BY <2>1, <2>2, <2>3, FS_Subset
  <2> QED BY <2>3, <2>4, <2>5
<1>6. \A i, j \in D : R(i) = R(j) => i = j
  BY <1>5, PrecedesOrders
<1>7. \A i \in D : R(i) \in D
  <2> SUFFICES ASSUME NEW i \in D PROVE R(i) \in D
    OBVIOUS
  <2>1. R(i) = 1 + Cardinality(before(i))
    BY <1>3
  <2>2. Cardinality(before(i)) \in Nat /\ Cardinality(before(i)) < Len(p)
    BY <1>4
  <2> HIDE DEF R, before
  <2> QED BY <1>1, <2>1, <2>2
<1>8. f \in Injection(D, D)
  <2> HIDE DEF R, D
  <2> QED BY <1>6, <1>7 DEF Injection, IsInjective
<1>9. f \in Surjection(D, D)
  <2> HIDE DEF f, D
  <2> QED BY <1>2, <1>8, FS_Injection
<1>10. \A k \in D : \E i \in D : R(i) = k
  <2> HIDE DEF R, D
  <2> QED BY <1>9 DEF Surjection
<1> QED BY <1>7, <1>10

LEMMA SortFacts ==
    ASSUME NEW p \in Seq(RowT)
    PROVE  /\ Rows!Sort(p) \in Seq(RowT) /\ Len(Rows!Sort(p)) = Len(p)
           /\ \A k \in 1 .. Len(p) : \E i \in 1 .. Len(p) :
                Rows!Place(p, i) = k /\ Rows!Sort(p)[k] = p[i]
<1> DEFINE D == 1 .. Len(p)
           pick(k) == CHOOSE i \in D : Rows!Place(p, i) = k
           s == [k \in D |-> p[pick(k)]]
<1>1. Len(p) \in Nat /\ DOMAIN p = D
  BY LenProperties
<1>2. \A k \in D : pick(k) \in D /\ Rows!Place(p, pick(k)) = k
  <2> TAKE k \in D
  <2>1. \E i \in D : Rows!Place(p, i) = k
    BY PlaceFacts
  <2> HIDE DEF D
  <2> QED BY <2>1
<1>3. Rows!Sort(p) = s
  BY <1>1 DEF Rows!Sort
<1>4. \A i \in D : p[i] \in RowT
  BY ElementOfSeq
<1> HIDE DEF pick
<1>5. s \in [1 .. Len(p) -> RowT]
  BY <1>2, <1>4
<1>6. s \in Seq(RowT) /\ Len(s) = Len(p)
  <2> HIDE DEF s
  <2> QED BY <1>1, <1>5, SeqDef, LenProperties
<1>7. \A k \in D : s[k] = p[pick(k)]
  OBVIOUS
<1> HIDE DEF s
<1> QED BY <1>2, <1>3, <1>6, <1>7

Lower(n, f, v) == {j \in 1 .. n : f[j] < v}

LEMMA CountBelow ==
    ASSUME NEW n \in Nat, NEW f, NEW start \in Nat,
           \A i \in 1 .. n : f[i] \in start .. start + n - 1,
           \A i, j \in 1 .. n : f[i] = f[j] => i = j,
           NEW i \in 1 .. n
    PROVE  Cardinality(Lower(n, f, f[i])) = f[i] - start
<1> DEFINE D == 1 .. n
           T == start .. start + n - 1
           g == [j \in D |-> f[j]]
           A == {j \in D : f[j] < f[i]}
           B == start .. f[i] - 1
           h == [j \in A |-> f[j]]
<1>1. IsFiniteSet(D) /\ Cardinality(D) = n
  BY Counted
<1>2. IsFiniteSet(T) /\ Cardinality(T) = n
  <2>1. start \in Int /\ start + n - 1 \in Int
    OBVIOUS
  <2>2. IsFiniteSet(T) /\ Cardinality(T) =
          IF start > start + n - 1 THEN 0 ELSE (start + n - 1) - start + 1
    BY <2>1, FS_Interval
  <2> QED BY <2>2
<1>3. g \in Injection(D, T)
  BY DEF Injection, IsInjective
<1>4. g \in Surjection(D, T)
  <2> HIDE DEF g, D, T
  <2> QED BY <1>1, <1>2, <1>3, FS_Injection
<1>5. \A v \in T : \E j \in D : f[j] = v
  <2>1. \A v \in T : \E j \in D : g[j] = v
    <3> HIDE DEF g, D, T
    <3> QED BY <1>4 DEF Surjection
  <2> QED BY <2>1
<1>6. f[i] \in T /\ f[i] \in Int /\ start <= f[i]
  OBVIOUS
<1>7. \A j \in A : f[j] \in B
  BY <1>6
<1>8. \A v \in B : \E j \in A : f[j] = v
  <2> SUFFICES ASSUME NEW v \in B PROVE \E j \in A : f[j] = v
    OBVIOUS
  <2>1. v \in T /\ v < f[i]
    BY <1>6
  <2>2. PICK j \in D : f[j] = v
    BY <1>5, <2>1
  <2> QED BY <2>1, <2>2
<1>9. h \in Bijection(A, B)
  <2>1. \A j, k \in A : f[j] = f[k] => j = k
    OBVIOUS
  <2> HIDE DEF A, B
  <2> QED BY <1>7, <1>8, <2>1 DEF Bijection, Injection, Surjection, IsInjective
<1>10. IsFiniteSet(A)
  <2>1. A \in SUBSET D
    OBVIOUS
  <2> HIDE DEF A, D
  <2> QED BY <1>1, <2>1, FS_Subset
<1>11. Cardinality(B) = Cardinality(A)
  <2> HIDE DEF A, B, h
  <2> QED BY <1>9, <1>10, FS_Bijection DEF ExistsBijection
<1>12. Cardinality(B) = f[i] - start
  <2>1. start \in Int /\ f[i] - 1 \in Int
    BY <1>6
  <2>2. Cardinality(B) = IF start > f[i] - 1 THEN 0 ELSE (f[i] - 1) - start + 1
    BY <2>1, FS_Interval
  <2> QED BY <1>6, <2>2
<1> QED BY <1>11, <1>12 DEF Lower

-----------------------------------------------------------------------------
(* The rows: what is laid out.                                              *)

Newer(p, n, e) ==
    /\ \A i \in 1 .. Len(p) : i <= n => p[i].event = e
    /\ \A i \in 1 .. Len(p) : i > n => p[i].event < e

\* The first n rows show n matches from start on, each row another one.
OneEach(p, n, start) ==
    /\ \A i \in 1 .. n : p[i].abs \in start .. start + n - 1
    /\ \A i, j \in 1 .. n : p[i].abs = p[j].abs => i = j

\* The rows are all from older lists, or the first n show a window of list e.
Fits(p, n, e) ==
    \/ \A i \in 1 .. Len(p) : p[i].event < e
    \/ \E s0 \in Nat : /\ \A i \in 1 .. n : p[i] = Rows!Row(e, s0 + i - 1)
                       /\ \A i \in 1 .. Len(p) : i > n => p[i].event < e

\* Rows that show the matches of a window, one each, are sorted into it.
LEMMA WindowSorted ==
    ASSUME NEW p \in Seq(RowT), NEW n \in Nat, n <= Len(p), NEW e \in Nat, NEW start \in Nat,
           Newer(p, n, e), OneEach(p, n, start)
    PROVE  /\ \A k \in 1 .. n : Rows!Sort(p)[k] = Rows!Row(e, start + k - 1)
           /\ \A k \in 1 .. Len(p) : k > n => Rows!Sort(p)[k].event < e
<1> DEFINE D == 1 .. Len(p)
           N == 1 .. n
           before(i) == {j \in D : Rows!Precedes(p, j, i)}
           f == [i \in N |-> p[i].abs]
<1> USE DEF OneEach
<1>1. Len(p) \in Nat /\ DOMAIN p = D /\ \A i \in N : i \in D
  BY LenProperties
<1>2. \A i \in D : p[i] \in RowT /\ p[i].event \in Nat /\ p[i].abs \in Int
  <2> TAKE i \in D
  <2>1. p[i] \in RowT
    BY ElementOfSeq
  <2> QED BY <2>1 DEF RowT
<1>3. \A i : Rows!Place(p, i) = 1 + Cardinality(before(i))
  BY <1>1, CardinalityInRows DEF Rows!Place
<1>4. \A i \in N : p[i].event = e
  BY <1>1 DEF Newer
<1>5. \A i \in D : i > n => p[i].event < e
  BY DEF Newer
<1>6. \A i, j \in D : Rows!Precedes(p, j, i) <=>
        \/ p[i].event < p[j].event
        \/ p[i].event = p[j].event /\ p[i].abs > p[j].abs
        \/ p[i].event = p[j].event /\ p[i].abs = p[j].abs /\ j < i
  BY <1>2 DEF Rows!Precedes, Rows!should_swap
<1>7. ASSUME NEW i \in N PROVE Rows!Place(p, i) = p[i].abs - start + 1
  <2>1. \A j \in D : Rows!Precedes(p, j, i) <=> j \in N /\ p[j].abs < p[i].abs
    <3> TAKE j \in D
    <3>1. CASE j \in N
      <4>1. p[j].abs = p[i].abs => j = i
        BY <3>1
      <4> QED BY <1>1, <1>2, <1>4, <1>6, <3>1, <4>1
    <3>2. CASE j \notin N
      BY <1>1, <1>2, <1>4, <1>5, <1>6, <3>2
    <3> QED BY <3>1, <3>2
  <2>2. \A j \in N : f[j] = p[j].abs
    OBVIOUS
  <2>3. before(i) = Lower(n, f, f[i])
    <3>1. \A j : j \in before(i) <=> j \in N /\ f[j] < f[i]
      BY <1>1, <2>1, <2>2
    <3> QED BY <3>1, Zenon DEF Lower
  <2>4. /\ \A j \in N : f[j] \in start .. start + n - 1
        /\ \A j, k \in N : f[j] = f[k] => j = k
    BY <2>2
  <2> HIDE DEF f, before
  <2>5. Cardinality(Lower(n, f, f[i])) = f[i] - start
    BY <2>4, CountBelow, ZenonT(60)
  <2>6. f[i] = p[i].abs /\ p[i].abs \in Int
    BY <1>1, <1>2, <2>2
  <2>7. Rows!Place(p, i) = 1 + (f[i] - start)
    BY <1>3, <2>3, <2>5, Zenon
  <2> QED BY <2>6, <2>7
<1>8. ASSUME NEW i \in D, i > n PROVE Rows!Place(p, i) > n
  <2>1. ASSUME NEW j \in N PROVE Rows!Precedes(p, j, i)
    <3>1. j \in D /\ p[j].event = e /\ p[i].event < e
      BY <1>1, <1>4, <1>5, <1>8
    <3> QED BY <1>6, <3>1
  <2>2. N \in SUBSET before(i) /\ before(i) \in SUBSET D
    BY <1>1, <2>1
  <2>3. IsFiniteSet(D) /\ Cardinality(N) = n
    BY <1>1, Counted
  <2> HIDE DEF N, D, before
  <2>4. IsFiniteSet(before(i))
    BY <2>2, <2>3, FS_Subset
  <2>5. n <= Cardinality(before(i)) /\ Cardinality(before(i)) \in Nat
    BY <2>2, <2>3, <2>4, FS_Subset, FS_CardinalityType
  <2>6. Rows!Place(p, i) = 1 + Cardinality(before(i))
    BY <1>3
  <2> QED BY <2>5, <2>6
<1>9. ASSUME NEW k \in D
      PROVE  /\ k <= n => Rows!Sort(p)[k] = Rows!Row(e, start + k - 1)
             /\ k > n => Rows!Sort(p)[k].event < e
  <2>1. PICK i \in D : Rows!Place(p, i) = k /\ Rows!Sort(p)[k] = p[i]
    BY SortFacts
  <2>2. CASE i \in N
    <3>1. k = p[i].abs - start + 1 /\ p[i].abs \in start .. start + n - 1
      BY <1>7, <2>1, <2>2
    <3>2. p[i].abs = start + k - 1 /\ k <= n
      BY <1>2, <3>1, SMTT(30)
    <3>3. p[i] = Rows!Row(e, start + k - 1)
      BY <1>2, <1>4, <2>2, <3>2 DEF Rows!Row, RowT
    <3> QED BY <2>1, <3>2, <3>3
  <2>3. CASE i \notin N
    <3>1. i > n
      BY <1>1, <2>3
    <3> QED BY <1>5, <1>8, <2>1, <3>1
  <2> QED BY <2>2, <2>3
<1>10. \A k \in 1 .. n : k \in D /\ k <= n
  BY <1>1
<1> QED BY <1>9, <1>10

LEMMA WindowFacts ==
    ASSUME NEW size \in Nat, NEW sel \in Nat, NEW n \in Nat, n >= 1, n <= size, sel < size,
           NEW l, l.size = size, l.selected = sel
    PROVE  /\ Rows!StartIndex(l, n) \in 0 .. size - n
           /\ sel \in Rows!StartIndex(l, n) .. Rows!StartIndex(l, n) + n - 1
<1> DEFINE h == (n - 1) \div 2
<1>1. h \in Nat /\ h <= n - 1
  OBVIOUS
<1>2. Rows!StartIndex(l, n) = Rows!Larger(0, Rows!Smaller(size - n, sel - h))
  BY DEF Rows!StartIndex
<1> HIDE DEF h
<1> QED BY <1>1, <1>2 DEF Rows!Larger, Rows!Smaller

\* A list is laid out in rows that are all from older lists, or show another
\* window of it.
LEMMA UpdateFacts ==
    ASSUME NEW p \in Seq(RowT), NEW l, NEW n \in Nat, n >= 1, n <= Len(p),
           NEW e \in Nat, l.event = e, NEW start \in Nat, Rows!StartIndex(l, n) = start,
           Fits(p, n, e), NEW u, u = Rows!Update(p, l, n)
    PROVE  Newer(u, n, e) /\ OneEach(u, n, start)
<1> DEFINE D == 1 .. Len(p)
           N == 1 .. n
           stop == start + n - 1
           above(i) == Cardinality({j \in 1 .. i - 1 : p[j].event = e /\ p[j].abs < start})
           below(i) == Cardinality({j \in 1 .. i - 1 : p[j].event = e /\ p[j].abs > stop})
<1> SUFFICES /\ Newer(u, n, e)
             /\ \A i \in N : u[i].abs \in start .. stop
             /\ \A i, j \in N : u[i].abs = u[j].abs => i = j
  BY DEF OneEach
<1>1. Len(p) \in Nat /\ DOMAIN p = D /\ (\A i \in N : i \in D)
  BY LenProperties
<1>2. DOMAIN u = D /\ \A i \in D : i > n => u[i] = p[i]
  BY <1>1 DEF Rows!Update
<1>3. ASSUME NEW i \in N
      PROVE  /\ u[i].event = e
             /\ u[i].abs = IF p[i].event # e THEN i + start - 1
                           ELSE IF p[i].abs < start THEN stop - above(i)
                           ELSE IF p[i].abs > stop THEN start + below(i)
                           ELSE p[i].abs
  <2>1. i \in D /\ ~ (i > n)
    BY <1>1
  <2>2. u[i] = Rows!Row(l.event, Rows!Placed(p[i], i, l, Rows!Window(p, l, n, i)))
    BY <1>1, <2>1 DEF Rows!Update
  <2> DEFINE w == Rows!Window(p, l, n, i)
  <2>3. w.start = start /\ w.stop = stop /\ w.above = above(i) /\ w.below = below(i)
    BY CardinalityInRows DEF Rows!Window
  <2>4. u[i] = [event |-> e, abs |-> Rows!Placed(p[i], i, l, w)]
    BY <2>2 DEF Rows!Row
  <2> HIDE DEF w, above, below, stop
  <2> QED BY <2>3, <2>4 DEF Rows!Placed
<1>4. Len(u) = Len(p)
  BY <1>1, <1>2
<1>5. ASSUME \A i \in D : i > n => p[i].event < e PROVE Newer(u, n, e)
  <2>1. ASSUME NEW i \in 1 .. Len(u), i <= n PROVE u[i].event = e
    <3>1. i \in N
      BY <1>1, <1>4, <2>1
    <3> QED BY <1>3, <3>1
  <2>2. ASSUME NEW i \in 1 .. Len(u), i > n PROVE u[i].event < e
    BY <1>2, <1>4, <1>5, <2>2
  <2> QED BY <2>1, <2>2 DEF Newer
<1>6. CASE \A i \in D : p[i].event < e
  <2>1. \A i \in D : p[i].event \in Nat
    <3> TAKE i \in D
    <3>1. p[i] \in RowT
      BY ElementOfSeq
    <3> QED BY <3>1 DEF RowT
  <2>2. \A i \in N : u[i].abs = i + start - 1
    <3> TAKE i \in N
    <3>1. i \in D /\ p[i].event < e /\ p[i].event \in Nat
      BY <1>1, <1>6, <2>1
    <3>2. p[i].event # e
      BY <3>1
    <3> QED BY <1>3, <3>2
  <2>3. \A i \in N : u[i].abs \in start .. stop
    BY <2>2
  <2>4. \A i, j \in N : u[i].abs = u[j].abs => i = j
    BY <2>2
  <2>5. Newer(u, n, e)
    BY <1>5, <1>6
  <2> QED BY <2>3, <2>4, <2>5
<1>7. ASSUME NEW s0 \in Nat, \A i \in N : p[i] = Rows!Row(e, s0 + i - 1),
             \A i \in D : i > n => p[i].event < e
      PROVE  /\ Newer(u, n, e)
             /\ \A i \in N : u[i].abs \in start .. stop
             /\ \A i, j \in N : u[i].abs = u[j].abs => i = j
  <2>1. \A i \in N : p[i].event = e /\ p[i].abs = s0 + i - 1
    <3> TAKE i \in N
    <3>1. p[i] = [event |-> e, abs |-> s0 + i - 1]
      BY <1>7 DEF Rows!Row
    <3> QED BY <3>1
  <2>2. \A i \in N : 1 .. i - 1 \subseteq N
    OBVIOUS
  <2>3. ASSUME NEW i \in N, s0 + i - 1 < start PROVE above(i) = i - 1
    <3>1. \A j \in 1 .. i - 1 : p[j].event = e /\ p[j].abs < start
      BY <2>1, <2>3
    <3>2. {j \in 1 .. i - 1 : p[j].event = e /\ p[j].abs < start} = 1 .. i - 1
      BY <3>1, Zenon
    <3>3. i - 1 \in Nat
      OBVIOUS
    <3>4. Cardinality(1 .. i - 1) = i - 1
      BY <3>3, Counted
    <3> QED BY <3>2, <3>4
  <2> DEFINE m == IF start + n + 1 - s0 >= 1 THEN start + n + 1 - s0 ELSE 1
  <2>4. /\ m \in Int /\ m >= 1 /\ m >= start + n + 1 - s0
        /\ m = 1 \/ m = start + n + 1 - s0
    OBVIOUS
  <2>5. ASSUME NEW i \in N, s0 + i - 1 > stop PROVE below(i) = i - m
    <3>1. \A j \in 1 .. i - 1 : s0 + j - 1 > stop <=> j \in m .. i - 1
      OBVIOUS
    <3>2. \A j : j \in m .. i - 1 => j \in 1 .. i - 1
      OBVIOUS
    <3>3. \A j : j \in 1 .. i - 1 /\ p[j].event = e /\ p[j].abs > stop <=> j \in m .. i - 1
      BY <2>1, <2>2, <3>1, <3>2
    <3>4. {j \in 1 .. i - 1 : p[j].event = e /\ p[j].abs > stop} = m .. i - 1
      BY <3>3, Zenon
    <3>5. m \in Int /\ i - 1 \in Int /\ m <= i
      BY <2>5
    <3>6. Cardinality(m .. i - 1) = IF m > i - 1 THEN 0 ELSE (i - 1) - m + 1
      BY <3>5, FS_Interval
    <3> HIDE DEF m
    <3>7. Cardinality(m .. i - 1) = i - m
      BY <3>5, <3>6
    <3> QED BY <3>4, <3>7
  <2>6. \A i \in N : u[i].abs = IF s0 + i - 1 < start THEN stop - (i - 1)
                                 ELSE IF s0 + i - 1 > stop THEN start + (i - m)
                                 ELSE s0 + i - 1
    <3> TAKE i \in N
    <3>1. u[i].abs = IF s0 + i - 1 < start THEN stop - above(i)
                     ELSE IF s0 + i - 1 > stop THEN start + below(i) ELSE s0 + i - 1
      BY <1>3, <2>1
    <3> HIDE DEF m, above, below, stop
    <3> QED BY <2>3, <2>5, <3>1
  <2> HIDE DEF m
  <2>7. ASSUME NEW i \in N PROVE u[i].abs \in start .. stop
    <3>1. i \in Int /\ 1 <= i /\ i <= n
      OBVIOUS
    <3>2. CASE s0 + i - 1 < start
      <4>1. u[i].abs = stop - (i - 1)
        BY <2>6, <3>2
      <4> QED BY <3>1, <4>1
    <3>3. CASE ~ (s0 + i - 1 < start) /\ s0 + i - 1 > stop
      <4>1. u[i].abs = start + (i - m)
        BY <2>6, <3>3
      <4> QED BY <2>4, <3>1, <3>3, <4>1
    <3>4. CASE ~ (s0 + i - 1 < start) /\ ~ (s0 + i - 1 > stop)
      BY <2>6, <3>1, <3>4
    <3> QED BY <3>2, <3>3, <3>4
  <2>8. ASSUME NEW i \in N, NEW j \in N, u[i].abs = u[j].abs PROVE i = j
    <3>1. /\ i \in Int /\ 1 <= i /\ i <= n
          /\ j \in Int /\ 1 <= j /\ j <= n
      OBVIOUS
    <3>2. u[i].abs = IF s0 + i - 1 < start THEN stop - (i - 1)
                     ELSE IF s0 + i - 1 > stop THEN start + (i - m) ELSE s0 + i - 1
      BY <2>6
    <3>3. u[j].abs = IF s0 + j - 1 < start THEN stop - (j - 1)
                     ELSE IF s0 + j - 1 > stop THEN start + (j - m) ELSE s0 + j - 1
      BY <2>6
    <3>4. CASE s0 + i - 1 < start
      <4>1. u[i].abs = stop - (i - 1)
        BY <3>2, <3>4
      <4> QED BY <2>4, <2>8, <3>1, <3>3, <3>4, <4>1
    <3>5. CASE ~ (s0 + i - 1 < start) /\ s0 + i - 1 > stop
      <4>1. u[i].abs = start + (i - m)
        BY <3>2, <3>5
      <4> QED BY <2>4, <2>8, <3>1, <3>3, <3>5, <4>1
    <3>6. CASE ~ (s0 + i - 1 < start) /\ ~ (s0 + i - 1 > stop)
      <4>1. u[i].abs = s0 + i - 1
        BY <3>2, <3>6
      <4> QED BY <2>4, <2>8, <3>1, <3>3, <3>6, <4>1
    <3> QED BY <3>4, <3>5, <3>6
  <2> QED BY <1>5, <1>7, <2>7, <2>8
<1>8. CASE \E s0 \in Nat : /\ \A i \in N : p[i] = Rows!Row(e, s0 + i - 1)
                           /\ \A i \in D : i > n => p[i].event < e
  <2>1. PICK s0 \in Nat : /\ \A i \in N : p[i] = Rows!Row(e, s0 + i - 1)
                          /\ \A i \in D : i > n => p[i].event < e
    BY <1>8
  <2> QED BY <1>7, <2>1
<1> QED BY <1>6, <1>8 DEF Fits

-----------------------------------------------------------------------------
(* The rows: the invariant.                                                 *)

Sound(l) ==
    /\ l \in [event : Nat, size : Nat, selected : Nat]
    /\ l.size > 0 => l.event > 0 /\ l.selected < l.size

\* The first n rows of pool p are a window of list l with the selected match, and
\* the others are from older lists.
Shows(p, n, l) ==
    \E start \in 0 .. l.size - n :
        /\ \A i \in 1 .. n : p[i] = Rows!Row(l.event, start + i - 1)
        /\ \A i \in 1 .. Len(p) : i > n => p[i].event < l.event
        /\ l.selected \in start .. start + n - 1

\* The rows are all from lists older than l, or show another window of l.
Ready(p, n, l) ==
    \/ \A i \in 1 .. Len(p) : p[i].event < l.event
    \/ \E l0 : l0.event = l.event /\ l0.size = l.size /\ Shows(p, n, l0)

RowsInv ==
    /\ event \in Nat
    /\ Sound(shown) /\ shown.event <= event
    /\ Sound(sources) /\ sources.event <= event
    /\ pool \in Seq(RowT) /\ \A i \in 1 .. Len(pool) : pool[i].event <= event
    /\ visible = Rows!VisibleSize(shown, Len(pool))
    /\ shown.event = event /\ visible > 0 => Shows(pool, visible, shown)

LEMMA ListFacts ==
    ASSUME NEW l, Sound(l)
    PROVE  l.event \in Nat /\ l.size \in Nat /\ l.selected \in Nat
BY DEF Sound

LEMMA RowsAre ==
    ASSUME NEW p \in Seq(RowT)
    PROVE  /\ Len(p) \in Nat
           /\ \A i \in 1 .. Len(p) : p[i] \in RowT /\ p[i].event \in Nat /\ p[i].abs \in Int
<1>1. \A i \in 1 .. Len(p) : p[i] \in RowT
  BY ElementOfSeq
<1> QED BY <1>1, LenProperties DEF RowT

LEMMA VisibleFacts ==
    ASSUME NEW l, Sound(l), NEW len \in Nat
    PROVE  /\ Rows!VisibleSize(l, len) \in Nat
           /\ Rows!VisibleSize(l, len) <= l.size /\ Rows!VisibleSize(l, len) <= len
BY ListFacts DEF Rows!VisibleSize, Rows!Smaller

LEMMA UpdateRows ==
    ASSUME NEW p \in Seq(RowT), NEW l, Sound(l), NEW n \in Nat, n >= 1,
           NEW ev \in Nat, l.event <= ev, \A i \in 1 .. Len(p) : p[i].event <= ev
    PROVE  /\ Rows!Update(p, l, n) \in Seq(RowT) /\ Len(Rows!Update(p, l, n)) = Len(p)
           /\ \A i \in 1 .. Len(p) : Rows!Update(p, l, n)[i].event <= ev
<1> DEFINE D == 1 .. Len(p)
           w(i) == Rows!Window(p, l, n, i)
           u == Rows!Update(p, l, n)
<1>1. Len(p) \in Nat /\ DOMAIN p = D
  BY LenProperties
<1>2. \A i \in D : p[i] \in RowT /\ p[i].event \in Nat /\ p[i].abs \in Int
  BY RowsAre
<1>3. u = [i \in D |-> IF i > n THEN p[i]
                       ELSE Rows!Row(l.event, Rows!Placed(p[i], i, l, w(i)))]
  BY <1>1 DEF Rows!Update
<1>4. l.event \in Nat /\ l.size \in Nat /\ l.selected \in Nat
  BY ListFacts
<1>5. Rows!StartIndex(l, n) \in Int
  <2> DEFINE h == (n - 1) \div 2
  <2>1. h \in Int
    OBVIOUS
  <2>2. Rows!StartIndex(l, n) = Rows!Larger(0, Rows!Smaller(l.size - n, l.selected - h))
    BY DEF Rows!StartIndex
  <2> HIDE DEF h
  <2> QED BY <1>4, <2>1, <2>2 DEF Rows!Larger, Rows!Smaller
<1>6. ASSUME NEW i \in D PROVE Rows!Placed(p[i], i, l, w(i)) \in Int
  <2> DEFINE s == Rows!StartIndex(l, n)
             A == {j \in 1 .. i - 1 : p[j].event = l.event /\ p[j].abs < s}
             B == {j \in 1 .. i - 1 : p[j].event = l.event /\ p[j].abs > s + n - 1}
  <2>1. i - 1 \in Nat
    OBVIOUS
  <2>2. IsFiniteSet(1 .. i - 1) /\ A \in SUBSET (1 .. i - 1) /\ B \in SUBSET (1 .. i - 1)
    BY <2>1, Counted
  <2>3. Cardinality(A) \in Nat /\ Cardinality(B) \in Nat
    <3> HIDE DEF A, B
    <3> QED BY <2>2, FS_Subset, FS_CardinalityType
  <2>4. w(i) = [start |-> s, stop |-> s + n - 1, above |-> Cardinality(A), below |-> Cardinality(B)]
    BY CardinalityInRows DEF Rows!Window
  <2> HIDE DEF A, B, w, s
  <2>5. w(i).start = s /\ w(i).stop = s + n - 1 /\ w(i).above \in Nat /\ w(i).below \in Nat
    BY <2>3, <2>4
  <2>6. s \in Int
    BY <1>5 DEF s
  <2> QED BY <1>2, <2>5, <2>6 DEF Rows!Placed
<1>7. \A i \in D : Rows!Row(l.event, Rows!Placed(p[i], i, l, w(i))) \in RowT
  <2> HIDE DEF w
  <2> QED BY <1>4, <1>6 DEF Rows!Row, RowT
<1>8. \A i \in D : u[i] \in RowT /\ u[i].event <= ev
  <2> TAKE i \in D
  <2>1. CASE i > n
    BY <1>2, <1>3, <2>1
  <2>2. CASE ~ (i > n)
    <3>1. u[i] = Rows!Row(l.event, Rows!Placed(p[i], i, l, w(i)))
      BY <1>3, <2>2
    <3>2. u[i].event = l.event
      BY <3>1 DEF Rows!Row
    <3> HIDE DEF u, w
    <3> QED BY <1>7, <3>1, <3>2
  <2> QED BY <2>1, <2>2
<1>9. u \in [1 .. Len(p) -> RowT]
  <2>1. DOMAIN u = D /\ u = [i \in D |-> u[i]]
    BY <1>3
  <2> HIDE DEF u
  <2> QED BY <1>8, <2>1
<1> HIDE DEF u
<1>10. u \in Seq(RowT) /\ Len(u) = Len(p)
  BY <1>1, <1>9, SeqDef, LenProperties
<1> QED BY <1>8, <1>10 DEF u

\* update_layout, of a list that is new or was laid out in the pool before.
LEMMA LayOutFacts ==
    ASSUME NEW p \in Seq(RowT), NEW l, Sound(l), NEW ev \in Nat, l.event <= ev,
           \A i \in 1 .. Len(p) : p[i].event <= ev, Rows!LayOut(p, l)
    PROVE  /\ visible' = Rows!VisibleSize(l, Len(p)) /\ Len(pool') = Len(p)
           /\ pool' \in Seq(RowT) /\ \A i \in 1 .. Len(pool') : pool'[i].event <= ev
           /\ visible' > 0 /\ Ready(p, visible', l) => Shows(pool', visible', l)
<1> DEFINE n == Rows!VisibleSize(l, Len(p))
           u == Rows!Update(p, l, n)
<1>1. visible' = n /\ pool' = IF n = 0 THEN p ELSE Rows!Sort(u)
  BY DEF Rows!LayOut
<1>2. Len(p) \in Nat /\ n \in Nat /\ n <= l.size /\ n <= Len(p) /\ l.size \in Nat
      /\ l.event \in Nat /\ l.selected \in Nat
  BY LenProperties, VisibleFacts, ListFacts
<1> HIDE DEF n
<1>3. CASE n = 0
  <2>1. visible' = 0 /\ pool' = p /\ ~ (visible' > 0)
    BY <1>1, <1>3
  <2> QED BY <1>3, <2>1 DEF n
<1>4. CASE n # 0
  <2>1. n >= 1
    BY <1>2, <1>4
  <2>2. /\ u \in Seq(RowT) /\ Len(u) = Len(p)
        /\ \A i \in 1 .. Len(p) : u[i].event <= ev
    BY <1>2, <2>1, UpdateRows
  <2>3. pool' = Rows!Sort(u)
    BY <1>1, <1>4
  <2> HIDE DEF u
  <2>4. /\ pool' \in Seq(RowT) /\ Len(pool') = Len(p)
        /\ \A k \in 1 .. Len(p) : \E i \in 1 .. Len(p) : pool'[k] = u[i]
    BY <2>2, <2>3, SortFacts
  <2>5. \A i \in 1 .. Len(pool') : pool'[i].event <= ev
    BY <2>2, <2>4
  <2>6. ASSUME Ready(p, n, l) PROVE Shows(pool', n, l)
    <3> DEFINE start == Rows!StartIndex(l, n)
    <3>1. l.selected < l.size
      BY <1>2, <2>1 DEF Sound
    <3>2. start \in 0 .. l.size - n /\ l.selected \in start .. start + n - 1
      BY <1>2, <2>1, <3>1, WindowFacts
    <3>3. start \in Nat
      BY <1>2, <3>2
    <3>4. Fits(p, n, l.event)
      <4>1. CASE \A i \in 1 .. Len(p) : p[i].event < l.event
        BY <4>1 DEF Fits
      <4>2. CASE \E l0 : l0.event = l.event /\ l0.size = l.size /\ Shows(p, n, l0)
        <5>1. PICK l0 : l0.event = l.event /\ l0.size = l.size /\ Shows(p, n, l0)
          BY <4>2
        <5>2. PICK s0 \in 0 .. l.size - n :
                 /\ \A i \in 1 .. n : p[i] = Rows!Row(l.event, s0 + i - 1)
                 /\ \A i \in 1 .. Len(p) : i > n => p[i].event < l.event
          BY <5>1 DEF Shows
        <5>3. s0 \in Nat
          BY <1>2
        <5> QED BY <5>2, <5>3 DEF Fits
      <4> QED BY <2>6, <4>1, <4>2 DEF Ready
    <3> HIDE DEF start
    <3>5. start = Rows!StartIndex(l, n)
      BY DEF start
    <3>6. u = Rows!Update(p, l, n)
      BY DEF u
    <3>7. Newer(u, n, l.event) /\ OneEach(u, n, start)
      BY <1>2, <2>1, <3>3, <3>4, <3>5, <3>6, UpdateFacts
    <3> DEFINE e == l.event
               q == Rows!Sort(u)
    <3>8. e \in Nat /\ n \in Nat /\ n <= Len(u) /\ Newer(u, n, e)
      BY <1>2, <2>2, <3>7
    <3>9. Len(u) = Len(p) /\ u \in Seq(RowT) /\ OneEach(u, n, start)
      BY <2>2, <3>7
    <3> HIDE DEF e
    <3>10. /\ \A k \in 1 .. n : q[k] = Rows!Row(e, start + k - 1)
           /\ \A k \in 1 .. Len(u) : k > n => q[k].event < e
      BY <3>3, <3>8, <3>9, WindowSorted
    <3>11. pool' = q /\ e = l.event
      BY <2>3 DEF e
    <3> HIDE DEF q
    <3> QED BY <2>4, <3>2, <3>9, <3>10, <3>11 DEF Shows
  <2> QED BY <1>1, <2>4, <2>5, <2>6 DEF n
<1> QED BY <1>3, <1>4

LEMMA RowsStep ==
    ASSUME NEW p \in Seq(RowT), NEW ev \in Nat, NEW l, Sound(l), l.event <= ev,
           event' = ev, shown' = l, Sound(sources'), sources'.event <= ev,
           \A i \in 1 .. Len(p) : p[i].event <= ev, Rows!LayOut(p, l),
           l.event = ev /\ Rows!VisibleSize(l, Len(p)) > 0 =>
             Ready(p, Rows!VisibleSize(l, Len(p)), l)
    PROVE  RowsInv'
<1>1. /\ visible' = Rows!VisibleSize(l, Len(p)) /\ Len(pool') = Len(p)
      /\ pool' \in Seq(RowT) /\ \A i \in 1 .. Len(pool') : pool'[i].event <= ev
      /\ visible' > 0 /\ Ready(p, visible', l) => Shows(pool', visible', l)
  BY LayOutFacts
<1>2. l.event = ev /\ visible' > 0 => Shows(pool', visible', l)
  BY <1>1
<1> QED BY <1>1, <1>2 DEF RowsInv

LEMMA FreshFacts ==
    ASSUME NEW n \in Nat
    PROVE  /\ Rows!FreshRows(n) \in Seq(RowT) /\ Len(Rows!FreshRows(n)) = n
           /\ \A i \in 1 .. n : Rows!FreshRows(n)[i].event = 0
<1> DEFINE r == Rows!FreshRows(n)
<1>1. r = [i \in 1 .. n |-> Rows!Row(0, i - 1)]
  BY DEF Rows!FreshRows
<1>2. \A i \in 1 .. n : Rows!Row(0, i - 1) \in RowT /\ Rows!Row(0, i - 1).event = 0
  BY DEF Rows!Row, RowT
<1> HIDE DEF r
<1>3. r \in [1 .. n -> RowT] /\ \A i \in 1 .. n : r[i].event = 0
  BY <1>1, <1>2
<1>4. r \in Seq(RowT) /\ Len(r) = n
  BY <1>3, SeqDef, LenProperties
<1> QED BY <1>3, <1>4 DEF r

LEMMA ListIs ==
    ASSUME NEW e, NEW n, NEW s
    PROVE  /\ Rows!List(e, n, s).event = e /\ Rows!List(e, n, s).size = n
           /\ Rows!List(e, n, s).selected = s
           /\ Rows!List(e, n, s) = [event |-> e, size |-> n, selected |-> s]
BY DEF Rows!List

LEMMA Remainder ==
    ASSUME NEW a \in Int, NEW n \in Nat, n > 0
    PROVE  a % n \in 0 .. n - 1 /\ (a \in 0 .. n - 1 => a % n = a)
OBVIOUS

LEMMA RowsInit == Rows!Init => RowsInv
<1> SUFFICES ASSUME Rows!Init PROVE RowsInv
  OBVIOUS
<1> DEFINE n == CHOOSE n \in BoxSizes : TRUE
           l == Rows!List(0, 0, 0)
<1>1. n \in BoxSizes /\ n \in Nat
  BY RowsAssumption
<1>2. event = 0 /\ shown = l /\ sources = l /\ pool = Rows!FreshRows(n) /\ visible = 0
  BY DEF Rows!Init
<1>3. Sound(l) /\ l.event = 0 /\ l.size = 0
  BY ListIs DEF Sound
<1> HIDE DEF n, l
<1>4. pool \in Seq(RowT) /\ Len(pool) = n /\ \A i \in 1 .. n : pool[i].event = 0
  BY <1>1, <1>2, FreshFacts
<1>5. Rows!VisibleSize(l, Len(pool)) = 0
  BY <1>1, <1>3, <1>4 DEF Rows!VisibleSize, Rows!Smaller
<1> QED BY <1>1, <1>2, <1>3, <1>4, <1>5 DEF RowsInv

LEMMA RowsNow ==
    ASSUME RowsInv
    PROVE  /\ event \in Nat /\ pool \in Seq(RowT) /\ Len(pool) \in Nat
           /\ \A i \in 1 .. Len(pool) : /\ pool[i].event <= event /\ pool[i].event \in Nat
                                        /\ pool[i].abs \in Int
           /\ shown.event \in Nat /\ shown.size \in Nat /\ shown.selected \in Nat
           /\ visible = Rows!VisibleSize(shown, Len(pool)) /\ visible \in Nat
BY RowsAre, ListFacts, VisibleFacts DEF RowsInv

\* A list of a new event is laid out in rows that are all older.
LEMMA NewListShown ==
    ASSUME RowsInv, event' = event + 1, NEW n \in Nat, NEW s \in Nat, n > 0 => s < n,
           shown' = Rows!List(event + 1, n, s), Rows!LayOut(pool, shown'),
           sources' \in {sources, shown}
    PROVE  RowsInv'
<1> DEFINE l == Rows!List(event + 1, n, s)
           ev == event + 1
<1>1. /\ event \in Nat /\ pool \in Seq(RowT)
      /\ \A i \in 1 .. Len(pool) : pool[i].event <= event /\ pool[i].event \in Nat
  BY RowsNow
<1>2. ev \in Nat /\ Sound(l) /\ l.event = ev
  BY <1>1, ListIs DEF Sound
<1>3. Sound(sources') /\ sources'.event <= event
  BY DEF RowsInv
<1>4. sources'.event \in Nat
  BY <1>3, ListFacts
<1>5. shown' = l /\ event' = ev /\ Rows!LayOut(pool, l)
  OBVIOUS
<1>6. sources'.event <= ev
  BY <1>1, <1>3, <1>4
<1>7. \A i \in 1 .. Len(pool) : pool[i].event <= ev /\ pool[i].event < ev
  BY <1>1
<1> HIDE DEF l, ev
<1>8. Ready(pool, Rows!VisibleSize(l, Len(pool)), l)
  BY <1>2, <1>7 DEF Ready
<1> QED BY <1>1, <1>2, <1>3, <1>5, <1>6, <1>7, <1>8, RowsStep

\* Another match of the list is selected, and the list laid out again.
LEMMA SelectionShown ==
    ASSUME RowsInv, NEW i \in Nat, shown.size > 0 => i < shown.size,
           shown' = Rows!Selected(i), UNCHANGED <<event, sources>>,
           \/ Rows!LayOut(pool, shown')
           \/ /\ UNCHANGED <<pool, visible>>
              /\ \A start \in Nat : (\A k \in 1 .. visible :
                    pool[k] = Rows!Row(shown.event, start + k - 1)) /\ visible > 0
                 /\ start + visible <= shown.size => i \in start .. start + visible - 1
    PROVE  RowsInv'
<1> DEFINE l == Rows!Selected(i)
           n == Rows!VisibleSize(shown, Len(pool))
<1>1. l.event = shown.event /\ l.size = shown.size /\ l.selected = i /\ Sound(l)
  BY DEF RowsInv, Sound, Rows!Selected
<1>2. Rows!VisibleSize(l, Len(pool)) = n
  BY <1>1 DEF Rows!VisibleSize
<1>3. /\ event \in Nat /\ pool \in Seq(RowT)
      /\ \A k \in 1 .. Len(pool) : pool[k].event <= event /\ pool[k].event \in Nat
      /\ visible = n /\ n \in Nat /\ shown.size \in Nat
  BY RowsNow
<1>4. /\ Sound(sources') /\ sources'.event <= event /\ shown.event <= event
      /\ shown.event = event /\ n > 0 => Shows(pool, n, shown)
  BY <1>3 DEF RowsInv
<1>5. shown' = l /\ event' = event
  OBVIOUS
<1> HIDE DEF l, n
<1>6. CASE Rows!LayOut(pool, shown')
  <2>1. shown.event = event /\ n > 0 => Ready(pool, n, l)
    BY <1>1, <1>4 DEF Ready
  <2> QED BY <1>1, <1>2, <1>3, <1>4, <1>5, <1>6, <2>1, RowsStep
<1>7. CASE /\ UNCHANGED <<pool, visible>>
           /\ \A start \in Nat : (\A k \in 1 .. visible :
                 pool[k] = Rows!Row(shown.event, start + k - 1)) /\ visible > 0
              /\ start + visible <= shown.size => i \in start .. start + visible - 1
  <2>1. ASSUME shown.event = event, n > 0 PROVE Shows(pool, n, l)
    <3>1. PICK start \in 0 .. shown.size - n :
             /\ \A k \in 1 .. n : pool[k] = Rows!Row(shown.event, start + k - 1)
             /\ \A k \in 1 .. Len(pool) : k > n => pool[k].event < shown.event
      BY <1>4, <2>1 DEF Shows
    <3>2. start \in Nat /\ start + n <= shown.size
      BY <1>3
    <3>3. i \in start .. start + n - 1
      BY <1>3, <1>7, <2>1, <3>1, <3>2
    <3> QED BY <1>1, <3>1, <3>3 DEF Shows
  <2> QED BY <1>1, <1>2, <1>3, <1>4, <1>5, <1>7, <2>1 DEF RowsInv
<1> QED BY <1>6, <1>7

LEMMA RowsNewList == ASSUME RowsInv, Rows!NewList PROVE RowsInv'
<1>1. event \in Nat /\ shown.size \in Nat /\ shown.selected \in Nat
  BY RowsNow
<1>2. event' = event + 1 /\ sources' = sources
  BY DEF Rows!NewList
<1>3. PICK n \in 0 .. MaxSize :
         /\ shown' = Rows!List(event', n, IF n = shown.size THEN shown.selected ELSE 0)
         /\ Rows!LayOut(pool, shown')
  BY DEF Rows!NewList
<1> DEFINE s == IF n = shown.size THEN shown.selected ELSE 0
<1>4. n \in Nat /\ s \in Nat /\ (n > 0 => s < n)
  BY <1>1, RowsAssumption DEF RowsInv, Sound
<1>5. shown' = Rows!List(event + 1, n, s)
  BY <1>2, <1>3
<1> HIDE DEF s
<1> QED BY <1>2, <1>3, <1>4, <1>5, NewListShown

LEMMA RowsEnterLater == ASSUME RowsInv, Rows!EnterLater PROVE RowsInv'
<1>1. event' = event + 1 /\ sources' = shown /\ Rows!LayOut(pool, shown')
  BY DEF Rows!EnterLater
<1>2. PICK n \in 1 .. MaxSize : shown' = Rows!List(event', n, 0)
  BY DEF Rows!EnterLater
<1>3. n \in Nat /\ 0 \in Nat /\ (n > 0 => 0 < n)
  BY RowsAssumption
<1>4. shown' = Rows!List(event + 1, n, 0)
  BY <1>1, <1>2
<1> QED BY <1>1, <1>3, <1>4, NewListShown

LEMMA RowsGoBack == ASSUME RowsInv, Rows!GoBack PROVE RowsInv'
<1> DEFINE l == sources
           ev == event + 1
<1>1. /\ event \in Nat /\ pool \in Seq(RowT)
      /\ \A i \in 1 .. Len(pool) : pool[i].event <= event /\ pool[i].event \in Nat
  BY RowsNow
<1>2. /\ event' = ev /\ shown' = l /\ sources' = sources /\ Rows!LayOut(pool, l)
  BY DEF Rows!GoBack
<1>3. Sound(l) /\ l.event <= event
  BY DEF RowsInv
<1>4. l.event \in Nat
  BY <1>3, ListFacts
<1>5. Sound(sources') /\ sources'.event = l.event
  BY <1>2, <1>3
<1>6. /\ ev \in Nat /\ l.event <= ev /\ l.event # ev
      /\ \A i \in 1 .. Len(pool) : pool[i].event <= ev
  BY <1>1, <1>3, <1>4
<1> HIDE DEF l, ev
<1> QED BY <1>1, <1>2, <1>3, <1>5, <1>6, RowsStep

LEMMA RowsGotoMatch == ASSUME RowsInv, Rows!controller_goto_match PROVE RowsInv'
<1>1. UNCHANGED <<event, sources>> /\ Rows!LayOut(pool, shown')
  BY DEF Rows!controller_goto_match
<1>2. PICK by \in -Len(pool) .. Len(pool) :
         shown' = Rows!Selected(Rows!Larger(0,
                    Rows!Smaller(by + shown.selected, shown.size - 1)))
  BY DEF Rows!controller_goto_match
<1> DEFINE i == Rows!Larger(0, Rows!Smaller(by + shown.selected, shown.size - 1))
<1>3. shown.size \in Nat /\ shown.selected \in Nat /\ Len(pool) \in Nat
  BY RowsNow
<1>4. i \in Nat /\ (shown.size > 0 => i < shown.size)
  BY <1>3 DEF Rows!Larger, Rows!Smaller
<1> HIDE DEF i
<1>5. shown' = Rows!Selected(i)
  BY <1>2 DEF i
<1> QED BY <1>1, <1>4, <1>5, SelectionShown

\* What controller_goto_match_abs selects.
LEMMA GotoAbsFacts ==
    ASSUME RowsInv, NEW a \in Int
    PROVE  \E i \in Nat : /\ Rows!GotoAbs(a) = Rows!Selected(i)
                          /\ shown.size > 0 => i < shown.size
                          /\ a \in 0 .. shown.size - 1 => i = a
<1>1. shown.size \in Nat /\ shown.selected \in Nat
  BY RowsNow
<1>2. CASE shown.size = 0
  <2>1. shown = Rows!Selected(shown.selected)
    BY DEF RowsInv, Sound, Rows!Selected
  <2> QED BY <1>1, <1>2, <2>1 DEF Rows!GotoAbs
<1>3. CASE shown.size > 0
  <2> DEFINE n == shown.size
             i == a % n
  <2>1. i \in 0 .. n - 1 /\ (a \in 0 .. n - 1 => i = a)
    BY <1>1, <1>3, Remainder
  <2>2. Rows!GotoAbs(a) = Rows!Selected(i)
    BY <1>3 DEF Rows!GotoAbs
  <2> HIDE DEF i
  <2>3. i \in Nat /\ i < shown.size /\ (a \in 0 .. shown.size - 1 => i = a)
    BY <1>1, <2>1
  <2> QED BY <2>2, <2>3
<1> QED BY <1>1, <1>2, <1>3

LEMMA RowsFirstOrLast == ASSUME RowsInv, Rows!FirstOrLast PROVE RowsInv'
<1>1. UNCHANGED <<event, sources>> /\ Rows!LayOut(pool, shown')
  BY DEF Rows!FirstOrLast
<1>2. PICK a \in {0, -1} : shown' = Rows!GotoAbs(a)
  BY DEF Rows!FirstOrLast
<1>3. a \in Int
  OBVIOUS
<1>4. PICK i \in Nat : Rows!GotoAbs(a) = Rows!Selected(i) /\ (shown.size > 0 => i < shown.size)
  BY <1>3, GotoAbsFacts
<1> QED BY <1>1, <1>2, <1>4, SelectionShown

LEMMA RowsTake == ASSUME RowsInv, NEW r \in DOMAIN pool, Rows!Take(r) PROVE RowsInv'
<1>1. /\ r <= visible /\ UNCHANGED <<event, sources>> /\ shown' = Rows!GotoAbs(pool[r].abs)
      /\ Rows!LayOut(pool, shown') \/ UNCHANGED <<pool, visible>>
  BY DEF Rows!Take
<1>2. /\ r \in 1 .. Len(pool) /\ pool[r].abs \in Int /\ visible \in Nat
      /\ shown.size \in Nat
  BY RowsNow
<1>3. PICK i \in Nat : /\ Rows!GotoAbs(pool[r].abs) = Rows!Selected(i)
                       /\ shown.size > 0 => i < shown.size
                       /\ pool[r].abs \in 0 .. shown.size - 1 => i = pool[r].abs
  BY <1>2, GotoAbsFacts
<1>4. ASSUME NEW start \in Nat,
             \A k \in 1 .. visible : pool[k] = Rows!Row(shown.event, start + k - 1),
             start + visible <= shown.size
      PROVE  i \in start .. start + visible - 1
  <2>1. r \in 1 .. visible
    BY <1>1, <1>2
  <2>2. pool[r] = [event |-> shown.event, abs |-> start + r - 1]
    BY <1>4, <2>1 DEF Rows!Row
  <2>3. pool[r].abs = start + r - 1
    BY <2>2
  <2> QED BY <1>2, <1>3, <1>4, <2>1, <2>3
<1> QED BY <1>1, <1>3, <1>4, SelectionShown

LEMMA RowsBoxSize == ASSUME RowsInv, Rows!on_box_size_change PROVE RowsInv'
<1>1. UNCHANGED <<event, shown, sources>>
  BY DEF Rows!on_box_size_change
<1>2. PICK n \in BoxSizes : Rows!LayOut(Rows!FreshRows(n), shown)
  BY DEF Rows!on_box_size_change
<1> DEFINE p == Rows!FreshRows(n)
           l == shown
           ev == event
<1>3. n \in Nat
  BY RowsAssumption
<1>4. p \in Seq(RowT) /\ Len(p) = n /\ \A i \in 1 .. n : p[i].event = 0
  BY <1>3, FreshFacts
<1>5. /\ ev \in Nat /\ Sound(l) /\ l.event <= ev /\ Sound(sources') /\ sources'.event <= ev
      /\ l.size > 0 => l.event > 0
      /\ event' = ev /\ shown' = l /\ l.size \in Nat
  BY <1>1, RowsNow DEF RowsInv, Sound
<1> HIDE DEF p, l, ev
<1>6. Rows!LayOut(p, l)
  BY <1>2 DEF p, l
<1>7. Rows!VisibleSize(l, Len(p)) > 0 => l.size > 0
  BY <1>3, <1>4, <1>5 DEF Rows!VisibleSize, Rows!Smaller
<1>8. /\ \A i \in 1 .. Len(p) : p[i].event <= ev
      /\ l.size > 0 => Ready(p, Rows!VisibleSize(l, Len(p)), l)
  BY <1>4, <1>5 DEF Ready
<1> QED BY <1>4, <1>5, <1>6, <1>7, <1>8, RowsStep

LEMMA RowsNext == RowsInv /\ [Rows!Next]_(Rows!vars) => RowsInv'
<1> SUFFICES ASSUME RowsInv, [Rows!Next]_(Rows!vars) PROVE RowsInv'
  OBVIOUS
<1>1. CASE UNCHANGED Rows!vars
  BY <1>1 DEF Rows!vars, RowsInv
<1> QED BY <1>1, RowsNewList, RowsEnterLater, RowsGoBack, RowsGotoMatch, RowsFirstOrLast,
           RowsTake, RowsBoxSize DEF Rows!Next

\* Whatever was searched, selected, clicked and scrolled before, and whatever the
\* size of the box, the visible rows of the latest list are a window of it that
\* holds the selected match, in order and without a gap or a match twice.
THEOREM RowsShowWindow == Rows!Spec => []RowsShowTheWindow
<1>1. RowsInv => RowsShowTheWindow
  <2> SUFFICES ASSUME RowsInv, shown.event = event
               PROVE  \E start \in 0 .. shown.size - visible :
                        /\ \A i \in 1 .. visible : pool[i] = Rows!Row(event, start + i - 1)
                        /\ visible > 0 => shown.selected \in start .. start + visible - 1
    BY DEF RowsShowTheWindow, Rows!RowsShowTheWindow
  <2>1. visible \in Nat /\ shown.size \in Nat
    BY RowsNow
  <2>2. CASE visible = 0
    BY <2>1, <2>2
  <2>3. CASE visible > 0
    BY <2>3 DEF RowsInv, Shows
  <2> QED BY <2>1, <2>2, <2>3
<1> QED BY RowsInit, RowsNext, <1>1, PTL DEF Rows!Spec

-----------------------------------------------------------------------------
(* The files: command lines.                                               *)

\* A placeholder of the command line takes all items of the application.
LEMMA FlattenedOnce ==
    ASSUME NEW s, Len(s) = 1
    PROVE  Open!FlattenSeq(s) = s[1]
<1> DEFINE F(f) == [i \in 1 .. Len(s) |-> IF i = 1 THEN s[i] ELSE f[i - 1] \o s[i]]
           g == [i \in 1 .. 1 |-> s[1]]
           flat == CHOOSE f : f = F(f)
<1>1. g = F(g)
  OBVIOUS
<1>2. flat = F(flat)
  <2> HIDE DEF F, g
  <2> QED BY <1>1
<1>3. Open!FlattenSeq(s) = flat[Len(s)]
  BY DEF Open!FlattenSeq
<1>4. F(flat)[1] = s[1]
  OBVIOUS
<1> QED BY <1>2, <1>3, <1>4

LEMMA FlattenedThrice ==
    ASSUME NEW s, Len(s) = 3
    PROVE  Open!FlattenSeq(s) = (s[1] \o s[2]) \o s[3]
<1> DEFINE F(f) == [i \in 1 .. Len(s) |-> IF i = 1 THEN s[i] ELSE f[i - 1] \o s[i]]
           g == [i \in 1 .. 3 |-> IF i = 1 THEN s[1] ELSE IF i = 2 THEN s[1] \o s[2]
                                  ELSE (s[1] \o s[2]) \o s[3]]
           flat == CHOOSE f : f = F(f)
<1>1. g = F(g)
  <2>1. F(g) = [i \in 1 .. 3 |-> IF i = 1 THEN s[i] ELSE g[i - 1] \o s[i]]
    OBVIOUS
  <2>2. g[1] = s[1] /\ g[2] = s[1] \o s[2] /\ g[3] = (s[1] \o s[2]) \o s[3]
    OBVIOUS
  <2>3. \A i \in 1 .. 3 : i = 1 \/ i = 2 \/ i = 3
    OBVIOUS
  <2>4. \A i \in 1 .. 3 : F(g)[i] = g[i]
    <3>1. F(g)[1] = s[1] /\ F(g)[2] = g[1] \o s[2] /\ F(g)[3] = g[2] \o s[3]
      BY <2>1
    <3> HIDE DEF F, g
    <3> QED BY <2>2, <2>3, <3>1
  <2> QED BY <2>1, <2>4
<1>2. flat = F(flat)
  <2> HIDE DEF F, g
  <2> QED BY <1>1
<1>3. Open!FlattenSeq(s) = flat[Len(s)]
  BY DEF Open!FlattenSeq
<1>4. /\ F(flat)[1] = s[1] /\ F(flat)[2] = flat[1] \o s[2]
      /\ F(flat)[3] = flat[2] \o s[3]
  <2> HIDE DEF flat
  <2> QED OBVIOUS
<1> HIDE DEF F, flat
<1> QED BY <1>2, <1>3, <1>4

Lead == IF terminal THEN <<0>> ELSE <<>>

\* The three kinds of command lines.
LEMMA CommandLines ==
    ASSUME exec \in Open!Exec, NEW u \in Seq(Nat)
    PROVE  \/ exec = <<"word">> /\ Open!Argv(u) = Lead \o <<0>>
           \/ exec = <<"word", "other", "files">> /\ Open!Argv(u) = Lead \o (<<0>> \o u)
           \/ exec = <<"files", "word", "files">> /\ Open!Argv(u) = Lead \o ((u \o <<0>>) \o u)
<1> DEFINE s == [k \in 1 .. Len(exec) |-> CASE exec[k] = "files" -> u
                                            [] exec[k] = "word"  -> <<Open!Word>>
                                            [] OTHER             -> <<>>]
<1>1. Open!Argv(u) = Lead \o Open!FlattenSeq(s)
  BY DEF Open!Argv, Lead, Open!Word
<1>2. CASE exec = <<"word">>
  <2>1. Len(s) = 1 /\ s[1] = <<0>>
    BY <1>2 DEF Open!Word
  <2> HIDE DEF s
  <2> QED BY <1>1, <1>2, <2>1, FlattenedOnce
<1>3. CASE exec = <<"word", "other", "files">>
  <2>1. Len(s) = 3 /\ s[1] = <<0>> /\ s[2] = <<>> /\ s[3] = u
    BY <1>3 DEF Open!Word
  <2>2. <<0>> \o <<>> = <<0>>
    <3>1. <<0>> \in Seq(Nat)
      OBVIOUS
    <3> QED BY <3>1, ConcatEmptySeq
  <2> HIDE DEF s
  <2> QED BY <1>1, <1>3, <2>1, <2>2, FlattenedThrice
<1>4. CASE exec = <<"files", "word", "files">>
  <2>1. Len(s) = 3 /\ s[1] = u /\ s[2] = <<0>> /\ s[3] = u
    BY <1>4 DEF Open!Word
  <2> HIDE DEF s
  <2> QED BY <1>1, <1>4, <2>1, FlattenedThrice
<1> QED BY <1>2, <1>3, <1>4 DEF Open!Exec

\* A list of the places of a set, in order.
InOrder(list, places) ==
    /\ list \in Seq(Nat)
    /\ \A i, j \in DOMAIN list : i < j => list[i] < list[j]
    /\ \A i \in DOMAIN list : list[i] \in places
    /\ \A k \in places : \E i \in DOMAIN list : list[i] = k

LEMMA CardinalityInOpen == \A S : Open!Cardinality(S) = Cardinality(S)
BY DEF Open!Cardinality, Cardinality, Open!IsFiniteSet, IsFiniteSet

LEMMA LeadFacts == Lead \in Seq({0}) /\ Len(Lead) \in Nat /\ \A m \in 1 .. Len(Lead) : Lead[m] = 0
<1>1. CASE terminal
  BY <1>1 DEF Lead
<1>2. CASE ~ terminal
  <2>1. Lead = <<>>
    BY <1>2 DEF Lead
  <2> QED BY <2>1
<1> QED BY <1>1, <1>2

\* A command line made of words and the list, in the model's order.
LEMMA ArgvParts ==
    ASSUME NEW u \in Seq(Nat)
    PROVE  LET L == Len(Lead)
               n == Len(u)
               a == Lead \o <<0>>
               b == Lead \o (<<0>> \o u)
               c == Lead \o ((u \o <<0>>) \o u)
           IN /\ a \in Seq(Nat) /\ Len(a) = L + 1 /\ \A m \in 1 .. L + 1 : a[m] = 0
              /\ b \in Seq(Nat) /\ Len(b) = L + 1 + n /\ \A m \in 1 .. L + 1 : b[m] = 0
              /\ \A i \in 1 .. n : b[L + 1 + i] = u[i]
              /\ c \in Seq(Nat) /\ Len(c) = L + n + 1 + n /\ \A m \in 1 .. L : c[m] = 0
              /\ c[L + n + 1] = 0
              /\ \A i \in 1 .. n : c[L + i] = u[i] /\ c[L + n + 1 + i] = u[i]
<1> DEFINE L == Len(Lead)
           n == Len(u)
           a == Lead \o <<0>>
           x == <<0>> \o u
           b == Lead \o x
           v == u \o <<0>>
           y == v \o u
           c == Lead \o y
<1>0. Lead \in Seq(Nat) /\ <<0>> \in Seq(Nat) /\ L \in Nat /\ n \in Nat /\ Len(<<0>>) = 1 /\ <<0>>[1] = 0
  BY LeadFacts
<1>1. a \in Seq(Nat) /\ Len(a) = L + 1 /\ \A m \in 1 .. L + 1 : a[m] = 0
  BY <1>0, LeadFacts
<1>2. x \in Seq(Nat) /\ Len(x) = 1 + n /\ x[1] = 0 /\ \A i \in 1 .. n : x[1 + i] = u[i]
  BY <1>0
<1>3. v \in Seq(Nat) /\ Len(v) = n + 1 /\ v[n + 1] = 0 /\ \A i \in 1 .. n : v[i] = u[i]
  BY <1>0
<1>4. /\ y \in Seq(Nat) /\ Len(y) = n + 1 + n /\ y[n + 1] = 0
      /\ \A i \in 1 .. n : y[i] = u[i] /\ y[n + 1 + i] = u[i]
  <2>1. \A i \in 1 .. n : i \in 1 .. n + 1 /\ n + 1 \in 1 .. n + 1
    BY <1>0
  <2>2. v \in Seq(Nat) /\ u \in Seq(Nat)
    BY <1>3
  <2> HIDE DEF v
  <2>3. /\ y \in Seq(Nat) /\ Len(y) = Len(v) + n
        /\ \A i \in 1 .. Len(v) : y[i] = v[i]
        /\ \A i \in 1 .. n : y[Len(v) + i] = u[i]
    BY <2>2, Joined
  <2>4. n + 1 \in 1 .. n + 1
    BY <1>0
  <2> QED BY <1>0, <1>3, <2>1, <2>3, <2>4
<1>5. /\ b \in Seq(Nat) /\ Len(b) = L + 1 + n /\ \A m \in 1 .. L + 1 : b[m] = 0
      /\ \A i \in 1 .. n : b[L + 1 + i] = u[i]
  <2>1. x \in Seq(Nat)
    BY <1>2
  <2> HIDE DEF x
  <2>2. /\ b \in Seq(Nat) /\ Len(b) = L + Len(x)
        /\ \A i \in 1 .. L : b[i] = Lead[i]
        /\ \A i \in 1 .. Len(x) : b[L + i] = x[i]
    BY <1>0, <2>1, Joined
  <2>3. \A m \in 1 .. L + 1 : m \in 1 .. L \/ m = L + 1
    BY <1>0
  <2>4. \A i \in 1 .. n : 1 + i \in 1 .. Len(x) /\ L + (1 + i) = L + 1 + i
    BY <1>0, <1>2
  <2>5. 1 \in 1 .. Len(x) /\ L + (1 + n) = L + 1 + n
    BY <1>0, <1>2
  <2> QED BY <1>2, <2>2, <2>3, <2>4, <2>5, LeadFacts
<1>6. /\ c \in Seq(Nat) /\ Len(c) = L + n + 1 + n /\ \A m \in 1 .. L : c[m] = 0
      /\ c[L + n + 1] = 0
      /\ \A i \in 1 .. n : c[L + i] = u[i] /\ c[L + n + 1 + i] = u[i]
  <2>1. y \in Seq(Nat)
    BY <1>4
  <2> HIDE DEF y
  <2>2. /\ c \in Seq(Nat) /\ Len(c) = L + Len(y)
        /\ \A i \in 1 .. L : c[i] = Lead[i]
        /\ \A i \in 1 .. Len(y) : c[L + i] = y[i]
    BY <1>0, <2>1, Joined
  <2>4. \A i \in 1 .. n : i \in 1 .. Len(y) /\ n + 1 + i \in 1 .. Len(y) /\ L + (n + 1 + i) = L + n + 1 + i
    BY <1>0, <1>4
  <2>5. n + 1 \in 1 .. Len(y) /\ L + (n + 1) = L + n + 1 /\ L + (n + 1 + n) = L + n + 1 + n
    BY <1>0, <1>4
  <2> QED BY <1>4, <2>2, <2>4, <2>5, LeadFacts, ZenonT(60)
<1> QED BY <1>1, <1>5, <1>6

LEMMA InOrderOnce ==
    ASSUME NEW u, NEW places, InOrder(u, places), NEW i \in DOMAIN u, NEW j \in DOMAIN u,
           u[i] = u[j]
    PROVE  i = j
<1>1. u \in Seq(Nat)
  BY DEF InOrder
<1>2. i \in Nat /\ j \in Nat /\ u[i] \in Nat /\ u[j] \in Nat
  BY <1>1
<1>3. i < j \/ j < i \/ i = j
  BY <1>2
<1>4. ~ (i < j) /\ ~ (j < i)
  BY <1>2 DEF InOrder
<1> QED BY <1>3, <1>4

\* Where the items of a list are on a command line that has them once.
LEMMA OncePlaced ==
    ASSUME NEW u \in Seq(Nat), NEW places \in SUBSET (Nat \ {0}), InOrder(u, places),
           NEW argv \in Seq(Nat), NEW d \in Nat, Len(argv) = d + Len(u),
           \A m \in 1 .. d : argv[m] = 0,
           \A i \in 1 .. Len(u) : argv[d + i] = u[i]
    PROVE  /\ \A m \in DOMAIN argv : argv[m] \in places \cup {0}
           /\ \A k \in places : Cardinality({m \in DOMAIN argv : argv[m] = k}) = 1
           /\ \A m \in 2 .. Len(argv) :
                 0 \notin {argv[m - 1], argv[m]} => argv[m - 1] < argv[m]
<1>0. /\ Len(u) \in Nat /\ DOMAIN u = 1 .. Len(u) /\ DOMAIN argv = 1 .. d + Len(u)
      /\ \A i \in 1 .. Len(u) : u[i] \in places /\ u[i] \in Nat /\ u[i] # 0
  BY SMTT(30) DEF InOrder
<1>1. ASSUME NEW m \in 1 .. d + Len(u)
      PROVE  \/ m \in 1 .. d /\ argv[m] = 0
             \/ m > d /\ m - d \in 1 .. Len(u) /\ m = d + (m - d) /\ argv[m] = u[m - d]
  <2>1. m \in 1 .. d \/ (m > d /\ m - d \in 1 .. Len(u) /\ m = d + (m - d))
    BY <1>0
  <2>2. ASSUME m - d \in 1 .. Len(u) PROVE argv[d + (m - d)] = u[m - d]
    BY <2>2
  <2> QED BY <2>1, <2>2
<1>2. \A m \in DOMAIN argv : argv[m] \in places \cup {0}
  BY <1>0, <1>1
<1>3. ASSUME NEW k \in places
      PROVE  Cardinality({m \in DOMAIN argv : argv[m] = k}) = 1
  <2>1. PICK i \in 1 .. Len(u) : u[i] = k
    BY <1>0 DEF InOrder
  <2>3. d + i \in DOMAIN argv /\ argv[d + i] = k
    BY <1>0, <2>1
  <2>4. ASSUME NEW m \in DOMAIN argv, argv[m] = k PROVE m = d + i
    <3>1. m > d /\ m - d \in 1 .. Len(u) /\ m = d + (m - d) /\ u[m - d] = k
      BY <1>0, <1>1, <2>4
    <3>2. m - d = i
      BY <1>0, <2>1, <3>1, InOrderOnce
    <3> QED BY <3>1, <3>2
  <2>5. {m \in DOMAIN argv : argv[m] = k} = {d + i}
    BY <2>3, <2>4, Zenon
  <2> QED BY <2>5, FS_Singleton
<1>4. ASSUME NEW m \in 2 .. Len(argv), 0 \notin {argv[m - 1], argv[m]}
      PROVE  argv[m - 1] < argv[m]
  <2>1. m \in 1 .. d + Len(u) /\ m - 1 \in 1 .. d + Len(u)
    BY <1>0
  <2>2. m - d \in 1 .. Len(u) /\ argv[m] = u[m - d]
    BY <1>1, <1>4, <2>1
  <2>3. m - 1 - d \in 1 .. Len(u) /\ argv[m - 1] = u[m - 1 - d]
    BY <1>1, <1>4, <2>1
  <2>4. m - 1 - d < m - d
    BY <2>1
  <2> QED BY <1>0, <2>2, <2>3, <2>4 DEF InOrder
<1> QED BY <1>2, <1>3, <1>4

\* The same for one that has them twice, with a word between.
LEMMA TwicePlaced ==
    ASSUME NEW u \in Seq(Nat), NEW places \in SUBSET (Nat \ {0}), InOrder(u, places),
           NEW argv \in Seq(Nat), NEW d \in Nat, Len(argv) = d + Len(u) + 1 + Len(u),
           \A m \in 1 .. d : argv[m] = 0,
           argv[d + Len(u) + 1] = 0,
           \A i \in 1 .. Len(u) : argv[d + i] = u[i] /\ argv[d + Len(u) + 1 + i] = u[i]
    PROVE  /\ \A m \in DOMAIN argv : argv[m] \in places \cup {0}
           /\ \A k \in places : Cardinality({m \in DOMAIN argv : argv[m] = k}) = 2
           /\ \A m \in 2 .. Len(argv) :
                 0 \notin {argv[m - 1], argv[m]} => argv[m - 1] < argv[m]
<1> DEFINE e == d + Len(u) + 1
<1>0. /\ Len(u) \in Nat /\ DOMAIN u = 1 .. Len(u) /\ DOMAIN argv = 1 .. e + Len(u)
      /\ e \in Nat /\ e = d + Len(u) + 1
      /\ \A i \in 1 .. Len(u) : u[i] \in places /\ u[i] \in Nat /\ u[i] # 0
  BY DEF InOrder
<1>a. argv[e] = 0 /\ \A i \in 1 .. Len(u) : argv[e + i] = u[i]
  OBVIOUS
<1> HIDE DEF e
<1>1. ASSUME NEW m \in 1 .. e + Len(u)
      PROVE  \/ argv[m] = 0
             \/ m < e /\ m - d \in 1 .. Len(u) /\ m = d + (m - d) /\ argv[m] = u[m - d]
             \/ m > e /\ m - e \in 1 .. Len(u) /\ m = e + (m - e) /\ argv[m] = u[m - e]
  <2>1. \/ m \in 1 .. d
        \/ m < e /\ m - d \in 1 .. Len(u) /\ m = d + (m - d)
        \/ m = e
        \/ m > e /\ m - e \in 1 .. Len(u) /\ m = e + (m - e)
    BY <1>0
  <2>2. ASSUME m - d \in 1 .. Len(u) PROVE argv[d + (m - d)] = u[m - d]
    BY <2>2
  <2>3. ASSUME m - e \in 1 .. Len(u) PROVE argv[e + (m - e)] = u[m - e]
    BY <1>a, <2>3
  <2> QED BY <1>a, <2>1, <2>2, <2>3
<1>2. \A m \in DOMAIN argv : argv[m] \in places \cup {0}
  BY <1>0, <1>1
<1>3. ASSUME NEW k \in places
      PROVE  Cardinality({m \in DOMAIN argv : argv[m] = k}) = 2
  <2>1. PICK i \in 1 .. Len(u) : u[i] = k
    BY <1>0 DEF InOrder
  <2>3. /\ d + i \in DOMAIN argv /\ argv[d + i] = k
        /\ e + i \in DOMAIN argv /\ argv[e + i] = k /\ d + i # e + i
    BY <1>0, <1>a, <2>1
  <2>4. ASSUME NEW m \in DOMAIN argv, argv[m] = k PROVE m = d + i \/ m = e + i
    <3>1. \/ m - d \in 1 .. Len(u) /\ m = d + (m - d) /\ u[m - d] = k
          \/ m - e \in 1 .. Len(u) /\ m = e + (m - e) /\ u[m - e] = k
      BY <1>0, <1>1, <2>4
    <3>2. ASSUME NEW j \in 1 .. Len(u), u[j] = k PROVE j = i
      <4>1. i \in DOMAIN u /\ j \in DOMAIN u /\ u[j] = u[i]
        BY <1>0, <2>1, <3>2
      <4> QED BY <4>1, InOrderOnce, Zenon
    <3> QED BY <3>1, <3>2
  <2>5. {m \in DOMAIN argv : argv[m] = k} = {d + i} \cup {e + i}
    BY <2>3, <2>4, Zenon
  <2>6. IsFiniteSet({d + i}) /\ Cardinality({d + i}) = 1 /\ e + i \notin {d + i}
    BY <2>3, FS_Singleton
  <2>7. Cardinality({d + i} \cup {e + i}) = Cardinality({d + i}) + 1
    BY <2>6, FS_AddElement, Zenon
  <2>8. Cardinality({d + i} \cup {e + i}) = 2
    <3> DEFINE c == Cardinality({d + i} \cup {e + i})
               b == Cardinality({d + i})
    <3>1. c = b + 1 /\ b = 1
      BY <2>6, <2>7
    <3> HIDE DEF c, b
    <3>2. c = 2
      BY <3>1
    <3> QED BY <3>2 DEF c
  <2> QED BY <2>5, <2>8, Zenon
<1>4. ASSUME NEW m \in 2 .. Len(argv), 0 \notin {argv[m - 1], argv[m]}
      PROVE  argv[m - 1] < argv[m]
  <2>1. m \in 1 .. e + Len(u) /\ m - 1 \in 1 .. e + Len(u)
    BY <1>0
  <2>2. \/ m < e /\ m - d \in 1 .. Len(u) /\ argv[m] = u[m - d]
        \/ m > e /\ m - e \in 1 .. Len(u) /\ argv[m] = u[m - e]
    BY <1>1, <1>4, <2>1
  <2>3. \/ m - 1 < e /\ m - 1 - d \in 1 .. Len(u) /\ argv[m - 1] = u[m - 1 - d]
        \/ m - 1 > e /\ m - 1 - e \in 1 .. Len(u) /\ argv[m - 1] = u[m - 1 - e]
    BY <1>1, <1>4, <2>1
  <2>4. CASE m < e
    <3>1. m - d \in 1 .. Len(u) /\ argv[m] = u[m - d]
      BY <1>0, <2>2, <2>4
    <3>2. m - 1 - d \in 1 .. Len(u) /\ argv[m - 1] = u[m - 1 - d] /\ m - 1 - d < m - d
      BY <1>0, <2>3, <2>4
    <3> QED BY <1>0, <3>1, <3>2 DEF InOrder
  <2>5. CASE ~ (m < e)
    <3>1. m - e \in 1 .. Len(u) /\ argv[m] = u[m - e]
      BY <1>0, <2>2, <2>5
    <3>2. m - 1 \in Int /\ ~ (m - 1 < e)
      BY <1>0, <1>a, <1>4, <2>1, <2>5
    <3>3. m - 1 - e \in 1 .. Len(u) /\ argv[m - 1] = u[m - 1 - e] /\ m - 1 - e < m - e
      BY <1>0, <2>3, <3>2
    <3> QED BY <1>0, <3>1, <3>3 DEF InOrder
  <2> QED BY <2>4, <2>5
<1> QED BY <1>2, <1>3, <1>4

\* The command line an application gets for a list carries the list.
LEMMA ArgvCarries ==
    ASSUME exec \in Open!Exec, NEW places \in SUBSET (Nat \ {0}),
           NEW list, InOrder(list, places)
    PROVE  Open!Argv(list) \in Seq(Nat) /\ Open!Carries(Open!Argv(list), places)
<1> DEFINE argv == Open!Argv(list)
           L == Len(Lead)
           Files == {w \in DOMAIN exec : exec[w] = "files"}
           Words == DOMAIN argv
<1>0. list \in Seq(Nat) /\ Len(list) \in Nat /\ Len(Lead) \in Nat /\ Len(Lead) + 1 \in Nat
  BY LeadFacts DEF InOrder
<1>1. SUFFICES
        /\ argv \in Seq(Nat)
        /\ \A m \in DOMAIN argv : argv[m] \in places \cup {0}
        /\ \A k \in places : Cardinality({m \in DOMAIN argv : argv[m] = k}) = Cardinality(Files)
        /\ \A m \in 2 .. Len(argv) :
              0 \notin {argv[m - 1], argv[m]} => argv[m - 1] < argv[m]
  <2> HIDE DEF argv, Files
  <2>1. /\ \A k \in places : Open!Cardinality({m \in DOMAIN argv : argv[m] = k})
                               = Open!Cardinality(Files)
    BY <1>1, CardinalityInOpen
  <2>2. Open!Carries(argv, places)
    BY <1>1, <2>1, Zenon DEF Open!Carries, Open!Word, Files
  <2> QED BY <1>1, <2>2 DEF argv
<1>2. CASE exec = <<"word">> /\ argv = Lead \o <<0>>
  <2>1. argv \in Seq(Nat) /\ Len(argv) = Len(Lead) + 1 /\ \A m \in 1 .. Len(Lead) + 1 : argv[m] = 0
    BY <1>0, <1>2, ArgvParts
  <2> HIDE DEF argv
  <2>2. DOMAIN argv = 1 .. Len(Lead) + 1
    BY <2>1
  <2>3. Files = {}
    BY <1>2
  <2>4. ASSUME NEW k \in places PROVE Cardinality({m \in DOMAIN argv : argv[m] = k}) = Cardinality(Files)
    <3>1. k # 0
      OBVIOUS
    <3>2. {m \in DOMAIN argv : argv[m] = k} = {}
      BY <2>1, <2>2, <3>1
    <3> QED BY <2>3, <3>2, Zenon
  <2>5. \A m \in 2 .. Len(argv) : argv[m] = 0
    BY <1>0, <2>1
  <2> QED BY <2>1, <2>2, <2>4, <2>5
<1>3. CASE exec = <<"word", "other", "files">> /\ argv = Lead \o (<<0>> \o list)
  <2>1. /\ argv \in Seq(Nat) /\ Len(argv) = Len(Lead) + 1 + Len(list)
        /\ \A m \in 1 .. Len(Lead) + 1 : argv[m] = 0
        /\ \A i \in 1 .. Len(list) : argv[Len(Lead) + 1 + i] = list[i]
    BY <1>0, <1>3, ArgvParts
  <2> HIDE DEF argv
  <2>2. /\ \A m \in DOMAIN argv : argv[m] \in places \cup {0}
        /\ \A k \in places : Cardinality({m \in DOMAIN argv : argv[m] = k}) = 1
        /\ \A m \in 2 .. Len(argv) :
              0 \notin {argv[m - 1], argv[m]} => argv[m - 1] < argv[m]
    BY <1>0, <2>1, OncePlaced
  <2>3. Files = {3}
    BY <1>3
  <2>4. Cardinality(Files) = 1
    BY <2>3, FS_Singleton
  <2> QED BY <2>1, <2>2, <2>4, Zenon
<1>4. CASE exec = <<"files", "word", "files">> /\ argv = Lead \o ((list \o <<0>>) \o list)
  <2>1. /\ argv \in Seq(Nat) /\ Len(argv) = Len(Lead) + Len(list) + 1 + Len(list)
        /\ \A m \in 1 .. Len(Lead) : argv[m] = 0
        /\ argv[Len(Lead) + Len(list) + 1] = 0
        /\ \A i \in 1 .. Len(list) : /\ argv[Len(Lead) + i] = list[i]
                                     /\ argv[Len(Lead) + Len(list) + 1 + i] = list[i]
    BY <1>0, <1>4, ArgvParts, SMTT(30)
  <2> HIDE DEF argv
  <2>2. /\ \A m \in DOMAIN argv : argv[m] \in places \cup {0}
        /\ \A k \in places : Cardinality({m \in DOMAIN argv : argv[m] = k}) = 2
        /\ \A m \in 2 .. Len(argv) :
              0 \notin {argv[m - 1], argv[m]} => argv[m - 1] < argv[m]
    BY <1>0, <2>1, TwicePlaced, ZenonT(60)
  <2>3. Files = {1} \cup {3}
    BY <1>4
  <2>4. Cardinality(Files) = 2
    <3>0. 3 \notin {1}
      OBVIOUS
    <3>1. IsFiniteSet({1}) /\ Cardinality({1}) = 1 /\ 3 \notin {1}
      BY <3>0, FS_Singleton, Zenon
    <3>2. Cardinality({1} \cup {3}) = Cardinality({1}) + 1
      BY <3>1, FS_AddElement, Zenon
    <3> DEFINE c == Cardinality({1} \cup {3})
               b == Cardinality({1})
    <3>3. c = b + 1 /\ b = 1
      BY <3>1, <3>2
    <3> HIDE DEF c, b
    <3>4. c = 2
      BY <3>3
    <3> QED BY <2>3, <3>4 DEF c
  <2> QED BY <2>1, <2>2, <2>4, Zenon
<1> QED BY <1>0, <1>2, <1>3, <1>4, CommandLines

-----------------------------------------------------------------------------
(* The files: who gets what.                                               *)

\* Cutting off a suffix finds a file exactly if the item names one.
LEMMA HandlerIsMeant ==
    ASSUME NEW i \in Open!Item PROVE Open!Handler(i) = Open!MeantFor(i)
<1>0. /\ i.scheme \in {"file", "web", "none"} /\ i.numbers \in {0, 3} /\ i.exists \in 0 .. 4
      /\ i.scheme = "none" => i.app = None
  BY DEF Open!Item, Open!Nowhere
<1>1. CASE i.scheme = "file"
  <2>1. Open!Cut(i) = i.exists <=> i.exists <= i.numbers /\ i.exists <= 2
    BY <1>0 DEF Open!Cut
  <2>2. Open!Resolves(i) <=> Open!Cut(i) = i.exists
    BY <1>1, <2>1 DEF Open!Resolves
  <2> QED BY <1>1, <2>2 DEF Open!Handler, Open!FileHandler, Open!UriHandler, Open!QueryHandler,
                            Open!MeantFor
<1>2. CASE i.scheme # "file"
  BY <1>0, <1>2 DEF Open!Handler, Open!FileHandler, Open!UriHandler, Open!MeantFor, Open!Resolves
<1> QED BY <1>1, <1>2

\* What the applications of a name get of the first n items, and their launches
\* so far.
Got(a, n) == {k \in 1 .. n : Open!Handler(items[k]) \in Open!Called(a)}
Launched(a) == {n \in DOMAIN launches : launches[n].app \in Open!Called(a)}

\* A launch by the handler of the first item of a list, with the list.
ByFirst(r, list) ==
    list # <<>> /\ r.argv = Open!Argv(list) /\ r.app = Open!Handler(items[list[1]])

\* A name is still to be launched, or it has been.
Waits(a, n) == InOrder(groups[a], Got(a, n)) /\ Launched(a) = {}
Served(a) ==
    /\ groups[a] = <<>> /\ Got(a, Len(items)) # {}
    /\ \E n \in DOMAIN launches :
          /\ Launched(a) = {n}
          /\ \E list : InOrder(list, Got(a, Len(items))) /\ ByFirst(launches[n], list)

LEMMA NamesOfApps ==
    ASSUME NEW i \in Open!Item, Open!Handler(i) # None
    PROVE  /\ Open!Handler(i) \in App /\ DisplayName[Open!Handler(i)] \in Open!AppNames
           /\ \A d : Open!Handler(i) \in Open!Called(d) <=> d = DisplayName[Open!Handler(i)]
<1>1. Open!Handler(i) \in App
  <2>1. i.app \in App \cup {None} /\ TextApp \in App \cup {None}
    BY OpenAssumption DEF Open!Item
  <2> QED BY <2>1 DEF Open!Handler, Open!FileHandler, Open!UriHandler, Open!QueryHandler
<1> QED BY <1>1, Zenon DEF Open!Called, Open!AppNames

LaunchRecord == [app : App, argv : Seq(Nat), way : {"activate", "scope", "common"}]

OpenInv ==
    /\ Open!TypeOK /\ launches \in Seq(LaunchRecord)
    /\ stage = "idle" => at = 0 /\ launches = <<>> /\ \A a \in Open!AppNames : groups[a] = <<>>
    /\ stage = "launch" => call # "common"
    /\ call # "common" =>
         /\ stage = "group" => \A a \in Open!AppNames : Waits(a, at)
         /\ stage = "launch" => \A a \in Open!AppNames : Waits(a, Len(items)) \/ Served(a)
         /\ stage = "done" => \A a \in Open!AppNames :
               (Waits(a, Len(items)) /\ groups[a] = <<>>) \/ Served(a)

FilesTyped ==
    /\ items \in Seq(Open!Item) /\ call \in {"files", "uris", "common"}
    /\ exec \in Open!Exec /\ terminal \in BOOLEAN /\ at \in 0 .. Len(items)
    /\ groups \in [Open!AppNames -> Seq(Nat)] /\ stage \in {"idle", "group", "launch", "done"}

LEMMA FilesTypes == Open!TypeOK <=> FilesTyped
BY DEF Open!TypeOK, FilesTyped

LEMMA GotFacts ==
    ASSUME items \in Seq(Open!Item), NEW a, NEW n \in 0 .. Len(items)
    PROVE  /\ Got(a, n) \in SUBSET (Nat \ {0})
           /\ Got(a, 0) = {}
           /\ n < Len(items) =>
                 Got(a, n + 1) = IF Open!Handler(items[n + 1]) \in Open!Called(a)
                                 THEN Got(a, n) \cup {n + 1} ELSE Got(a, n)
<1>1. Got(a, n) \in SUBSET (Nat \ {0}) /\ Got(a, 0) = {}
  BY DEF Got
<1>2. \A k : k \in 1 .. n + 1 <=> k \in 1 .. n \/ k = n + 1
  OBVIOUS
<1>3. Got(a, n + 1) = IF Open!Handler(items[n + 1]) \in Open!Called(a)
                      THEN Got(a, n) \cup {n + 1} ELSE Got(a, n)
  BY <1>2, Zenon DEF Got
<1> QED BY <1>1, <1>3

LEMMA InOrderEmpty == InOrder(<<>>, {}) /\ \A places : InOrder(<<>>, places) => places = {}
<1>1. <<>> \in Seq(Nat) /\ DOMAIN <<>> = {}
  OBVIOUS
<1> QED BY <1>1, Zenon DEF InOrder

\* A later item goes to the end of a list.
LEMMA InOrderAppend ==
    ASSUME NEW n \in Nat, NEW places, places \in SUBSET (1 .. n),
           NEW list, InOrder(list, places)
    PROVE  InOrder(Append(list, n + 1), places \cup {n + 1})
<1> DEFINE new == Append(list, n + 1)
<1>1. list \in Seq(Nat) /\ \A i \in DOMAIN list : list[i] \in 1 .. n
  BY DEF InOrder
<1>2. /\ new \in Seq(Nat) /\ DOMAIN new = 1 .. Len(list) + 1 /\ DOMAIN list = 1 .. Len(list)
      /\ new[Len(list) + 1] = n + 1 /\ \A i \in 1 .. Len(list) : new[i] = list[i]
      /\ Len(list) \in Nat
  BY <1>1
<1>3. \A i \in 1 .. Len(list) + 1 : i \in 1 .. Len(list) \/ i = Len(list) + 1
  BY <1>2
<1> HIDE DEF new
<1>4. ASSUME NEW i \in DOMAIN new, NEW j \in DOMAIN new, i < j PROVE new[i] < new[j]
  <2>1. i \in 1 .. Len(list)
    BY <1>2, <1>4
  <2>2. CASE j = Len(list) + 1
    BY <1>1, <1>2, <2>1, <2>2
  <2>3. CASE j \in 1 .. Len(list)
    BY <1>2, <1>4, <2>1, <2>3 DEF InOrder
  <2> QED BY <1>2, <1>3, <2>2, <2>3
<1>5. \A i \in DOMAIN new : new[i] \in places \cup {n + 1}
  BY <1>2, <1>3 DEF InOrder
<1>6. \A k \in places \cup {n + 1} : \E i \in DOMAIN new : new[i] = k
  <2>1. Len(list) + 1 \in DOMAIN new
    BY <1>2
  <2>2. \A k \in places : \E i \in 1 .. Len(list) : new[i] = k
    BY <1>2 DEF InOrder
  <2>3. \A i \in 1 .. Len(list) : i \in DOMAIN new
    BY <1>2
  <2> QED BY <1>2, <2>1, <2>2, <2>3
<1> QED BY <1>2, <1>4, <1>5, <1>6 DEF InOrder, new

LEMMA LaunchedAppend ==
    ASSUME launches \in Seq(LaunchRecord), NEW r \in LaunchRecord,
           launches' = Append(launches, r)
    PROVE  /\ launches' \in Seq(LaunchRecord)
           /\ \A b : Launched(b)' = IF r.app \in Open!Called(b)
                                    THEN Launched(b) \cup {Len(launches) + 1} ELSE Launched(b)
           /\ \A n \in DOMAIN launches : n \in DOMAIN launches' /\ launches'[n] = launches[n]
           /\ Len(launches) + 1 \in DOMAIN launches' /\ launches'[Len(launches) + 1] = r
<1>1. /\ launches' \in Seq(LaunchRecord) /\ DOMAIN launches = 1 .. Len(launches)
      /\ DOMAIN launches' = 1 .. Len(launches) + 1 /\ Len(launches) \in Nat
      /\ launches'[Len(launches) + 1] = r
      /\ \A n \in 1 .. Len(launches) : launches'[n] = launches[n]
  OBVIOUS
<1>2. /\ Len(launches) + 1 \in DOMAIN launches'
      /\ \A n : n \in DOMAIN launches' <=> n \in DOMAIN launches \/ n = Len(launches) + 1
      /\ \A n \in DOMAIN launches : n \in DOMAIN launches' /\ launches'[n] = launches[n]
  BY <1>1
<1>3. ASSUME NEW b
      PROVE  Launched(b)' = IF r.app \in Open!Called(b)
                            THEN Launched(b) \cup {Len(launches) + 1} ELSE Launched(b)
  <2>1. Launched(b)' = {n \in DOMAIN launches' : launches'[n].app \in Open!Called(b)}
    BY DEF Launched, Open!Called
  <2>2. \A n : n \in Launched(b)' <=>
           n \in Launched(b) \/ (n = Len(launches) + 1 /\ r.app \in Open!Called(b))
    BY <1>1, <1>2, <2>1, Zenon DEF Launched
  <2> QED BY <2>2, Zenon
<1> QED BY <1>1, <1>2, <1>3

LEMMA FilesInit == Open!Init => OpenInv
<1> SUFFICES ASSUME Open!Init PROVE OpenInv
  OBVIOUS
<1>1. /\ items = <<>> /\ call = "files" /\ exec = <<"word">> /\ terminal = FALSE
      /\ at = 0 /\ launches = <<>> /\ stage = "idle" /\ groups = [a \in Open!AppNames |-> <<>>]
  BY DEF Open!Init
<1>2. items \in Seq(Open!Item) /\ Len(items) = 0 /\ launches \in Seq(LaunchRecord)
  BY <1>1
<1>3. groups \in [Open!AppNames -> Seq(Nat)] /\ \A a \in Open!AppNames : groups[a] = <<>>
  <2>1. <<>> \in Seq(Nat)
    OBVIOUS
  <2> QED BY <1>1, <2>1
<1>4. terminal \in BOOLEAN
  BY <1>1
<1>5. exec \in Open!Exec
  BY <1>1 DEF Open!Exec
<1>6. FilesTyped
  BY <1>1, <1>2, <1>3, <1>4, <1>5 DEF FilesTyped
<1> QED BY <1>1, <1>2, <1>3, <1>6, FilesTypes DEF OpenInv

LEMMA FilesOpen == ASSUME OpenInv, Open!Open PROVE OpenInv'
<1> DEFINE Ways == {"files", "uris", "common"}
<1>1. /\ stage = "idle" /\ stage' = "group" /\ call' \in Ways /\ exec' \in Open!Exec
      /\ terminal' \in BOOLEAN
      /\ at' = at /\ groups' = groups /\ launches' = launches
  BY DEF Open!Open
<1>2. PICK n \in 0 .. MaxItems : items' \in [1 .. n -> Open!Item]
  BY DEF Open!Open
<1>3. items' \in Seq(Open!Item)
  <2>1. CASE n \in Nat
    BY <1>2, <2>1
  <2>2. n \in Nat
    OBVIOUS
  <2> QED BY <2>1, <2>2
<1>4. at = 0 /\ launches = <<>> /\ launches \in Seq(LaunchRecord) /\ groups \in [Open!AppNames -> Seq(Nat)]
      /\ \A a \in Open!AppNames : groups[a] = <<>>
  BY <1>1, FilesTypes DEF OpenInv, FilesTyped
<1>5. at' \in 0 .. Len(items')
  <2>1. Len(items') \in Nat
    BY <1>3
  <2> QED BY <1>1, <1>4, <2>1
<1>6. FilesTyped'
  BY <1>1, <1>3, <1>4, <1>5 DEF FilesTyped
<1>7. ASSUME NEW a \in Open!AppNames PROVE Waits(a, at)'
  <2>1. Got(a, 0)' = {}
    BY DEF Got
  <2>2. Got(a, at)' = {}
    BY <1>1, <1>4, <2>1, Zenon DEF Got
  <2>3. Launched(a)' = {}
    BY <1>1, <1>4 DEF Launched
  <2>4. groups'[a] = <<>>
    BY <1>1, <1>4
  <2> QED BY <2>2, <2>3, <2>4, InOrderEmpty DEF Waits
<1>8. Open!TypeOK'
  BY <1>6, FilesTypes, PTL
<1> QED BY <1>1, <1>4, <1>7, <1>8 DEF OpenInv

\* An action that leaves the items alone moves only what it names.
FilesStay == items' = items /\ call' = call /\ exec' = exec /\ terminal' = terminal

LEMMA FilesGroup == ASSUME OpenInv, Open!Group PROVE OpenInv'
<1> DEFINE b == Open!Handler(items[at + 1])
<1>1. /\ stage = "group" /\ stage' = stage /\ call # "common" /\ at < Len(items) /\ at' = at + 1
      /\ groups' = IF b = None THEN groups
                   ELSE [groups EXCEPT ![DisplayName[b]] = Append(@, at + 1)]
      /\ FilesStay /\ launches' = launches
  BY DEF Open!Group, FilesStay
<1>2. FilesTyped /\ launches \in Seq(LaunchRecord) /\ \A a \in Open!AppNames : Waits(a, at)
  BY <1>1, FilesTypes DEF OpenInv
<1>3. Len(items) \in Nat /\ at \in Nat /\ at + 1 \in 0 .. Len(items)
  BY <1>1, <1>2 DEF FilesTyped
<1>a. b # None => b \in App /\ DisplayName[b] \in Open!AppNames
  <2>1. items[at + 1] \in Open!Item
    BY <1>1, <1>2, <1>3 DEF FilesTyped
  <2> QED BY <2>1, NamesOfApps
<1> HIDE DEF b
<1>4. groups' \in [Open!AppNames -> Seq(Nat)]
  <2>1. \A a \in Open!AppNames : Append(groups[a], at + 1) \in Seq(Nat)
    BY <1>2, <1>3 DEF FilesTyped
  <2> QED BY <1>1, <1>2, <2>1 DEF FilesTyped
<1>5. FilesTyped'
  BY <1>1, <1>2, <1>3, <1>4 DEF FilesTyped, FilesStay
<1>6. ASSUME NEW a \in Open!AppNames PROVE Waits(a, at)'
  <2>1. /\ InOrder(groups[a], Got(a, at)) /\ Launched(a) = {}
    BY <1>2 DEF Waits
  <2>2. Launched(a)' = {}
    BY <1>1, <2>1 DEF Launched, Open!Called
  <2>3. Got(a, at)' = Got(a, at + 1)
    BY <1>1, Zenon DEF Got, Open!Called, Open!Handler, Open!FileHandler, Open!UriHandler, FilesStay
  <2>4. /\ b \in Open!Called(a) => b # None /\ DisplayName[b] = a
        /\ b \notin Open!Called(a) => b = None \/ DisplayName[b] # a
    BY <1>a, OpenAssumption DEF Open!Called
  <2>5. CASE b \in Open!Called(a)
    <3>1. groups'[a] = Append(groups[a], at + 1)
      BY <1>1, <1>2, <2>4, <2>5 DEF FilesTyped
    <3>2. Got(a, at + 1) = Got(a, at) \cup {at + 1}
      BY <1>1, <1>2, <2>5, GotFacts DEF FilesTyped, b
    <3>3. Got(a, at) \in SUBSET (1 .. at)
      BY DEF Got
    <3>4. InOrder(groups'[a], Got(a, at + 1))
      BY <1>3, <2>1, <3>1, <3>2, <3>3, InOrderAppend
    <3> QED BY <2>2, <2>3, <3>4 DEF Waits
  <2>6. CASE b \notin Open!Called(a)
    <3>1. groups'[a] = groups[a]
      BY <1>1, <1>2, <2>4, <2>6 DEF FilesTyped
    <3>2. Got(a, at + 1) = Got(a, at)
      BY <1>1, <1>2, <2>6, GotFacts DEF FilesTyped, b
    <3> QED BY <2>1, <2>2, <2>3, <3>1, <3>2 DEF Waits
  <2> QED BY <2>5, <2>6
<1>7. Open!TypeOK'
  BY <1>5, FilesTypes, PTL
<1> QED BY <1>1, <1>2, <1>6, <1>7 DEF OpenInv

LEMMA GotStays ==
    ASSUME FilesStay PROVE \A a, n : Got(a, n)' = Got(a, n)
BY Zenon DEF Got, Open!Called, Open!Handler, Open!FileHandler, Open!UriHandler, FilesStay

LEMMA FirstStays == ASSUME FilesStay PROVE \A r, list : ByFirst(r, list)' <=> ByFirst(r, list)
<1>1. \A list : Open!Argv(list)' = Open!Argv(list)
  BY DEF FilesStay, Open!Argv
<1>2. \A i : Open!Handler(i)' = Open!Handler(i)
  BY DEF FilesStay, Open!Handler, Open!FileHandler, Open!UriHandler
<1> QED BY <1>1, <1>2, Zenon DEF ByFirst, FilesStay

\* The first loop is over, or the second.
LEMMA FilesEnd ==
    ASSUME OpenInv, Open!EndGroup \/ Open!EndLaunch
    PROVE  OpenInv'
<1>1. FilesStay /\ at' = at /\ groups' = groups /\ launches' = launches
  BY DEF Open!EndGroup, Open!EndLaunch, FilesStay
<1>2. \/ stage = "group" /\ stage' = "launch" /\ call # "common" /\ at = Len(items)
      \/ stage = "launch" /\ stage' = "done" /\ \A a \in Open!AppNames : groups[a] = <<>>
  BY DEF Open!EndGroup, Open!EndLaunch
<1>3. FilesTyped /\ launches \in Seq(LaunchRecord)
  BY FilesTypes DEF OpenInv
<1>4. FilesTyped'
  BY <1>1, <1>2, <1>3 DEF FilesTyped, FilesStay
<1>5. Open!TypeOK'
  BY <1>4, FilesTypes, PTL
<1>6. \A a : (Launched(a)' = Launched(a))
  BY <1>1 DEF Launched, Open!Called
<1>7. \A a : Waits(a, Len(items))' <=> Waits(a, Len(items))
  BY <1>1, <1>6, GotStays DEF Waits, FilesStay
<1>8. \A a : Served(a)' <=> Served(a)
  <2>1. \A l, e : ByFirst(l, e)' <=> ByFirst(l, e)
    BY <1>1, FirstStays
  <2>2. items' = items /\ \A a, n : Got(a, n)' = Got(a, n)
    BY <1>1, GotStays DEF FilesStay
  <2> QED BY <1>1, <1>6, <2>1, <2>2, Zenon DEF Served
<1>9. CASE stage = "group" /\ stage' = "launch" /\ call # "common" /\ at = Len(items)
  <2>1. \A a \in Open!AppNames : Waits(a, Len(items))
    BY <1>9 DEF OpenInv
  <2>2. call' = call
    BY <1>1 DEF FilesStay
  <2> QED BY <1>1, <1>3, <1>5, <1>7, <1>9, <2>1, <2>2 DEF OpenInv
<1>10. CASE stage = "launch" /\ stage' = "done" /\ \A a \in Open!AppNames : groups[a] = <<>>
  <2>1. call # "common" => \A a \in Open!AppNames : Waits(a, Len(items)) \/ Served(a)
    BY <1>10 DEF OpenInv
  <2>2. call' = call
    BY <1>1 DEF FilesStay
  <2> QED BY <1>1, <1>3, <1>5, <1>7, <1>8, <1>10, <2>1, <2>2 DEF OpenInv
<1> QED BY <1>2, <1>9, <1>10

LEMMA FilesLaunchGroup ==
    ASSUME OpenInv, NEW a \in Open!AppNames, Open!LaunchGroup(a) PROVE OpenInv'
<1> DEFINE argv == Open!Argv(groups[a])
           kept == Open!Kept(a)
           r == [app |-> kept, argv |-> argv,
                 way |-> IF kept \in OnBus /\ Len(argv) = 1 THEN "activate" ELSE "scope"]
<1>1. /\ stage = "launch" /\ stage' = stage /\ groups[a] # <<>> /\ at' = at /\ FilesStay
      /\ groups' = [groups EXCEPT ![a] = <<>>] /\ launches' = Append(launches, r)
  BY DEF Open!LaunchGroup, FilesStay
<1>2. FilesTyped /\ launches \in Seq(LaunchRecord)
  BY FilesTypes DEF OpenInv
<1>3. groups[a] \in Seq(Nat) /\ <<>> \in Seq(Nat)
  BY <1>2 DEF FilesTyped
<1>4. /\ groups' \in [Open!AppNames -> Seq(Nat)] /\ groups'[a] = <<>>
      /\ \A c \in Open!AppNames \ {a} : groups'[c] = groups[c]
  BY <1>1, <1>2, <1>3 DEF FilesTyped
<1>5. FilesTyped'
  BY <1>1, <1>2, <1>4 DEF FilesTyped, FilesStay
<1>6. Open!TypeOK'
  BY <1>5, FilesTypes, PTL
<1>7. argv \in Seq(Nat)
  <2>1. /\ Lead \o <<0>> \in Seq(Nat) /\ Lead \o (<<0>> \o groups[a]) \in Seq(Nat)
        /\ Lead \o ((groups[a] \o <<0>>) \o groups[a]) \in Seq(Nat)
    BY <1>3, ArgvParts
  <2> QED BY <1>2, <1>3, <2>1, CommandLines DEF FilesTyped
<1>a. call # "common" /\ Waits(a, Len(items))
  BY <1>1 DEF OpenInv, Served
<1>b. InOrder(groups[a], Got(a, Len(items))) /\ Launched(a) = {}
  BY <1>a DEF Waits
<1>c. groups[a][1] \in Got(a, Len(items))
  <2>1. 1 \in DOMAIN groups[a]
    BY <1>1, <1>3
  <2> QED BY <1>b, <2>1 DEF InOrder
<1>d. kept \in App /\ kept \in Open!Called(a) /\ \A d : kept \in Open!Called(d) <=> d = a
  BY <1>c, Zenon DEF Got, Open!Kept, Open!Called
<1>8. r \in LaunchRecord /\ r.app = kept /\ r.argv = argv
  BY <1>7, <1>d DEF LaunchRecord
<1>e. r.app = Open!Handler(items[groups[a][1]])
  BY <1>8 DEF Open!Kept
<1> HIDE DEF r, argv, kept
<1>9. /\ launches' \in Seq(LaunchRecord)
      /\ \A b : Launched(b)' = IF b = a THEN Launched(b) \cup {Len(launches) + 1} ELSE Launched(b)
      /\ \A n \in DOMAIN launches : n \in DOMAIN launches' /\ launches'[n] = launches[n]
      /\ Len(launches) + 1 \in DOMAIN launches' /\ launches'[Len(launches) + 1] = r
  BY <1>1, <1>2, <1>8, <1>d, LaunchedAppend
<1>10. ASSUME call' # "common", NEW c \in Open!AppNames
       PROVE  (Waits(c, Len(items)) \/ Served(c))'
  <2>0. \A l, e : ByFirst(l, e)' <=> ByFirst(l, e)
    BY <1>1, FirstStays
  <2>1. Waits(c, Len(items)) \/ Served(c)
    BY <1>1, <1>a DEF OpenInv
  <2>2. items' = items /\ \A b, n : Got(b, n)' = Got(b, n)
    BY <1>1, GotStays DEF FilesStay
  <2>3. CASE c = a
    <3>2. Got(a, Len(items)) # {}
      BY <1>c
    <3>3. Launched(a)' = {Len(launches) + 1}
      BY <1>9, <1>b
    <3>4. ByFirst(launches'[Len(launches) + 1], groups[a])
      BY <1>1, <1>8, <1>9, <1>e DEF argv, ByFirst
    <3>5. /\ Len(launches) + 1 \in DOMAIN launches'
          /\ groups'[a] = <<>>
      BY <1>4, <1>9
    <3>6. \E n \in DOMAIN launches' :
             /\ Launched(a)' = {n}
             /\ \E list : InOrder(list, Got(a, Len(items))) /\ ByFirst(launches'[n], list)
      BY <1>b, <3>3, <3>4, <3>5
    <3>7. Served(a)'
      BY <2>0, <2>2, <3>2, <3>5, <3>6 DEF Served
    <3> QED BY <2>3, <3>7
  <2>4. CASE c # a
    <3>1. groups'[c] = groups[c] /\ Launched(c)' = Launched(c)
      BY <1>4, <1>9, <2>4
    <3>2. CASE Waits(c, Len(items))
      BY <2>2, <3>1, <3>2 DEF Waits
    <3>3. CASE Served(c)
      <4>1. PICK n \in DOMAIN launches :
              /\ Launched(c) = {n}
              /\ \E list : InOrder(list, Got(c, Len(items))) /\ ByFirst(launches[n], list)
        BY <3>3 DEF Served
      <4>2. n \in DOMAIN launches' /\ launches'[n] = launches[n]
        BY <1>9
      <4>3. groups[c] = <<>> /\ Got(c, Len(items)) # {}
        BY <3>3 DEF Served
      <4> QED BY <2>0, <2>2, <3>1, <4>1, <4>2, <4>3 DEF Served
    <3> QED BY <2>1, <3>2, <3>3
  <2> QED BY <2>3, <2>4
<1>11. call' = call
  BY <1>1 DEF FilesStay
<1> QED BY <1>1, <1>6, <1>9, <1>10, <1>11, <1>a DEF OpenInv

LEMMA FilesLaunchCommon == ASSUME OpenInv, Open!LaunchCommon PROVE OpenInv'
<1> DEFINE all == [k \in 1 .. Len(items) |-> k]
<1>1. /\ call = "common" /\ stage' = "done" /\ FilesStay /\ at' = at /\ groups' = groups
      /\ launches' = IF items = <<>> \/ Open!CommonHandler(items[1]) = None THEN <<>>
                     ELSE <<[app |-> Open!CommonHandler(items[1]), argv |-> all, way |-> "common"]>>
  BY DEF Open!LaunchCommon, FilesStay
<1>2. FilesTyped /\ launches \in Seq(LaunchRecord)
  BY FilesTypes DEF OpenInv
<1>3. FilesTyped'
  BY <1>1, <1>2 DEF FilesTyped, FilesStay
<1>4. Open!TypeOK'
  BY <1>3, FilesTypes, PTL
<1>5. launches' \in Seq(LaunchRecord)
  <2>1. Len(items) \in Nat
    BY <1>2 DEF FilesTyped
  <2>2. all \in Seq(Nat)
    BY <2>1
  <2> DEFINE a == Open!CommonHandler(items[1])
  <2>3. ASSUME items # <<>>, a # None PROVE a \in App
    <3>1. items[1] \in Open!Item
      BY <1>2, <2>3 DEF FilesTyped
    <3> QED BY <2>3, <3>1 DEF Open!Item, Open!CommonHandler
  <2> HIDE DEF all, a
  <2>4. CASE items = <<>> \/ a = None
    BY <1>1, <2>4 DEF a
  <2>5. CASE ~ (items = <<>> \/ a = None)
    <3> DEFINE r == [app |-> a, argv |-> all, way |-> "common"]
    <3>1. r \in LaunchRecord
      BY <2>2, <2>3, <2>5 DEF LaunchRecord
    <3>2. launches' = <<r>>
      BY <1>1, <2>5 DEF a
    <3> QED BY <3>1, <3>2
  <2> QED BY <2>4, <2>5
<1>6. call' = "common"
  BY <1>1 DEF FilesStay
<1> QED BY <1>1, <1>4, <1>5, <1>6 DEF OpenInv

LEMMA FilesNext == OpenInv /\ [Open!Next]_(Open!vars) => OpenInv'
<1> SUFFICES ASSUME OpenInv, [Open!Next]_(Open!vars) PROVE OpenInv'
  OBVIOUS
<1>1. CASE UNCHANGED Open!vars
  <2>1. /\ FilesStay /\ at' = at /\ groups' = groups /\ launches' = launches /\ stage' = stage
    BY <1>1 DEF Open!vars, FilesStay
  <2>2. FilesTyped'
    BY <2>1, FilesTypes DEF OpenInv, FilesTyped, FilesStay
  <2>3. Open!TypeOK'
    BY <2>2, FilesTypes, PTL
  <2>4. \A a : (Launched(a)' = Launched(a))
    BY <2>1 DEF Launched, Open!Called
  <2>5. \A a, n : Got(a, n)' = Got(a, n)
    BY <2>1, GotStays
  <2>6. \A a, n : (InOrder(groups'[a], Got(a, n)') /\ Launched(a)' = {}) <=> Waits(a, n)
    BY <2>1, <2>4, <2>5 DEF Waits
  <2>7. \A a : Waits(a, at)' <=> Waits(a, at)
    BY <2>1, <2>4, <2>5 DEF Waits
  <2>8. \A a : Waits(a, Len(items))' <=> Waits(a, Len(items))
    BY <2>1, <2>4, <2>5 DEF Waits, FilesStay
  <2>9. \A a : Served(a)' <=> Served(a)
    BY <2>1, <2>4, <2>5, FirstStays, ZenonT(60) DEF Served, FilesStay
  <2>10. call' = call
    BY <2>1 DEF FilesStay
  <2> QED BY <2>1, <2>3, <2>7, <2>8, <2>9, <2>10 DEF OpenInv
<1>2. CASE Open!Open
  BY <1>2, FilesOpen
<1>3. CASE Open!Group
  BY <1>3, FilesGroup
<1>4. CASE Open!EndGroup \/ Open!EndLaunch
  BY <1>4, FilesEnd
<1>5. CASE Open!LaunchCommon
  BY <1>5, FilesLaunchCommon
<1>6. ASSUME NEW a \in Open!AppNames, Open!LaunchGroup(a) PROVE OpenInv'
  BY <1>6, FilesLaunchGroup
<1> QED BY <1>1, <1>2, <1>3, <1>4, <1>5, <1>6 DEF Open!Next

\* Whatever files and URIs are opened, with suffixes or without, by however many
\* applications and names: in the end each name that something is meant for has
\* been launched once, by the application its first item is meant for, and each of
\* its placeholders got just what is meant for applications of the name, in order.
THEOREM FilesReachHandlers == Open!Spec => []OneLaunchPerName
<1>1. OpenInv => OneLaunchPerName
  <2> SUFFICES ASSUME OpenInv, stage = "done", call # "common", NEW d \in Open!AppNames
               PROVE  LET of == {n \in DOMAIN launches : launches[n].app \in Open!Called(d)}
                      IN IF Open!Theirs(d) = {} THEN of = {}
                         ELSE \E n \in of, k \in Open!Theirs(d) :
                                 /\ of = {n} /\ Open!Carries(launches[n].argv, Open!Theirs(d))
                                 /\ \A j \in Open!Theirs(d) : k <= j
                                 /\ launches[n].app = Open!MeantFor(items[k])
    BY DEF OneLaunchPerName, Open!OneLaunchPerName
  <2>1. FilesTyped /\ ((Waits(d, Len(items)) /\ groups[d] = <<>>) \/ Served(d))
    BY FilesTypes DEF OpenInv
  <2>2. items \in Seq(Open!Item) /\ exec \in Open!Exec /\ Len(items) \in Nat
    BY <2>1 DEF FilesTyped
  <2>a. \A k \in 1 .. Len(items) : Open!Handler(items[k]) = Open!MeantFor(items[k])
    <3>1. \A k \in 1 .. Len(items) : items[k] \in Open!Item
      BY <2>2
    <3> QED BY <3>1, HandlerIsMeant
  <2>3. Open!Theirs(d) = Got(d, Len(items))
    BY <2>a DEF Got, Open!Theirs
  <2>4. Got(d, Len(items)) \in SUBSET (Nat \ {0})
    BY DEF Got
  <2>5. CASE Waits(d, Len(items)) /\ groups[d] = <<>>
    <3>1. Got(d, Len(items)) = {}
      BY <2>5, InOrderEmpty DEF Waits
    <3> QED BY <2>3, <2>5, <3>1 DEF Waits, Launched
  <2>6. CASE Served(d)
    <3>1. PICK n \in DOMAIN launches :
             /\ Launched(d) = {n}
             /\ \E list : InOrder(list, Got(d, Len(items))) /\ ByFirst(launches[n], list)
      BY <2>6 DEF Served
    <3>2. PICK list : InOrder(list, Got(d, Len(items))) /\ ByFirst(launches[n], list)
      BY <3>1
    <3>3. Open!Carries(launches[n].argv, Got(d, Len(items)))
      BY <2>2, <2>4, <3>2, ArgvCarries DEF ByFirst
    <3>4. list \in Seq(Nat) /\ list # <<>> /\ 1 \in DOMAIN list
      BY <3>2 DEF InOrder, ByFirst
    <3>5. list[1] \in Got(d, Len(items)) /\ \A j \in Got(d, Len(items)) : list[1] <= j
      <4>1. list[1] \in Got(d, Len(items))
        BY <3>2, <3>4 DEF InOrder
      <4>2. ASSUME NEW j \in Got(d, Len(items)) PROVE list[1] <= j
        <5>1. PICK m \in DOMAIN list : list[m] = j
          BY <3>2 DEF InOrder
        <5>2. m \in Nat /\ m >= 1 /\ list[1] \in Nat /\ list[m] \in Nat
          BY <3>4
        <5>3. 1 < m => list[1] < list[m]
          BY <3>2, <3>4 DEF InOrder
        <5> QED BY <5>1, <5>2, <5>3
      <4> QED BY <4>1, <4>2
    <3>6. launches[n].app = Open!MeantFor(items[list[1]])
      BY <2>a, <3>2, <3>5 DEF ByFirst, Got
    <3>7. {m \in DOMAIN launches : launches[m].app \in Open!Called(d)} = {n}
      BY <3>1 DEF Launched
    <3> QED BY <2>3, <3>3, <3>5, <3>6, <3>7, Zenon
  <2> QED BY <2>1, <2>5, <2>6
<1>2. OpenInv /\ [Open!Next]_(Open!vars) => OpenInv'
  BY FilesNext
<1> QED BY <1>1, <1>2, FilesInit, PTL DEF Open!Spec

-----------------------------------------------------------------------------
(* All components together.                                                *)

\* What is proved of a component holds of the specification that the runs check:
\* its behaviours are behaviours of every component.
THEOREM DeskIsItsParts ==
    Spec => Bus!Spec /\ Open!Spec /\ Plugins!Spec /\ Icons!Spec /\ Query!Spec /\ Rows!Spec
            /\ Scores!Spec
<1> DEFINE all == <<part, busVars, openVars, pluginVars, iconVars, queryVars, rowVars, scoreVars>>
<1>1. Init => /\ Bus!Init /\ Open!Init /\ Plugins!Init /\ Icons!Init /\ Query!Init /\ Rows!Init
              /\ Scores!Init
  BY Zenon DEF Init
<1>2. /\ UNCHANGED busVars => UNCHANGED Bus!vars
      /\ UNCHANGED openVars => UNCHANGED Open!vars
      /\ UNCHANGED pluginVars => UNCHANGED Plugins!vars
      /\ UNCHANGED iconVars => UNCHANGED Icons!vars
      /\ UNCHANGED queryVars => UNCHANGED Query!vars
      /\ UNCHANGED rowVars => UNCHANGED Rows!vars
      /\ UNCHANGED scoreVars => UNCHANGED Scores!vars
  BY Zenon DEF busVars, openVars, pluginVars, iconVars, queryVars, rowVars, scoreVars, Bus!vars,
               Open!vars, Plugins!vars, Icons!vars, Query!vars, Rows!vars, Scores!vars
<1>3. [Next]_all => [Bus!Next]_(Bus!vars)
  BY <1>2, Zenon DEF Next
<1>4. [Next]_all => [Open!Next]_(Open!vars)
  BY <1>2, Zenon DEF Next
<1>5. [Next]_all => [Plugins!Next]_(Plugins!vars)
  BY <1>2, Zenon DEF Next
<1>6. [Next]_all => [Icons!Next]_(Icons!vars)
  BY <1>2, Zenon DEF Next
<1>7. [Next]_all => [Query!Next]_(Query!vars)
  BY <1>2, Zenon DEF Next
<1>8. [Next]_all => [Rows!Next]_(Rows!vars)
  BY <1>2, Zenon DEF Next
<1>9. [Next]_all => [Scores!Next]_(Scores!vars)
  BY <1>2, Zenon DEF Next
<1> QED BY <1>1, <1>3, <1>4, <1>5, <1>6, <1>7, <1>8, <1>9, PTL
        DEF Spec, Bus!Spec, Open!Spec, Plugins!Spec, Icons!Spec, Query!Spec, Rows!Spec, Scores!Spec

\* So in whatever order the main thread's components are at work, each keeps in
\* step with what is outside it.
THEOREM DeskKeepsStep ==
    Spec => []( /\ TableMirrorsBus /\ OneLaunchPerName /\ OffersAreListed
                /\ StaleIsPending /\ CursorInText /\ RowsShowTheWindow)
BY DeskIsItsParts, TableFollowsBus, FilesReachHandlers, PluginsAreListed, StaleEntriesGo,
   CursorStaysInText, RowsShowWindow, PTL
=============================================================================
