----------------------------- MODULE RankingProofs -----------------------------
(* Theorems about Ranking, for any retrievers' lists, weights, scores, caps and contents: what an *)
(* ordered listing, the fusion, the cap per source, the numbering and the composition yield, and  *)
(* the query that goes through them.                                                             *)
EXTENDS Ranking, FiniteSetTheorems, SequenceTheorems, TLAPS

-----------------------------------------------------------------------------
(* Orders *)

StrictOrder(S, before) ==
  /\ \A x \in S : <<x, x>> \notin before
  /\ \A x, y, z \in S : <<x, y>> \in before /\ <<y, z>> \in before => <<x, z>> \in before
  /\ \A x, y \in S : x # y => <<x, y>> \in before \/ <<y, x>> \in before

\* list is S, each element once, in this order.
ListsAll(list, S, before) ==
  /\ list \in Seq(S) /\ Len(list) = Cardinality(S) /\ DOMAIN list = 1 .. Cardinality(S)
  /\ Cardinality(S) \in Nat
  /\ \A x \in S : \E i \in DOMAIN list : list[i] = x
  /\ \A i, j \in DOMAIN list : /\ list[i] = list[j] => i = j
                               /\ <<list[i], list[j]>> \in before <=> i < j

\* In a strict total order of a finite set, each place is that of one element.
LEMMA InOrderLists ==
  ASSUME NEW S, IsFiniteSet(S), NEW before, StrictOrder(S, before)
  PROVE  ListsAll(InOrder(S, before), S, before)
<1> DEFINE N == Cardinality(S)
           below(x) == {y \in S : <<y, x>> \in before}
           rank(x) == Cardinality(below(x))
           list == InOrder(S, before)
<1>1. N \in Nat
  BY FS_CardinalityType
<1> HIDE DEF N
<1>2. \A x \in S : IsFiniteSet(below(x)) /\ rank(x) \in Nat /\ rank(x) < N
  <2> SUFFICES ASSUME NEW x \in S
               PROVE  IsFiniteSet(below(x)) /\ rank(x) \in Nat /\ rank(x) < N
    OBVIOUS
  <2>1. below(x) \subseteq S /\ x \notin below(x)
    BY DEF StrictOrder
  <2> HIDE DEF below
  <2>2. IsFiniteSet(below(x)) /\ rank(x) <= N /\ rank(x) # N
    BY <2>1, FS_Subset DEF N
  <2>3. rank(x) \in Nat
    BY <2>2, FS_CardinalityType
  <2> HIDE DEF rank
  <2> QED
    BY <1>1, <2>2, <2>3
<1>3. \A x, y \in S : <<x, y>> \in before => rank(x) < rank(y)
  <2> SUFFICES ASSUME NEW x \in S, NEW y \in S, <<x, y>> \in before
               PROVE  rank(x) < rank(y)
    OBVIOUS
  <2>1. below(x) \subseteq below(y) /\ x \in below(y) /\ x \notin below(x)
    BY DEF StrictOrder
  <2>2. IsFiniteSet(below(y)) /\ rank(x) \in Nat /\ rank(y) \in Nat
    BY <1>1, <1>2
  <2> HIDE DEF below
  <2>3. rank(x) <= rank(y) /\ (rank(y) = rank(x) => below(y) = below(x))
    BY <2>1, <2>2, FS_Subset
  <2> HIDE DEF rank
  <2> QED
    BY <2>1, <2>2, <2>3
<1>4. \A n \in 1 .. N : \E x \in S : rank(x) = n - 1
  <2> DEFINE next(x) == rank(x) + 1
             place == [x \in S |-> next(x)]
  <2> HIDE DEF rank
  <2>1. place \in [S -> 1 .. N]
    <3> SUFFICES ASSUME NEW x \in S
                 PROVE  rank(x) + 1 \in 1 .. N
      OBVIOUS
    <3>1. rank(x) \in Nat /\ rank(x) < N
      BY <1>2
    <3> QED
      BY <1>1, <3>1
  <2>2. \A x, y \in S : place[x] = place[y] => x = y
    <3> SUFFICES ASSUME NEW x \in S, NEW y \in S, x # y, rank(x) + 1 = rank(y) + 1
                 PROVE  FALSE
      OBVIOUS
    <3>1. rank(x) < rank(y) \/ rank(y) < rank(x)
      BY <1>3 DEF StrictOrder
    <3>2. rank(x) \in Nat /\ rank(y) \in Nat
      BY <1>2
    <3> QED
      BY <3>1, <3>2
  <2>3. place \in Injection(S, 1 .. N)
    BY <2>1, <2>2 DEF Injection, IsInjective
  <2>4. IsFiniteSet(1 .. N) /\ Cardinality(1 .. N) = N
    BY <1>1, FS_Interval
  <2>5. place \in Surjection(S, 1 .. N)
    BY <2>3, <2>4, FS_Injection DEF N
  <2> HIDE DEF next, place
  <2>6. \A n \in 1 .. N : \E x \in S : place[x] = n
    BY <2>5 DEF Surjection
  <2> SUFFICES ASSUME NEW n \in 1 .. N
               PROVE  \E x \in S : rank(x) = n - 1
    OBVIOUS
  <2>7. PICK x \in S : rank(x) + 1 = n
    BY <2>6 DEF next, place
  <2>8. rank(x) \in Nat
    BY <1>2
  <2> QED
    BY <2>7, <2>8
<1>5. /\ DOMAIN list = 1 .. N /\ list = [n \in 1 .. N |-> list[n]]
      /\ \A n \in 1 .. N : list[n] \in S /\ rank(list[n]) = n - 1
  <2>1. list = [n \in 1 .. N |-> CHOOSE x \in S : rank(x) = n - 1]
    BY DEF InOrder, N
  <2> HIDE DEF list, rank
  <2> QED
    BY <1>4, <2>1
<1> HIDE DEF list, rank
<1>6. list \in Seq(S) /\ Len(list) = N
  <2>1. \A n \in 1 .. N : list[n] \in S
    BY <1>5
  <2>2. list \in [1 .. N -> S]
    BY <1>5, <2>1
  <2>3. list \in UNION {[1 .. n -> S] : n \in Nat}
    BY <1>1, <2>2
  <2>4. list \in Seq(S)
    BY <2>3, SeqDef
  <2>5. DOMAIN list = 1 .. Len(list) /\ Len(list) \in Nat
    BY <2>4, LenProperties
  <2> QED
    BY <1>1, <1>5, <2>4, <2>5
<1>7. \A x, y \in S : rank(x) = rank(y) => x = y
  <2> SUFFICES ASSUME NEW x \in S, NEW y \in S, x # y, rank(x) = rank(y)
               PROVE  FALSE
    OBVIOUS
  <2>1. rank(x) < rank(y) \/ rank(y) < rank(x)
    BY <1>3 DEF StrictOrder
  <2>2. rank(x) \in Nat /\ rank(y) \in Nat
    BY <1>2
  <2> QED
    BY <2>1, <2>2
<1>8. \A x \in S : \E i \in DOMAIN list : list[i] = x
  <2> SUFFICES ASSUME NEW x \in S
               PROVE  \E i \in DOMAIN list : list[i] = x
    OBVIOUS
  <2>1. rank(x) \in Nat /\ rank(x) < N
    BY <1>2
  <2>2. \E n \in 1 .. N : n - 1 = rank(x)
    <3> DEFINE n == rank(x) + 1
    <3>1. n \in 1 .. N /\ n - 1 = rank(x)
      BY <1>1, <2>1
    <3> HIDE DEF n
    <3> QED
      BY <3>1
  <2>3. PICK n \in 1 .. N : n - 1 = rank(x)
    BY <2>2
  <2>4. list[n] \in S /\ rank(list[n]) = rank(x)
    BY <1>5, <2>3
  <2> QED
    BY <1>5, <1>7, <2>4
<1>9. \A i, j \in DOMAIN list : list[i] = list[j] => i = j
  <2> SUFFICES ASSUME NEW i \in 1 .. N, NEW j \in 1 .. N, list[i] = list[j]
               PROVE  i = j
    BY <1>5
  <2>1. i - 1 = j - 1
    BY <1>5
  <2> QED
    BY <1>1, <2>1
<1>10. \A i, j \in DOMAIN list : <<list[i], list[j]>> \in before <=> i < j
  <2> SUFFICES ASSUME NEW i \in 1 .. N, NEW j \in 1 .. N
               PROVE  <<list[i], list[j]>> \in before <=> i < j
    BY <1>5
  <2>1. /\ list[i] \in S /\ list[j] \in S /\ rank(list[i]) = i - 1 /\ rank(list[j]) = j - 1
        /\ i \in Nat /\ j \in Nat
    BY <1>1, <1>5
  <2>2. <<list[i], list[j]>> \in before => i < j
    BY <1>3, <2>1
  <2>3. <<list[j], list[i]>> \in before => j < i
    BY <1>3, <2>1
  <2>4. i < j => <<list[i], list[j]>> \in before
    <3> SUFFICES ASSUME i < j
                 PROVE  <<list[i], list[j]>> \in before
      OBVIOUS
    <3>1. list[i] # list[j] /\ ~(j < i)
      BY <2>1
    <3> QED
      BY <2>1, <2>3, <3>1 DEF StrictOrder
  <2> QED
    BY <2>2, <2>4
<1> QED
  BY <1>1, <1>5, <1>6, <1>8, <1>9, <1>10 DEF ListsAll, N, list

\* The first n of a list.
LEMMA FirstOfList ==
  ASSUME NEW S, NEW s \in Seq(S), NEW n \in Nat
  PROVE  /\ FirstOf(s, n) \in Seq(S) /\ Len(FirstOf(s, n)) = Smaller(n, Len(s))
         /\ DOMAIN FirstOf(s, n) = 1 .. Smaller(n, Len(s))
         /\ Smaller(n, Len(s)) \in Nat /\ Smaller(n, Len(s)) <= n /\ Smaller(n, Len(s)) <= Len(s)
         /\ DOMAIN FirstOf(s, n) \subseteq DOMAIN s
         /\ \A i \in DOMAIN FirstOf(s, n) : FirstOf(s, n)[i] = s[i]
<1> DEFINE k == Smaller(n, Len(s))
<1>1. Len(s) \in Nat /\ DOMAIN s = 1 .. Len(s)
  BY LenProperties
<1>2. k \in Nat /\ k <= n /\ k <= Len(s) /\ k \in 0 .. Len(s)
  BY <1>1 DEF Smaller
<1> HIDE DEF k
<1>3. \A i \in 1 .. k : s[i] \in S
  BY <1>1, <1>2, ElementOfSeq
<1>4. FirstOf(s, n) = SubSeq(s, 1, k)
  BY DEF FirstOf, k
<1>5. /\ SubSeq(s, 1, k) \in Seq(S) /\ Len(SubSeq(s, 1, k)) = IF 1 <= k THEN k - 1 + 1 ELSE 0
      /\ \A i \in 1 .. k - 1 + 1 : SubSeq(s, 1, k)[i] = s[1 + i - 1]
  BY <1>2, <1>3, SubSeqProperties
<1>6. Len(FirstOf(s, n)) = k
  BY <1>2, <1>4, <1>5
<1>7. \A i \in 1 .. k : FirstOf(s, n)[i] = s[i]
  <2> SUFFICES ASSUME NEW i \in 1 .. k
               PROVE  FirstOf(s, n)[i] = s[i]
    OBVIOUS
  <2>1. i \in 1 .. k - 1 + 1 /\ 1 + i - 1 = i
    BY <1>2
  <2> QED
    BY <1>4, <1>5, <2>1
<1>8. DOMAIN FirstOf(s, n) = 1 .. k
  BY <1>4, <1>5, <1>6, LenProperties
<1> QED
  BY <1>1, <1>2, <1>4, <1>5, <1>6, <1>7, <1>8 DEF k

\* The least of a finite set in a strict total order.
LEMMA LeastOf ==
  ASSUME NEW S, IsFiniteSet(S), S # {}, NEW before, StrictOrder(S, before)
  PROVE  \E x \in S : \A y \in S : y = x \/ <<x, y>> \in before
<1> DEFINE list == InOrder(S, before)
<1>1. ListsAll(list, S, before)
  BY InOrderLists
<1> HIDE DEF list
<1>2. Cardinality(S) \in Nat /\ Cardinality(S) # 0
  BY FS_CardinalityType, FS_EmptySet
<1>3. 1 \in DOMAIN list /\ list[1] \in S
  BY <1>1, <1>2, ElementOfSeq DEF ListsAll
<1>4. ASSUME NEW y \in S
      PROVE  y = list[1] \/ <<list[1], y>> \in before
  <2>1. PICK j \in DOMAIN list : list[j] = y
    BY <1>1 DEF ListsAll
  <2>2. j = 1 \/ 1 < j
    BY <1>1, <1>2 DEF ListsAll
  <2> QED
    BY <1>1, <1>3, <2>1, <2>2 DEF ListsAll
<1> QED
  BY <1>3, <1>4

Smallers(S) == {p \in S \X S : p[1] < p[2]}

LEMMA NaturalsInOrder ==
  ASSUME NEW S, S \subseteq Nat
  PROVE  /\ StrictOrder(S, Smallers(S))
         /\ \A i, j \in S : <<i, j>> \in Smallers(S) <=> i < j
<1>1. \A i, j \in S : <<i, j>> \in Smallers(S) <=> i < j
  BY DEF Smallers
<1>2. \A i \in S : ~(i < i)
  OBVIOUS
<1>3. \A i, j, k \in S : i < j /\ j < k => i < k
  OBVIOUS
<1>4. \A i, j \in S : i # j => i < j \/ j < i
  OBVIOUS
<1> QED
  BY <1>1, <1>2, <1>3, <1>4 DEF StrictOrder

LEMMA UpTo ==
  ASSUME NEW n \in Nat
  PROVE  /\ IsFiniteSet(1 .. n) /\ Cardinality(1 .. n) = n
         /\ \A S : S \subseteq 1 .. n => IsFiniteSet(S) /\ S \subseteq Nat
<1>1. IsFiniteSet(1 .. n) /\ Cardinality(1 .. n) = n
  BY FS_Interval
<1> QED
  BY <1>1, FS_Subset

LEMMA LeastNatural ==
  ASSUME NEW S, S \subseteq Nat, IsFiniteSet(S), S # {}
  PROVE  \E i \in S : \A j \in S : i <= j
<1>1. PICK i \in S : \A j \in S : j = i \/ <<i, j>> \in Smallers(S)
  BY LeastOf, NaturalsInOrder
<1>2. \A j \in S : j = i \/ i < j
  BY <1>1, NaturalsInOrder
<1>3. \A j \in S : i <= j
  BY <1>2
<1> QED
  BY <1>3

-----------------------------------------------------------------------------
(* Fusion *)

AllAnswered ==
  /\ plan.modes \subseteq Modes /\ DOMAIN ranked = plan.modes
  /\ \A m \in plan.modes : ranked[m] \in Seq(HitsBy[m]) /\ Len(ranked[m]) <= Depth

\* The best place of a key in a list, and the hit that is there.
LEMMA BestPlace ==
  ASSUME AllAnswered, NEW key, NEW m \in FoundBy(key)
  PROVE  /\ m \in Modes /\ m \in plan.modes
         /\ Best(m, key) \in Places(m, key) /\ Best(m, key) \in 1 .. Depth
         /\ \A j \in Places(m, key) : Best(m, key) <= j
         /\ ranked[m][Best(m, key)] \in Hits /\ KeyOf[ranked[m][Best(m, key)]] = key
<1>1. /\ m \in Modes /\ m \in plan.modes /\ Places(m, key) # {}
      /\ ranked[m] \in Seq(HitsBy[m]) /\ Len(ranked[m]) <= Depth /\ HitsBy[m] \subseteq Hits
      /\ Depth \in Nat
  BY RankingAssumption DEF AllAnswered, FoundBy
<1>2. /\ DOMAIN ranked[m] = 1 .. Len(ranked[m]) /\ Len(ranked[m]) \in Nat
      /\ Places(m, key) \subseteq 1 .. Len(ranked[m])
  BY <1>1, LenProperties DEF Places
<1>3. IsFiniteSet(Places(m, key)) /\ Places(m, key) \subseteq Nat
  BY <1>2, UpTo
<1>4. \E i \in Places(m, key) : \A j \in Places(m, key) : i <= j
  BY <1>1, <1>3, LeastNatural
<1>5. Best(m, key) \in Places(m, key) /\ \A j \in Places(m, key) : Best(m, key) <= j
  BY <1>4 DEF Best
<1>6. Best(m, key) \in 1 .. Len(ranked[m])
  BY <1>2, <1>5
<1>7. Best(m, key) \in 1 .. Depth
  BY <1>1, <1>2, <1>6
<1>8. ranked[m][Best(m, key)] \in Hits
  BY <1>1, <1>6, ElementOfSeq
<1> QED
  BY <1>1, <1>5, <1>7, <1>8 DEF Places

LEMMA FoundSomewhere ==
  ASSUME AllAnswered, NEW key \in Found
  PROVE  FoundBy(key) # {}
<1>1. PICK m \in plan.modes : \E h \in Elements(ranked[m]) : key = KeyOf[h]
  BY DEF Found
<1>2. PICK i \in DOMAIN ranked[m] : key = KeyOf[ranked[m][i]]
  BY <1>1 DEF Elements
<1> QED
  BY <1>2 DEF FoundBy, Places

LEMMA BestPlaceOfAll ==
  ASSUME AllAnswered, NEW key \in Found
  PROVE  /\ BestOfAll(key) \in Nat
         /\ \E m \in FoundBy(key) : Best(m, key) = BestOfAll(key)
<1> DEFINE bests == {Best(m, key) : m \in FoundBy(key)}
<1>1. bests \subseteq 1 .. Depth /\ bests # {}
  BY BestPlace, FoundSomewhere
<1>2. IsFiniteSet(bests) /\ bests \subseteq Nat
  <2>1. Depth \in Nat
    BY RankingAssumption
  <2> HIDE DEF bests
  <2> QED
    BY <1>1, <2>1, UpTo
<1>3. \E i \in bests : \A j \in bests : i <= j
  <2> HIDE DEF bests
  <2> QED
    BY <1>1, <1>2, LeastNatural
<1>4. BestOfAll(key) \in bests
  BY <1>3 DEF BestOfAll
<1> QED
  BY <1>2, <1>4

\* A window of the document, or else its hit of the best rank: in any case one of its own.
LEMMA ShownIsOfKey ==
  ASSUME AllAnswered, NEW key \in Found
  PROVE  Shown(key) \in Hits /\ KeyOf[Shown(key)] = key
<1> DEFINE modes == IF "window" \in FoundBy(key) THEN {"window"}
                    ELSE {m \in FoundBy(key) : Best(m, key) = BestOfAll(key)}
<1>1. modes \subseteq FoundBy(key) /\ modes # {}
  BY BestPlaceOfAll
<1>2. Shown(key) = CHOOSE h \in Hits : \E m \in modes : h = ranked[m][Best(m, key)]
  BY DEF Shown
<1> HIDE DEF modes
<1>3. \E h \in Hits : \E m \in modes : h = ranked[m][Best(m, key)]
  BY <1>1, BestPlace
<1>4. Shown(key) \in Hits /\ \E m \in modes : Shown(key) = ranked[m][Best(m, key)]
  BY <1>2, <1>3
<1> QED
  BY <1>1, <1>4, BestPlace

LEMMA FoundAreHits ==
  ASSUME AllAnswered
  PROVE  \A key \in Found : \E h \in Hits : key = KeyOf[h]
BY ShownIsOfKey

LEMMA FoundIsFinite ==
  ASSUME AllAnswered
  PROVE  IsFiniteSet(Found)
<1> DEFINE keysOf(m) == IF m \in plan.modes THEN {KeyOf[h] : h \in Elements(ranked[m])} ELSE {}
<1>1. ASSUME NEW m
      PROVE  IsFiniteSet(keysOf(m))
  <2>1. CASE m \in plan.modes
    <3> DEFINE key == [i \in 1 .. Len(ranked[m]) |-> KeyOf[ranked[m][i]]]
    <3>1. DOMAIN ranked[m] = 1 .. Len(ranked[m]) /\ Len(ranked[m]) \in Nat
      BY <2>1, LenProperties DEF AllAnswered
    <3>2. keysOf(m) = {key[i] : i \in 1 .. Len(ranked[m])}
      BY <2>1, <3>1 DEF Elements
    <3>3. key \in [1 .. Len(ranked[m]) -> keysOf(m)]
      BY <3>2
    <3>4. IsFiniteSet(1 .. Len(ranked[m]))
      BY <3>1, UpTo
    <3> HIDE DEF key, keysOf
    <3>5. key \in Surjection(1 .. Len(ranked[m]), keysOf(m))
      BY <3>2, <3>3 DEF Surjection
    <3> QED
      BY <3>4, <3>5, FS_Surjection
  <2>2. CASE m \notin plan.modes
    BY <2>2, FS_EmptySet
  <2> QED
    BY <2>1, <2>2
<1>2. Found \subseteq (keysOf("vector") \cup keysOf("window")) \cup (keysOf("lexical") \cup keysOf("graph"))
  <2>1. plan.modes \subseteq {"vector", "window", "lexical", "graph"}
    BY RankingAssumption DEF AllAnswered
  <2>2. \A k \in Found : \E m \in plan.modes : k \in keysOf(m)
    BY DEF Found
  <2> HIDE DEF keysOf
  <2> QED
    BY <2>1, <2>2
<1> HIDE DEF keysOf
<1>3. /\ IsFiniteSet(keysOf("vector") \cup keysOf("window"))
      /\ IsFiniteSet(keysOf("lexical") \cup keysOf("graph"))
  BY <1>1, FS_Union
<1> QED
  BY <1>2, <1>3, FS_Union, FS_Subset

\* A better rank counts more.
LEMMA Reciprocals ==
  /\ \A i \in 1 .. Depth : Unit \div (FusionK + i) \in Nat /\ Unit \div (FusionK + i) >= 1
  /\ \A i, j \in 1 .. Depth : i < j => Unit \div (FusionK + j) < Unit \div (FusionK + i)
<1>1. /\ FusionK \in Nat /\ FusionK >= 1 /\ Unit \in Nat /\ Unit >= 1 /\ Depth \in Nat
      /\ \A i \in 1 .. Depth : Unit % (FusionK + i) = 0
  BY RankingAssumption
<1>2. ASSUME NEW i \in 1 .. Depth
      PROVE  /\ Unit \div (FusionK + i) \in Nat /\ Unit \div (FusionK + i) >= 1
             /\ Unit = (FusionK + i) * (Unit \div (FusionK + i))
  <2> DEFINE d == FusionK + i
             q == Unit \div d
  <2>1. d \in Nat /\ d >= 1 /\ Unit % d = 0
    BY <1>1
  <2> HIDE DEF d
  <2>2. q \in Int /\ Unit = d * q + (Unit % d)
    BY <1>1, <2>1
  <2>3. Unit = d * q
    BY <1>1, <2>1, <2>2
  <2>4. q >= 1
    <3>1. CASE q <= 0
      <4>1. d * q <= 0
        BY <2>1, <2>2, <3>1
      <4> QED
        BY <1>1, <2>3, <4>1
    <3> QED
      BY <2>2, <3>1
  <2> QED
    BY <2>2, <2>3, <2>4 DEF d
<1>3. ASSUME NEW i \in 1 .. Depth, NEW j \in 1 .. Depth, i < j
      PROVE  Unit \div (FusionK + j) < Unit \div (FusionK + i)
  <2> DEFINE p == Unit \div (FusionK + i)
             q == Unit \div (FusionK + j)
             c == FusionK + i
             d == FusionK + j
  <2>1. p \in Nat /\ q \in Nat /\ q >= 1 /\ c * p = d * q
    BY <1>2
  <2>2. c \in Nat /\ d \in Nat /\ c < d
    BY <1>1, <1>3
  <2> HIDE DEF p, q, c, d
  <2>3. c * q < d * q
    <3>1. d * q = c * q + (d - c) * q /\ (d - c) * q >= 1
      BY <2>1, <2>2
    <3> QED
      BY <2>1, <2>2, <3>1
  <2>4. p <= q => c * p <= c * q
    BY <2>1, <2>2
  <2>5. c * q \in Nat /\ c * p \in Nat /\ d * q \in Nat
    BY <2>1, <2>2
  <2>6. ~(p <= q)
    BY <2>1, <2>3, <2>4, <2>5
  <2> QED
    BY <2>1, <2>6 DEF p, q
<1> QED
  BY <1>2, <1>3

LEMMA WeightsCount ==
  ASSUME AllAnswered, plan.weighted \in BOOLEAN, NEW m \in plan.modes
  PROVE  Weight(m) \in Nat
BY RankingAssumption DEF Weight, AllAnswered

LEMMA ProductGrows ==
  ASSUME NEW w \in Nat, NEW p \in Nat, NEW q \in Nat, p < q
  PROVE  /\ w * p \in Nat /\ w * q \in Nat /\ w * p <= w * q
         /\ w > 0 => w * p < w * q
<1>1. w * q = w * p + w * (q - p) /\ w * p \in Nat /\ w * (q - p) \in Nat
  OBVIOUS
<1>2. w > 0 => w * (q - p) >= 1
  OBVIOUS
<1> QED
  BY <1>1, <1>2

LEMMA ContributionsCount ==
  ASSUME AllAnswered, plan.weighted \in BOOLEAN, NEW m, NEW key
  PROVE  Contribution(m, key) \in Nat
<1>1. CASE m \in FoundBy(key)
  <2>1. Weight(m) \in Nat /\ Unit \div (FusionK + Best(m, key)) \in Nat
    BY <1>1, BestPlace, WeightsCount, Reciprocals
  <2> DEFINE q == Unit \div (FusionK + Best(m, key))
  <2>2. Contribution(m, key) = Weight(m) * q
    BY <1>1 DEF Contribution
  <2> HIDE DEF q
  <2>3. q \in Nat
    BY <2>1 DEF q
  <2> QED
    BY <2>1, <2>2, <2>3
<1>2. CASE m \notin FoundBy(key)
  BY <1>2 DEF Contribution
<1> QED
  BY <1>1, <1>2

LEMMA ScoresCount ==
  ASSUME AllAnswered, plan.weighted \in BOOLEAN
  PROVE  \A key : Fused(key) \in Nat
<1> SUFFICES ASSUME NEW key
             PROVE  Fused(key) \in Nat
  OBVIOUS
<1>1. /\ Contribution("vector", key) \in Nat /\ Contribution("window", key) \in Nat
      /\ Contribution("lexical", key) \in Nat /\ Contribution("graph", key) \in Nat
  BY ContributionsCount
<1> QED
  BY <1>1 DEF Fused

\* What a key contributes to no retriever less, and to one of them more, scores higher.
LEMMA DominationCounts ==
  ASSUME AllAnswered, plan.weighted \in BOOLEAN, NEW a, NEW b, Dominates(a, b)
  PROVE  Fused(a) > Fused(b)
<1> DEFINE share(m, key) == Contribution(m, key)
<1>1. \A m, key : share(m, key) \in Nat
  BY ContributionsCount
<1>2. ASSUME NEW m
      PROVE  share(m, b) <= share(m, a)
  <2>1. CASE m \notin FoundBy(b)
    <3>1. share(m, b) = 0
      BY <2>1 DEF Contribution
    <3> QED
      BY <1>1, <3>1
  <2>2. CASE m \in FoundBy(b)
    <3>1. /\ m \in FoundBy(a) /\ Best(m, a) <= Best(m, b) /\ Weight(m) \in Nat
          /\ Best(m, a) \in 1 .. Depth /\ Best(m, b) \in 1 .. Depth
      BY <2>2, BestPlace, WeightsCount DEF Dominates
    <3>2. Best(m, a) = Best(m, b) \/ Best(m, a) < Best(m, b)
      BY <3>1
    <3> DEFINE p == Unit \div (FusionK + Best(m, b))
               q == Unit \div (FusionK + Best(m, a))
    <3>3. share(m, b) = Weight(m) * p /\ share(m, a) = Weight(m) * q
      BY <2>2, <3>1 DEF Contribution
    <3>4. p \in Nat /\ q \in Nat /\ (p = q \/ p < q)
      BY <3>1, <3>2, Reciprocals
    <3> HIDE DEF p, q, share
    <3> QED
      BY <1>1, <3>1, <3>3, <3>4, ProductGrows
  <2> QED
    BY <2>1, <2>2
<1>3. PICK m : m \in {"vector", "window", "lexical", "graph"} /\ share(m, b) < share(m, a)
  <2>1. PICK m \in FoundBy(a) : Weight(m) > 0 /\ (m \in FoundBy(b) => Best(m, a) < Best(m, b))
    BY DEF Dominates
  <2>2. /\ m \in {"vector", "window", "lexical", "graph"} /\ Weight(m) \in Nat
        /\ Best(m, a) \in 1 .. Depth
    BY <2>1, BestPlace, WeightsCount, RankingAssumption
  <2> DEFINE q == Unit \div (FusionK + Best(m, a))
  <2>3. share(m, a) = Weight(m) * q
    BY <2>1 DEF Contribution
  <2>4. q \in Nat /\ q >= 1
    BY <2>2, Reciprocals
  <2>5. CASE m \in FoundBy(b)
    <3> DEFINE p == Unit \div (FusionK + Best(m, b))
    <3>1. Best(m, b) \in 1 .. Depth /\ Best(m, a) < Best(m, b)
      BY <2>1, <2>5, BestPlace
    <3>2. share(m, b) = Weight(m) * p /\ p \in Nat /\ p < q
      BY <2>2, <2>5, <3>1, Reciprocals DEF Contribution
    <3> HIDE DEF p, q, share
    <3>3. share(m, b) < share(m, a)
      BY <2>1, <2>2, <2>3, <2>4, <3>2, ProductGrows
    <3> QED
      BY <2>2, <3>3
  <2>6. CASE m \notin FoundBy(b)
    <3>1. share(m, b) = 0
      BY <2>6 DEF Contribution
    <3> HIDE DEF q, share
    <3>2. Weight(m) * q > 0
      <4>1. 0 \in Nat /\ 0 < q /\ Weight(m) * 0 = 0
        BY <2>2, <2>4
      <4> QED
        BY <2>1, <2>2, <2>4, <4>1, ProductGrows
    <3> QED
      BY <2>2, <2>3, <3>1, <3>2
  <2> QED
    BY <2>5, <2>6
<1> HIDE DEF share
<1>4. share("vector", a) + share("window", a) + share("lexical", a) + share("graph", a)
      > share("vector", b) + share("window", b) + share("lexical", b) + share("graph", b)
  <2>1. /\ share("vector", a) \in Nat /\ share("window", a) \in Nat
        /\ share("lexical", a) \in Nat /\ share("graph", a) \in Nat
        /\ share("vector", b) \in Nat /\ share("window", b) \in Nat
        /\ share("lexical", b) \in Nat /\ share("graph", b) \in Nat
    BY <1>1
  <2>2. /\ share("vector", b) <= share("vector", a) /\ share("window", b) <= share("window", a)
        /\ share("lexical", b) <= share("lexical", a) /\ share("graph", b) <= share("graph", a)
    BY <1>2
  <2>3. \/ share("vector", b) < share("vector", a) \/ share("window", b) < share("window", a)
        \/ share("lexical", b) < share("lexical", a) \/ share("graph", b) < share("graph", a)
    BY <1>3
  <2> QED
    BY <2>1, <2>2, <2>3
<1> QED
  BY <1>4 DEF share, Fused

AheadPairs == {p \in Scored \X Scored : Ahead(p[1], p[2])}

LEMMA AheadIsAnOrder ==
  ASSUME AllAnswered, plan.weighted \in BOOLEAN
  PROVE  /\ IsFiniteSet(Scored) /\ StrictOrder(Scored, AheadPairs)
         /\ \A a, b \in Scored : <<a, b>> \in AheadPairs <=> Ahead(a, b)
<1>1. IsFiniteSet(Scored) /\ Scored \subseteq Found
  <2>1. Scored \subseteq Found
    BY DEF Scored
  <2> QED
    BY <2>1, FoundIsFinite, FS_Subset
<1>2. \A a, b \in Scored : <<a, b>> \in AheadPairs <=> Ahead(a, b)
  BY DEF AheadPairs
<1>a. \A h, g \in Hits :
        /\ KeyRank[KeyOf[h]] \in Nat
        /\ KeyRank[KeyOf[h]] = KeyRank[KeyOf[g]] => KeyOf[h] = KeyOf[g]
  BY RankingAssumption
<1>b. \A a \in Scored : \E h \in Hits : a = KeyOf[h]
  BY <1>1, FoundAreHits
<1>c. \A a \in Scored : KeyRank[a] \in Nat
  BY <1>a, <1>b
<1>3. \A a \in Scored : Fused(a) \in Nat /\ BestOfAll(a) \in Nat /\ KeyRank[a] \in Nat
  BY <1>1, <1>c, ScoresCount, BestPlaceOfAll
<1>4. \A a, b \in Scored : KeyRank[a] = KeyRank[b] => a = b
  BY <1>a, <1>b
<1>5. \A a \in Scored : ~Ahead(a, a)
  BY <1>3 DEF Ahead
<1>6. ASSUME NEW a \in Scored, NEW b \in Scored, NEW c \in Scored, Ahead(a, b), Ahead(b, c)
      PROVE  Ahead(a, c)
  <2>1. /\ Fused(a) \in Nat /\ BestOfAll(a) \in Nat /\ KeyRank[a] \in Nat
        /\ Fused(b) \in Nat /\ BestOfAll(b) \in Nat /\ KeyRank[b] \in Nat
        /\ Fused(c) \in Nat /\ BestOfAll(c) \in Nat /\ KeyRank[c] \in Nat
    BY <1>3
  <2> QED
    BY <1>6, <2>1 DEF Ahead
<1>7. ASSUME NEW a \in Scored, NEW b \in Scored, a # b
      PROVE  Ahead(a, b) \/ Ahead(b, a)
  <2>1. /\ Fused(a) \in Nat /\ BestOfAll(a) \in Nat /\ KeyRank[a] \in Nat
        /\ Fused(b) \in Nat /\ BestOfAll(b) \in Nat /\ KeyRank[b] \in Nat
        /\ KeyRank[a] # KeyRank[b]
    BY <1>3, <1>4, <1>7
  <2> QED
    BY <2>1 DEF Ahead
<1>8. StrictOrder(Scored, AheadPairs)
  BY <1>2, <1>5, <1>6, <1>7 DEF StrictOrder
<1> QED
  BY <1>1, <1>2, <1>8

\* The keys that are kept: those with a score, each once, up to a place in the order.
LEMMA KeysInOrder ==
  ASSUME AllAnswered, plan.weighted \in BOOLEAN
  PROVE  /\ Keys \in Seq(Scored) /\ DOMAIN Keys = 1 .. Len(Keys) /\ Len(Keys) \in Nat /\ Len(Keys) <= Wanted
         /\ \A i \in DOMAIN Keys : Keys[i] \in Scored
         /\ \A i, j \in DOMAIN Keys : Keys[i] = Keys[j] => i = j
         /\ \A a \in Scored, j \in DOMAIN Keys : Ahead(a, Keys[j]) => \E i \in 1 .. j - 1 : Keys[i] = a
<1> DEFINE list == InOrder(Scored, AheadPairs)
<1>1. ListsAll(list, Scored, AheadPairs)
  BY AheadIsAnOrder, InOrderLists
<1>2. Keys = FirstOf(list, Wanted)
  BY DEF Keys, Ordered, AheadPairs
<1>3. Wanted \in Nat
  BY RankingAssumption DEF Wanted
<1> HIDE DEF list
<1>4. list \in Seq(Scored) /\ DOMAIN list = 1 .. Cardinality(Scored) /\ Cardinality(Scored) \in Nat
  BY <1>1 DEF ListsAll
<1>5. /\ Keys \in Seq(Scored) /\ DOMAIN Keys \subseteq DOMAIN list
      /\ \A i \in DOMAIN Keys : Keys[i] = list[i]
      /\ Len(Keys) = Smaller(Wanted, Len(list)) /\ Smaller(Wanted, Len(list)) <= Wanted
  BY <1>2, <1>3, <1>4, FirstOfList
<1>6. DOMAIN Keys = 1 .. Len(Keys) /\ Len(Keys) \in Nat
  BY <1>5, LenProperties
<1>7. \A i \in DOMAIN Keys : Keys[i] \in Scored
  BY <1>5, <1>6, ElementOfSeq
<1>8. \A i, j \in DOMAIN Keys : Keys[i] = Keys[j] => i = j
  BY <1>1, <1>5 DEF ListsAll
<1>9. ASSUME NEW a \in Scored, NEW j \in DOMAIN Keys, Ahead(a, Keys[j])
      PROVE  \E i \in 1 .. j - 1 : Keys[i] = a
  <2>1. PICK i \in DOMAIN list : list[i] = a
    BY <1>1 DEF ListsAll
  <2>2. <<list[i], list[j]>> \in AheadPairs /\ j \in DOMAIN list
    BY <1>5, <1>7, <1>9, <2>1, AheadIsAnOrder
  <2>3. i < j
    BY <1>1, <2>2 DEF ListsAll
  <2>4. i \in 1 .. j - 1 /\ i \in DOMAIN Keys
    BY <1>4, <1>6, <2>1, <2>2, <2>3
  <2> QED
    BY <1>5, <2>1, <2>4
<1> QED
  BY <1>5, <1>6, <1>7, <1>8, <1>9

LEMMA FusedHitsAreFair ==
  ASSUME AllAnswered, plan.weighted \in BOOLEAN
  PROVE  /\ FusedHits \in Seq(Hits) /\ DOMAIN FusedHits = 1 .. Len(FusedHits) /\ Len(FusedHits) \in Nat
         /\ Len(FusedHits) <= Wanted
         /\ \A i, j \in DOMAIN FusedHits : KeyOf[FusedHits[i]] = KeyOf[FusedHits[j]] => i = j
         /\ \A a \in Found, j \in DOMAIN FusedHits :
              Dominates(a, KeyOf[FusedHits[j]]) => \E i \in 1 .. j - 1 : KeyOf[FusedHits[i]] = a
<1>1. \A i \in DOMAIN Keys : /\ Keys[i] \in Scored /\ Keys[i] \in Found
                             /\ Shown(Keys[i]) \in Hits /\ KeyOf[Shown(Keys[i])] = Keys[i]
  BY KeysInOrder, ShownIsOfKey DEF Scored
<1>2. /\ DOMAIN FusedHits = DOMAIN Keys
      /\ \A i \in DOMAIN Keys : FusedHits[i] = Shown(Keys[i])
  BY DEF FusedHits
<1>3. FusedHits \in Seq(Hits) /\ Len(FusedHits) = Len(Keys)
  <2> DEFINE n == Len(Keys)
  <2>1. n \in Nat /\ DOMAIN Keys = 1 .. n
    BY KeysInOrder
  <2> HIDE DEF n
  <2>2. FusedHits \in [1 .. n -> Hits]
    BY <1>1, <2>1 DEF FusedHits
  <2>3. FusedHits \in UNION {[1 .. k -> Hits] : k \in Nat}
    BY <2>1, <2>2
  <2>4. FusedHits \in Seq(Hits)
    BY <2>3, SeqDef
  <2>5. DOMAIN FusedHits = 1 .. Len(FusedHits) /\ Len(FusedHits) \in Nat
    BY <2>4, LenProperties
  <2>6. Len(FusedHits) = n
    BY <1>2, <2>1, <2>5
  <2> QED
    BY <2>4, <2>6 DEF n
<1>4. \A i \in DOMAIN FusedHits : KeyOf[FusedHits[i]] = Keys[i]
  BY <1>1, <1>2
<1>5. ASSUME NEW a \in Found, NEW j \in DOMAIN FusedHits, Dominates(a, KeyOf[FusedHits[j]])
      PROVE  \E i \in 1 .. j - 1 : KeyOf[FusedHits[i]] = a
  <2>1. Fused(a) > Fused(Keys[j]) /\ j \in DOMAIN Keys
    BY <1>2, <1>4, <1>5, DominationCounts
  <2>2. Fused(a) \in Nat /\ Fused(Keys[j]) \in Nat
    BY ScoresCount
  <2>3. a \in Scored /\ Ahead(a, Keys[j])
    BY <2>1, <2>2 DEF Scored, Ahead
  <2>4. PICK i \in 1 .. j - 1 : Keys[i] = a
    BY <2>1, <2>3, KeysInOrder
  <2>5. DOMAIN Keys = 1 .. Len(Keys) /\ Len(Keys) \in Nat
    BY KeysInOrder
  <2>6. i \in DOMAIN FusedHits
    BY <1>2, <2>1, <2>5
  <2> QED
    BY <1>4, <2>4, <2>6
<1> QED
  BY <1>2, <1>3, <1>4, <1>5, KeysInOrder

-----------------------------------------------------------------------------
(* Re-ranking *)

Once(s) == \A i, j \in DOMAIN s : s[i] = s[j] => i = j

\* s holds the hits of t, each once, in some order.
Rearranges(s, t) ==
  /\ s \in Seq(Hits) /\ Len(s) = Len(t) /\ DOMAIN s = DOMAIN t /\ Once(s)
  /\ Elements(s) = Elements(t)

\* A list of places that has each of them once.
Permutes(order, t) ==
  /\ DOMAIN order = DOMAIN t /\ Once(order)
  /\ \A i \in DOMAIN order : order[i] \in DOMAIN t
  /\ \A p \in DOMAIN t : \E i \in DOMAIN order : order[i] = p

LEMMA PermutedHits ==
  ASSUME NEW t \in Seq(Hits), Once(t), NEW order, Permutes(order, t)
  PROVE  Rearranges([p \in DOMAIN order |-> t[order[p]]], t)
<1> DEFINE n == Len(t)
           s == [p \in DOMAIN order |-> t[order[p]]]
<1>1. n \in Nat /\ DOMAIN t = 1 .. n /\ DOMAIN s = 1 .. n
  BY LenProperties DEF Permutes
<1>2. \A p \in 1 .. n : s[p] = t[order[p]] /\ order[p] \in DOMAIN t /\ s[p] \in Hits
  BY <1>1, ElementOfSeq DEF Permutes
<1> HIDE DEF n
<1>3. s \in Seq(Hits)
  <2>1. s \in [1 .. n -> Hits]
    BY <1>1, <1>2
  <2>2. s \in UNION {[1 .. k -> Hits] : k \in Nat}
    BY <1>1, <2>1
  <2> QED
    BY <2>2, SeqDef
<1> HIDE DEF s
<1>4. Len(s) = n
  <2>1. DOMAIN s = 1 .. Len(s) /\ Len(s) \in Nat
    BY <1>3, LenProperties
  <2> QED
    BY <1>1, <2>1
<1>5. Once(s)
  BY <1>1, <1>2 DEF Once, Permutes
<1>6. Elements(s) = Elements(t)
  <2>1. Elements(s) \subseteq Elements(t)
    BY <1>1, <1>2 DEF Elements
  <2>2. Elements(t) \subseteq Elements(s)
    BY <1>1, <1>2 DEF Elements, Permutes
  <2> QED
    BY <2>1, <2>2
<1> QED
  BY <1>1, <1>3, <1>4, <1>5, <1>6 DEF Rearranges, s, n

LEMMA RelevanceRearranges ==
  ASSUME candidates \in Seq(Hits), Once(candidates), NEW score \in [DOMAIN candidates -> Relevance]
  PROVE  Rearranges(MostRelevant(score), candidates)
<1> DEFINE S == DOMAIN candidates
           pairs == {p \in S \X S : MoreRelevant(score, p[1], p[2])}
           order == InOrder(S, pairs)
<1>1. S = 1 .. Len(candidates) /\ Len(candidates) \in Nat
  BY LenProperties
<1>2. MostRelevant(score) = [p \in DOMAIN order |-> candidates[order[p]]]
  BY DEF MostRelevant, Ordered
<1>3. \A i, j \in S : <<i, j>> \in pairs <=> MoreRelevant(score, i, j)
  OBVIOUS
<1>4. \A i \in S : score[i] \in Int /\ i \in Nat
  <2>1. Relevance \subseteq Int
    BY RankingAssumption
  <2>2. \A i \in S : score[i] \in Relevance
    OBVIOUS
  <2>3. S \subseteq Nat
    BY <1>1
  <2> HIDE DEF S
  <2> QED
    BY <2>1, <2>2, <2>3
<1> HIDE DEF pairs
<1>5. StrictOrder(S, pairs)
  <2>1. \A i \in S : ~MoreRelevant(score, i, i)
    BY <1>4 DEF MoreRelevant
  <2>2. ASSUME NEW i \in S, NEW j \in S, NEW k \in S, MoreRelevant(score, i, j), MoreRelevant(score, j, k)
        PROVE  MoreRelevant(score, i, k)
    <3>1. /\ score[i] \in Int /\ score[j] \in Int /\ score[k] \in Int
          /\ i \in Nat /\ j \in Nat /\ k \in Nat
      BY <1>4
    <3> QED
      BY <2>2, <3>1 DEF MoreRelevant
  <2>3. ASSUME NEW i \in S, NEW j \in S, i # j
        PROVE  MoreRelevant(score, i, j) \/ MoreRelevant(score, j, i)
    <3>1. score[i] \in Int /\ score[j] \in Int /\ i \in Nat /\ j \in Nat
      BY <1>4
    <3> QED
      BY <2>3, <3>1 DEF MoreRelevant
  <2> QED
    BY <1>3, <2>1, <2>2, <2>3 DEF StrictOrder
<1>6. IsFiniteSet(S) /\ Cardinality(S) = Len(candidates)
  BY <1>1, UpTo
<1>7. ListsAll(order, S, pairs)
  BY <1>5, <1>6, InOrderLists
<1> HIDE DEF order
<1>8. Permutes(order, candidates)
  <2>1. DOMAIN order = S
    BY <1>1, <1>6, <1>7 DEF ListsAll
  <2>2. \A i \in DOMAIN order : order[i] \in S
    BY <1>7, LenProperties, ElementOfSeq DEF ListsAll
  <2> QED
    BY <1>7, <2>1, <2>2 DEF ListsAll, Permutes, Once
<1> QED
  BY <1>2, <1>8, PermutedHits

SourceAt(hits, p) == HitSource[hits[p]]
SameBefore(hits, p) == {q \in 1 .. p - 1 : SourceAt(hits, q) = SourceAt(hits, p)}
PlacesOf(hits, s) == {p \in DOMAIN hits : SourceAt(hits, p) = s}

LEMMA CappedPlaces ==
  ASSUME NEW hits \in Seq(Hits)
  PROVE  /\ Capped(hits) \subseteq DOMAIN hits
         /\ \A p \in DOMAIN hits : /\ IsFiniteSet(SameBefore(hits, p)) /\ p \in Nat
                                   /\ Cardinality(SameBefore(hits, p)) \in Nat
                                   /\ p \in Capped(hits) <=> Cardinality(SameBefore(hits, p)) < PerSource
<1>1. DOMAIN hits = 1 .. Len(hits) /\ Len(hits) \in Nat
  BY LenProperties
<1>2. Capped(hits) = {p \in DOMAIN hits : Cardinality(SameBefore(hits, p)) < PerSource}
  BY DEF Capped, SameBefore, SourceAt
<1>3. ASSUME NEW p \in DOMAIN hits
      PROVE  /\ IsFiniteSet(SameBefore(hits, p)) /\ p \in Nat
             /\ Cardinality(SameBefore(hits, p)) \in Nat
  <2>1. p \in Nat /\ p - 1 \in Nat
    BY <1>1
  <2>2. SameBefore(hits, p) \subseteq 1 .. p - 1
    BY DEF SameBefore
  <2>3. IsFiniteSet(SameBefore(hits, p))
    BY <2>1, <2>2, UpTo
  <2> QED
    BY <2>1, <2>3, FS_CardinalityType
<1> QED
  BY <1>2, <1>3

\* No more places of a source than its cap are capped.
LEMMA CapHolds ==
  ASSUME NEW hits \in Seq(Hits), NEW s
  PROVE  LET T == Capped(hits) \cap PlacesOf(hits, s) IN IsFiniteSet(T) /\ Cardinality(T) <= PerSource
<1> DEFINE T == Capped(hits) \cap PlacesOf(hits, s)
           rank(p) == Cardinality(SameBefore(hits, p))
           place == [p \in T |-> rank(p)]
<1>1. \A p \in T : /\ p \in DOMAIN hits /\ SourceAt(hits, p) = s /\ p \in Nat
                   /\ rank(p) \in Nat /\ rank(p) < PerSource
  BY CappedPlaces DEF PlacesOf
<1>2. PerSource \in Nat
  BY RankingAssumption
<1>3. ASSUME NEW p \in T, NEW q \in T, p < q
      PROVE  rank(p) < rank(q)
  <2>1. p \in Nat /\ q \in Nat /\ SourceAt(hits, p) = s /\ SourceAt(hits, q) = s
    BY <1>1
  <2>2. \A i \in 1 .. p - 1 : i \in 1 .. q - 1
    BY <1>3, <2>1
  <2>3. p \in DOMAIN hits /\ p \in 1 .. q - 1 /\ p \notin 1 .. p - 1
    <3>1. DOMAIN hits = 1 .. Len(hits)
      BY LenProperties
    <3>2. p \in DOMAIN hits
      BY <1>1
    <3> QED
      BY <1>3, <2>1, <3>1, <3>2
  <2>4. /\ SameBefore(hits, p) \subseteq SameBefore(hits, q)
        /\ p \in SameBefore(hits, q) /\ p \notin SameBefore(hits, p)
    BY <2>1, <2>2, <2>3 DEF SameBefore
  <2>5. IsFiniteSet(SameBefore(hits, q))
    BY <1>1, CappedPlaces
  <2>6. rank(p) <= rank(q) /\ rank(q) # rank(p)
    BY <2>4, <2>5, FS_Subset
  <2>7. rank(p) \in Nat /\ rank(q) \in Nat
    BY <1>1
  <2> HIDE DEF rank
  <2> QED
    BY <2>6, <2>7
<1> HIDE DEF rank, T
<1>4. place \in Injection(T, 0 .. PerSource - 1)
  <2>1. \A p \in T : rank(p) \in 0 .. PerSource - 1
    <3> SUFFICES ASSUME NEW p \in T
                 PROVE  rank(p) \in 0 .. PerSource - 1
      OBVIOUS
    <3>1. rank(p) \in Nat /\ rank(p) < PerSource
      BY <1>1
    <3> QED
      BY <1>2, <3>1
  <2>2. ASSUME NEW p \in T, NEW q \in T, rank(p) = rank(q)
        PROVE  p = q
    <3>1. p \in Nat /\ q \in Nat /\ rank(p) \in Nat /\ rank(q) \in Nat
      BY <1>1
    <3>2. ~(p < q) /\ ~(q < p)
      BY <1>3, <2>2, <3>1
    <3> QED
      BY <3>1, <3>2
  <2>3. place \in [T -> 0 .. PerSource - 1]
    BY <2>1
  <2> QED
    BY <2>2, <2>3 DEF Injection, IsInjective
<1>5. IsFiniteSet(0 .. PerSource - 1) /\ Cardinality(0 .. PerSource - 1) = PerSource
  <2>1. 0 \in Int /\ PerSource - 1 \in Int /\ ~(0 > PerSource - 1)
    BY RankingAssumption
  <2>2. /\ IsFiniteSet(0 .. PerSource - 1)
        /\ Cardinality(0 .. PerSource - 1) = PerSource - 1 - 0 + 1
    BY <2>1, FS_Interval
  <2> QED
    BY <1>2, <2>2
<1> QED
  BY <1>4, <1>5, FS_Injection DEF T

\* A source that exceeds its cap has as many capped places.
LEMMA CapIsReached ==
  ASSUME NEW hits \in Seq(Hits), NEW p \in DOMAIN hits, p \notin Capped(hits)
  PROVE  Cardinality(Capped(hits) \cap PlacesOf(hits, SourceAt(hits, p))) >= PerSource
<1> DEFINE s == SourceAt(hits, p)
           over == PlacesOf(hits, s) \ Capped(hits)
           T == Capped(hits) \cap PlacesOf(hits, s)
<1>1. DOMAIN hits = 1 .. Len(hits) /\ Len(hits) \in Nat
  BY LenProperties
<1>2. p \in over /\ over \subseteq 1 .. Len(hits)
  BY <1>1 DEF PlacesOf
<1>3. IsFiniteSet(over) /\ over \subseteq Nat /\ over # {}
  <2> HIDE DEF over
  <2> QED
    BY <1>1, <1>2, UpTo
<1>4. PICK q \in over : \A j \in over : q <= j
  <2> HIDE DEF over
  <2> QED
    BY <1>3, LeastNatural
<1>5. q \in DOMAIN hits /\ SourceAt(hits, q) = s /\ q \notin Capped(hits) /\ q \in Nat
  BY <1>3, <1>4 DEF PlacesOf
<1>6. SameBefore(hits, q) \subseteq T
  <2> SUFFICES ASSUME NEW i \in SameBefore(hits, q)
               PROVE  i \in T
    OBVIOUS
  <2>1. i \in 1 .. q - 1 /\ SourceAt(hits, i) = s
    BY <1>5 DEF SameBefore
  <2>2. i \in DOMAIN hits /\ ~(q <= i)
    BY <1>1, <1>5, <2>1
  <2>3. i \notin over
    BY <1>4, <2>2
  <2> QED
    BY <2>1, <2>2, <2>3 DEF PlacesOf
<1>7. IsFiniteSet(T)
  BY CapHolds
<1> HIDE DEF T
<1>8. Cardinality(SameBefore(hits, q)) <= Cardinality(T)
  BY <1>6, <1>7, FS_Subset
<1>9. /\ Cardinality(SameBefore(hits, q)) \in Nat /\ Cardinality(T) \in Nat /\ PerSource \in Nat
      /\ ~(Cardinality(SameBefore(hits, q)) < PerSource)
  BY <1>5, <1>7, CappedPlaces, FS_CardinalityType, RankingAssumption
<1>10. Cardinality(T) >= PerSource
  BY <1>8, <1>9
<1> QED
  BY <1>10 DEF T, s

\* The capped places come first, then the others.
LEMMA SpreadPlaces ==
  ASSUME NEW hits \in Seq(Hits)
  PROVE  \E places : /\ Permutes(places, hits)
                     /\ Spread(hits) = [p \in DOMAIN places |-> hits[places[p]]]
                     /\ IsFiniteSet(Capped(hits)) /\ Cardinality(Capped(hits)) \in Nat
                     /\ \A i \in DOMAIN places : places[i] \in Capped(hits) <=> i <= Cardinality(Capped(hits))
<1> DEFINE D == DOMAIN hits
           C == Capped(hits)
           R == D \ C
           a == InOrder(C, Smallers(C))
           b == InOrder(R, Smallers(R))
           places == a \o b
           c == Cardinality(C)
           r == Cardinality(R)
<1>1. D = 1 .. Len(hits) /\ Len(hits) \in Nat /\ C \subseteq D
  BY LenProperties, CappedPlaces
<1>2. /\ IsFiniteSet(C) /\ IsFiniteSet(R) /\ C \subseteq Nat /\ R \subseteq Nat
      /\ Cardinality(D) = Len(hits)
  <2>1. C \subseteq 1 .. Len(hits) /\ R \subseteq 1 .. Len(hits)
    BY <1>1
  <2> HIDE DEF C, R, D
  <2> QED
    BY <1>1, <2>1, UpTo
<1>3. Spread(hits) = [p \in DOMAIN places |-> hits[places[p]]]
  BY DEF Spread, Ordered, Smallers
<1> HIDE DEF C, R, D
<1>4. ListsAll(a, C, Smallers(C)) /\ ListsAll(b, R, Smallers(R))
  BY <1>2, InOrderLists, NaturalsInOrder
<1>5. c \in Nat /\ r \in Nat /\ c + r = Len(hits)
  <2>1. C \cup R = D /\ C \cap R = {}
    BY <1>1 DEF R
  <2>2. Cardinality(D) = c + r - 0
    <3>1. Cardinality(C \cup R) = Cardinality(C) + Cardinality(R) - Cardinality(C \cap R)
      BY <1>2, FS_Union
    <3>2. Cardinality(C \cap R) = 0
      BY <2>1, FS_EmptySet
    <3> QED
      BY <2>1, <3>1, <3>2
  <2>3. c \in Nat /\ r \in Nat
    BY <1>2, FS_CardinalityType
  <2> HIDE DEF c, r
  <2> QED
    BY <1>2, <2>2, <2>3
<1> HIDE DEF a, b
<1>6. /\ a \in Seq(D) /\ b \in Seq(D) /\ Len(a) = c /\ Len(b) = r
      /\ DOMAIN a = 1 .. c /\ DOMAIN b = 1 .. r
      /\ \A i \in 1 .. c : a[i] \in C
      /\ \A i \in 1 .. r : b[i] \in R
  <2>1. a \in Seq(C) /\ b \in Seq(R) /\ C \subseteq D /\ R \subseteq D
    BY <1>1, <1>4 DEF ListsAll, R
  <2>2. a \in Seq(D) /\ b \in Seq(D)
    BY <2>1, SeqMonotonic
  <2>3. Len(a) = c /\ Len(b) = r /\ DOMAIN a = 1 .. c /\ DOMAIN b = 1 .. r
    BY <1>4 DEF ListsAll
  <2> HIDE DEF c, r
  <2> QED
    BY <2>1, <2>2, <2>3, ElementOfSeq
<1> HIDE DEF c, r
<1>7. /\ places \in Seq(D) /\ DOMAIN places = 1 .. c + r
      /\ \A i \in 1 .. c + r : places[i] = IF i <= c THEN a[i] ELSE b[i - c]
  BY <1>5, <1>6, ConcatProperties, LenProperties
<1> HIDE DEF places
<1>8. ASSUME NEW i \in 1 .. c + r
      PROVE  \/ i <= c /\ i \in 1 .. c /\ places[i] = a[i] /\ places[i] \in C
             \/ ~(i <= c) /\ i - c \in 1 .. r /\ places[i] = b[i - c] /\ places[i] \in R
  <2>1. CASE i <= c
    <3>1. i \in 1 .. c
      BY <1>5, <2>1
    <3> QED
      BY <1>6, <1>7, <2>1, <3>1
  <2>2. CASE ~(i <= c)
    <3>1. i - c \in 1 .. r
      BY <1>5, <2>2
    <3> QED
      BY <1>6, <1>7, <2>2, <3>1
  <2> QED
    BY <2>1, <2>2
<1>9. \A i \in DOMAIN places : places[i] \in C <=> i <= c
  BY <1>7, <1>8 DEF R
<1>10. Permutes(places, hits)
  <2>1. DOMAIN places = DOMAIN hits /\ \A i \in DOMAIN places : places[i] \in DOMAIN hits
    BY <1>1, <1>5, <1>7, <1>8 DEF D, R
  <2>2. ASSUME NEW i \in 1 .. c + r, NEW j \in 1 .. c + r, places[i] = places[j]
        PROVE  i = j
    <3>1. i <= c <=> j <= c
      BY <1>7, <1>9, <2>2
    <3>2. CASE i <= c
      <4>1. i \in DOMAIN a /\ j \in DOMAIN a /\ a[i] = a[j]
        BY <1>6, <1>8, <2>2, <3>1, <3>2
      <4> QED
        BY <1>4, <4>1 DEF ListsAll
    <3>3. CASE ~(i <= c)
      <4>1. /\ i - c \in DOMAIN b /\ j - c \in DOMAIN b /\ b[i - c] = b[j - c]
        BY <1>6, <1>8, <2>2, <3>1, <3>3
      <4>2. i - c = j - c
        BY <1>4, <4>1 DEF ListsAll
      <4> QED
        BY <1>5, <4>2
    <3> QED
      BY <3>2, <3>3
  <2>3. ASSUME NEW p \in D
        PROVE  \E i \in DOMAIN places : places[i] = p
    <3>1. CASE p \in C
      <4>1. PICK i \in 1 .. c : a[i] = p
        BY <1>4, <1>6, <3>1 DEF ListsAll
      <4>2. i \in 1 .. c + r /\ i <= c
        BY <1>5
      <4> QED
        BY <1>7, <4>1, <4>2
    <3>2. CASE p \notin C
      <4>1. p \in R
        BY <3>2 DEF R
      <4>2. PICK i \in 1 .. r : b[i] = p
        BY <1>4, <1>6, <4>1 DEF ListsAll
      <4> DEFINE m == c + i
      <4>3. m \in 1 .. c + r /\ ~(m <= c) /\ m - c = i
        BY <1>5
      <4> HIDE DEF m
      <4>4. places[m] = p
        BY <1>7, <4>2, <4>3
      <4> QED
        BY <1>7, <4>3, <4>4
    <3> QED
      BY <3>1, <3>2
  <2>4. Once(places)
    BY <1>7, <2>2 DEF Once
  <2> QED
    BY <2>1, <2>3, <2>4 DEF Permutes, D
<1>11. /\ IsFiniteSet(Capped(hits)) /\ Cardinality(Capped(hits)) \in Nat
       /\ \A i \in DOMAIN places : places[i] \in Capped(hits) <=> i <= Cardinality(Capped(hits))
  BY <1>2, <1>5, <1>9 DEF C, c
<1> QED
  BY <1>3, <1>10, <1>11

OfSource(list, s) == {i \in DOMAIN list : HitSource[list[i]] = s}

\* The evidence that is taken of hits, in any order of them.
LEMMA SpreadIsFair ==
  ASSUME candidates \in Seq(Hits), NEW hits, Rearranges(hits, candidates),
         NEW taken, taken = FirstOf(Spread(hits), TopHits)
  PROVE  /\ taken \in Seq(Hits) /\ Len(taken) = Smaller(TopHits, Len(candidates)) /\ Once(taken)
         /\ \A s : \A h \in Elements(candidates) \ Elements(taken) :
              Cardinality(OfSource(taken, s)) > PerSource =>
                Cardinality(OfSource(taken, HitSource[h])) >= PerSource
<1> DEFINE C == Capped(hits)
           c == Cardinality(C)
           k == Smaller(TopHits, Len(candidates))
<1>1. hits \in Seq(Hits) /\ Once(hits) /\ Len(hits) = Len(candidates) /\ Elements(hits) = Elements(candidates)
  BY DEF Rearranges
<1>2. PICK places : /\ Permutes(places, hits)
                    /\ Spread(hits) = [p \in DOMAIN places |-> hits[places[p]]]
                    /\ IsFiniteSet(C) /\ c \in Nat
                    /\ \A i \in DOMAIN places : places[i] \in C <=> i <= c
  BY <1>1, SpreadPlaces
<1>3. Rearranges(Spread(hits), hits)
  BY <1>1, <1>2, PermutedHits
<1>4. /\ Spread(hits) \in Seq(Hits) /\ Once(Spread(hits)) /\ Len(Spread(hits)) = Len(candidates)
      /\ DOMAIN Spread(hits) = DOMAIN hits /\ DOMAIN places = DOMAIN hits
  BY <1>1, <1>2, <1>3 DEF Rearranges, Permutes
<1>5. TopHits \in Nat /\ PerSource \in Nat
  BY RankingAssumption
<1>6. /\ taken \in Seq(Hits) /\ Len(taken) = k /\ DOMAIN taken = 1 .. k /\ k \in Nat
      /\ DOMAIN taken \subseteq DOMAIN hits
      /\ \A i \in DOMAIN taken : taken[i] = Spread(hits)[i]
  BY <1>4, <1>5, FirstOfList
<1>7. Once(taken)
  BY <1>4, <1>6 DEF Once
<1>8. \A i \in DOMAIN taken : /\ i \in DOMAIN places /\ places[i] \in DOMAIN hits
                              /\ taken[i] = hits[places[i]]
  BY <1>2, <1>4, <1>6 DEF Permutes
<1>9. \A i, j \in DOMAIN taken : places[i] = places[j] => i = j
  BY <1>2, <1>8 DEF Permutes, Once
<1>10. \A s : IsFiniteSet(OfSource(taken, s)) /\ Cardinality(OfSource(taken, s)) \in Nat
  <2> SUFFICES ASSUME NEW s
               PROVE  IsFiniteSet(OfSource(taken, s)) /\ Cardinality(OfSource(taken, s)) \in Nat
    OBVIOUS
  <2>1. OfSource(taken, s) \subseteq 1 .. k
    BY <1>6 DEF OfSource
  <2>2. IsFiniteSet(OfSource(taken, s))
    <3> HIDE DEF k
    <3> QED
      BY <1>6, <2>1, UpTo
  <2> QED
    BY <2>2, FS_CardinalityType
<1>11. ASSUME NEW h \in Elements(candidates) \ Elements(taken), NEW s,
              Cardinality(OfSource(taken, s)) > PerSource
       PROVE  Cardinality(OfSource(taken, HitSource[h])) >= PerSource
  <2>1. ~(k <= c)
    <3> SUFFICES ASSUME k <= c
                 PROVE  FALSE
      OBVIOUS
    <3> DEFINE T == C \cap PlacesOf(hits, s)
               back == [i \in OfSource(taken, s) |-> places[i]]
    <3>1. IsFiniteSet(T) /\ Cardinality(T) <= PerSource
      BY <1>1, CapHolds
    <3>2. \A i \in DOMAIN taken : i <= c
      BY <1>2, <1>6
    <3>3. \A i \in OfSource(taken, s) : places[i] \in T
      BY <1>2, <1>8, <3>2 DEF OfSource, PlacesOf, SourceAt
    <3> HIDE DEF T
    <3>4. \A i, j \in OfSource(taken, s) : places[i] = places[j] => i = j
      BY <1>9 DEF OfSource
    <3>5. back \in Injection(OfSource(taken, s), T)
      BY <3>3, <3>4 DEF Injection, IsInjective
    <3>6. Cardinality(OfSource(taken, s)) <= Cardinality(T)
      BY <3>1, <3>5, FS_Injection
    <3>7. Cardinality(T) \in Nat /\ Cardinality(OfSource(taken, s)) \in Nat
      BY <1>10, <3>1, FS_CardinalityType
    <3> QED
      BY <1>5, <1>11, <3>1, <3>6, <3>7
  <2>2. PICK p \in DOMAIN hits : hits[p] = h
    BY <1>1 DEF Elements
  <2>3. PICK i \in DOMAIN places : places[i] = p
    BY <1>2, <2>2 DEF Permutes
  <2>4. i \notin DOMAIN taken
    BY <1>8, <2>2, <2>3 DEF Elements
  <2>5. i \in Nat /\ ~(i <= c)
    <3>1. DOMAIN places = 1 .. Len(hits)
      BY <1>1, <1>4, LenProperties
    <3>2. i \in 1 .. Len(hits) /\ i \notin 1 .. k
      BY <1>6, <2>3, <2>4, <3>1
    <3>3. i \in Nat /\ ~(i <= k)
      <4> HIDE DEF k
      <4> QED
        BY <1>6, <3>2
    <3> HIDE DEF k, c
    <3> QED
      BY <1>2, <1>6, <2>1, <3>3
  <2>6. p \notin C
    BY <1>2, <2>3, <2>5
  <2> DEFINE o == HitSource[h]
             T == C \cap PlacesOf(hits, o)
             sources == OfSource(taken, o)
             placed == [j \in sources |-> places[j]]
  <2>7. Cardinality(T) >= PerSource
    BY <1>1, <2>2, <2>6, CapIsReached DEF SourceAt
  <2>8. ASSUME NEW q \in T
        PROVE  \E j \in sources : places[j] = q
    <3>1. q \in C /\ q \in DOMAIN hits /\ HitSource[hits[q]] = o
      BY <2>8 DEF PlacesOf, SourceAt
    <3>2. PICK j \in DOMAIN places : places[j] = q
      BY <1>2, <3>1 DEF Permutes
    <3>3. j <= c
      BY <1>2, <3>1, <3>2
    <3>4. j \in 1 .. Len(hits)
      BY <1>1, <1>4, <3>2, LenProperties
    <3>5. j \in DOMAIN taken
      <4>1. j \in 1 .. k
        <5> HIDE DEF k, c
        <5> QED
          BY <1>2, <1>6, <2>1, <3>3, <3>4
      <4> QED
        BY <1>6, <4>1
    <3>6. taken[j] = hits[q]
      BY <1>8, <3>2, <3>5
    <3> QED
      BY <3>1, <3>2, <3>5, <3>6 DEF OfSource
  <2> DEFINE back == [q \in T |-> CHOOSE j \in sources : places[j] = q]
  <2> HIDE DEF T, sources
  <2>9. \A q \in T : back[q] \in sources /\ places[back[q]] = q
    BY <2>8
  <2>10. back \in Injection(T, sources)
    <3>1. back \in [T -> sources]
      BY <2>9
    <3> HIDE DEF back
    <3>2. \A x, y \in T : back[x] = back[y] => x = y
      BY <2>9
    <3> QED
      BY <3>1, <3>2 DEF Injection, IsInjective
  <2>11. IsFiniteSet(sources) /\ Cardinality(sources) \in Nat
    BY <1>10 DEF sources
  <2>12. Cardinality(T) <= Cardinality(sources) /\ IsFiniteSet(T)
    BY <2>10, <2>11, FS_Injection
  <2>13. Cardinality(T) \in Nat
    BY <2>12, FS_CardinalityType
  <2>14. Cardinality(sources) >= PerSource
    BY <1>5, <2>7, <2>11, <2>12, <2>13
  <2> QED
    BY <2>14 DEF sources
<1> QED
  BY <1>6, <1>7, <1>11

-----------------------------------------------------------------------------
(* Citations and answers *)

EarlierPairs(S) == {p \in S \X S : Earlier(p[1], p[2])}

LEMMA PlacesInOrder ==
  ASSUME NEW S, S \subseteq Nat \X Nat
  PROVE  /\ StrictOrder(S, EarlierPairs(S))
         /\ \A p, q \in S : <<p, q>> \in EarlierPairs(S) <=> Earlier(p, q)
<1>1. \A p, q \in S : <<p, q>> \in EarlierPairs(S) <=> Earlier(p, q)
  BY DEF EarlierPairs
<1>2. \A p \in S : p[1] \in Nat /\ p[2] \in Nat /\ p = <<p[1], p[2]>>
  OBVIOUS
<1>3. \A p \in S : ~Earlier(p, p)
  BY <1>2 DEF Earlier
<1>4. ASSUME NEW p \in S, NEW q \in S, NEW r \in S, Earlier(p, q), Earlier(q, r)
      PROVE  Earlier(p, r)
  <2>1. p[1] \in Nat /\ p[2] \in Nat /\ q[1] \in Nat /\ q[2] \in Nat /\ r[1] \in Nat /\ r[2] \in Nat
    BY <1>2
  <2> QED
    BY <1>4, <2>1 DEF Earlier
<1>5. ASSUME NEW p \in S, NEW q \in S, p # q
      PROVE  Earlier(p, q) \/ Earlier(q, p)
  <2>1. /\ p[1] \in Nat /\ p[2] \in Nat /\ q[1] \in Nat /\ q[2] \in Nat
        /\ p[1] # q[1] \/ p[2] # q[2]
    BY <1>2, <1>5
  <2> QED
    BY <2>1 DEF Earlier
<1> QED
  BY <1>1, <1>3, <1>4, <1>5 DEF StrictOrder

\* The places of lists that stand in a list.
LEMMA PlacesAreFinite ==
  ASSUME NEW n \in Nat, NEW size, \A i \in 1 .. n : size[i] \in Nat,
         NEW S, \A p \in S : \E i \in 1 .. n : \E j \in 1 .. size[i] : p = <<i, j>>
  PROVE  IsFiniteSet(S) /\ S \subseteq Nat \X Nat
<1> DEFINE row(i) == {<<i, j>> : j \in 1 .. size[i]}
           rows == {row(i) : i \in 1 .. n}
<1>1. \A i \in 1 .. n : IsFiniteSet(row(i))
  <2> SUFFICES ASSUME NEW i \in 1 .. n
               PROVE  IsFiniteSet(row(i))
    OBVIOUS
  <2> DEFINE f == [j \in 1 .. size[i] |-> <<i, j>>]
  <2>1. IsFiniteSet(1 .. size[i])
    BY UpTo
  <2>2. f \in Surjection(1 .. size[i], row(i))
    BY DEF Surjection
  <2> HIDE DEF f, row
  <2> QED
    BY <2>1, <2>2, FS_Surjection
<1>2. IsFiniteSet(rows)
  <2> DEFINE f == [i \in 1 .. n |-> row(i)]
  <2> HIDE DEF row
  <2>1. IsFiniteSet(1 .. n)
    BY UpTo
  <2>2. f \in Surjection(1 .. n, rows)
    BY DEF Surjection
  <2> HIDE DEF f, rows
  <2> QED
    BY <2>1, <2>2, FS_Surjection
<1>3. UNION rows \subseteq Nat \X Nat
  OBVIOUS
<1>4. \A T \in rows : IsFiniteSet(T)
  BY <1>1
<1> HIDE DEF rows
<1>5. IsFiniteSet(UNION rows)
  BY <1>2, <1>4, FS_UNION
<1>6. S \subseteq UNION rows
  BY DEF rows
<1> QED
  BY <1>3, <1>5, <1>6, FS_Subset

LEMMA HitsHavePassages ==
  ASSUME NEW h \in Hits
  PROVE  /\ PassagesOf[h] \in Seq(Passages) /\ Len(PassagesOf[h]) \in Nat /\ Len(PassagesOf[h]) >= 1
         /\ DOMAIN PassagesOf[h] = 1 .. Len(PassagesOf[h])
         /\ Content[h] \in Seq(Seq(Nat) \ {<<>>}) /\ Len(Content[h]) \in Nat
         /\ DOMAIN Content[h] = 1 .. Len(Content[h])
<1>1. \A g \in Hits : /\ PassagesOf[g] \in Seq(Passages) \ {<<>>}
                      /\ Content[g] \in Seq(Seq(Nat) \ {<<>>}) \ {<<>>}
  BY RankingAssumption
<1>2. /\ PassagesOf[h] \in Seq(Passages) /\ PassagesOf[h] # <<>>
      /\ Content[h] \in Seq(Seq(Nat) \ {<<>>})
  BY <1>1
<1>3. Len(PassagesOf[h]) \in Nat \ {0}
  BY <1>2, EmptySeq
<1> QED
  BY <1>2, <1>3, LenProperties

LEMMA MentionsOfEvidence ==
  ASSUME evidence \in Seq(Hits)
  PROVE  /\ IsFiniteSet(Mentions) /\ Mentions \subseteq Nat \X Nat
         /\ \A p \in Mentions : Mentioned(p) \in Passages
         /\ \A i \in DOMAIN evidence : \A j \in DOMAIN PassagesOf[evidence[i]] :
              <<i, j>> \in Mentions /\ Mentioned(<<i, j>>) = PassagesOf[evidence[i]][j]
<1> DEFINE n == Len(evidence)
           size == [i \in 1 .. n |-> Len(PassagesOf[evidence[i]])]
<1>1. n \in Nat /\ DOMAIN evidence = 1 .. n /\ \A i \in 1 .. n : evidence[i] \in Hits
  BY LenProperties, ElementOfSeq
<1> HIDE DEF n
<1>2. \A i \in 1 .. n : /\ size[i] \in Nat /\ DOMAIN PassagesOf[evidence[i]] = 1 .. size[i]
                        /\ PassagesOf[evidence[i]] \in Seq(Passages)
                        /\ size[i] = Len(PassagesOf[evidence[i]])
  BY <1>1, HitsHavePassages
<1> HIDE DEF size
<1>3. Mentions = UNION {{<<i, j>> : j \in 1 .. size[i]} : i \in 1 .. n}
  BY <1>1, <1>2 DEF Mentions
<1>4. IsFiniteSet(Mentions) /\ Mentions \subseteq Nat \X Nat
  <2>1. \A i \in 1 .. n : size[i] \in Nat
    BY <1>2
  <2>2. \A p \in Mentions : \E i \in 1 .. n : \E j \in 1 .. size[i] : p = <<i, j>>
    BY <1>3
  <2> QED
    BY <1>1, <2>1, <2>2, PlacesAreFinite
<1>5. \A p \in Mentions : \E i \in 1 .. n : \E j \in 1 .. size[i] : p = <<i, j>>
  BY <1>3
<1>6. \A i \in 1 .. n : \A j \in 1 .. size[i] :
        /\ <<i, j>> \in Mentions /\ Mentioned(<<i, j>>) = PassagesOf[evidence[i]][j]
        /\ PassagesOf[evidence[i]][j] \in Passages
  BY <1>2, <1>3, ElementOfSeq DEF Mentioned
<1>7. \A p \in Mentions : Mentioned(p) \in Passages
  <2> SUFFICES ASSUME NEW p \in Mentions
               PROVE  Mentioned(p) \in Passages
    OBVIOUS
  <2>1. PICK i \in 1 .. n : \E j \in 1 .. size[i] : p = <<i, j>>
    BY <1>5
  <2>2. PICK j \in 1 .. size[i] : p = <<i, j>>
    BY <2>1
  <2> QED
    BY <1>6, <2>2
<1>8. ASSUME NEW i \in DOMAIN evidence, NEW j \in DOMAIN PassagesOf[evidence[i]]
      PROVE  <<i, j>> \in Mentions /\ Mentioned(<<i, j>>) = PassagesOf[evidence[i]][j]
  <2>1. i \in 1 .. n
    BY <1>1
  <2>2. j \in 1 .. size[i]
    BY <1>2, <2>1
  <2> QED
    BY <1>6, <2>1, <2>2
<1> QED
  BY <1>4, <1>7, <1>8

\* Every passage of the evidence has a number.
LEMMA NumberingNamesAll ==
  ASSUME evidence \in Seq(Hits)
  PROVE  /\ Numbering \in Seq(Passages) /\ DOMAIN Numbering = 1 .. Len(Numbering)
         /\ Len(Numbering) \in Nat
         /\ \A i \in DOMAIN evidence : \A j \in DOMAIN PassagesOf[evidence[i]] :
              \E n \in DOMAIN Numbering : Numbering[n] = PassagesOf[evidence[i]][j]
<1> DEFINE F == FirstMentions
           order == InOrder(F, EarlierPairs(F))
<1>1. IsFiniteSet(F) /\ F \subseteq Mentions /\ F \subseteq Nat \X Nat
  <2>1. F \subseteq Mentions
    BY DEF FirstMentions
  <2> QED
    BY <2>1, MentionsOfEvidence, FS_Subset
<1>2. Numbering = [n \in DOMAIN order |-> Mentioned(order[n])]
  BY DEF Numbering, Ordered, EarlierPairs
<1> HIDE DEF F
<1>3. ListsAll(order, F, EarlierPairs(F))
  BY <1>1, InOrderLists, PlacesInOrder
<1> HIDE DEF order
<1>4. /\ order \in Seq(F) /\ Len(order) \in Nat /\ DOMAIN order = 1 .. Len(order)
      /\ \A n \in 1 .. Len(order) : order[n] \in Mentions
  <2>1. order \in Seq(F)
    BY <1>3 DEF ListsAll
  <2> QED
    BY <1>1, <2>1, LenProperties, ElementOfSeq
<1>5. Numbering \in Seq(Passages)
  <2>1. \A n \in 1 .. Len(order) : Mentioned(order[n]) \in Passages
    BY <1>4, MentionsOfEvidence
  <2>2. Numbering \in [1 .. Len(order) -> Passages]
    BY <1>2, <1>4, <2>1
  <2>3. Numbering \in UNION {[1 .. k -> Passages] : k \in Nat}
    BY <1>4, <2>2
  <2> QED
    BY <2>3, SeqDef
<1>6. ASSUME NEW i \in DOMAIN evidence, NEW j \in DOMAIN PassagesOf[evidence[i]]
      PROVE  \E n \in DOMAIN Numbering : Numbering[n] = PassagesOf[evidence[i]][j]
  <2> DEFINE x == PassagesOf[evidence[i]][j]
             same == {q \in Mentions : Mentioned(q) = x}
  <2>1. <<i, j>> \in same /\ same \subseteq Mentions
    BY MentionsOfEvidence
  <2>2. IsFiniteSet(same) /\ same \subseteq Nat \X Nat /\ same # {}
    <3> HIDE DEF same
    <3> QED
      BY <2>1, MentionsOfEvidence, FS_Subset
  <2>3. PICK q \in same : \A p \in same : p = q \/ <<q, p>> \in EarlierPairs(same)
    <3> HIDE DEF same
    <3> QED
      BY <2>2, LeastOf, PlacesInOrder
  <2>4. \A p \in same : ~Earlier(p, q)
    <3> HIDE DEF same
    <3> SUFFICES ASSUME NEW p \in same, Earlier(p, q)
                 PROVE  FALSE
      OBVIOUS
    <3>1. <<p, q>> \in EarlierPairs(same) /\ (p = q \/ <<q, p>> \in EarlierPairs(same))
      BY <2>2, <2>3, PlacesInOrder
    <3>2. <<p, p>> \in EarlierPairs(same)
      BY <2>2, <2>3, <3>1, PlacesInOrder DEF StrictOrder
    <3> QED
      BY <2>2, <3>2, PlacesInOrder DEF StrictOrder
  <2>5. q \in F /\ Mentioned(q) = x
    BY <2>3, <2>4 DEF F, FirstMentions
  <2>6. PICK n \in DOMAIN order : order[n] = q
    BY <1>3, <2>5 DEF ListsAll
  <2> QED
    BY <1>2, <2>5, <2>6
<1> QED
  BY <1>5, <1>6, LenProperties

\* The paragraphs of the answer, as Generate puts them together.
Composed ==
  LET order == Ordered(Paragraphs, Earlier) IN [n \in DOMAIN order |-> Paragraph(order[n])]

Resolves(paragraph) ==
  /\ paragraph \in [of : Hits, text : Seq(Nat)]
  /\ Valid(paragraph.text)
  /\ {citations[k] : k \in Elements(paragraph.text) \ {0}} = Elements(PassagesOf[paragraph.of])

\* The markers of a hit are numbers of its passages.
LEMMA MarkersNumber ==
  ASSUME evidence \in Seq(Hits), citations = Numbering, NEW i \in DOMAIN evidence
  PROVE  LET h == evidence[i] IN
         /\ DOMAIN Markers(h) = DOMAIN PassagesOf[h] /\ Markers(h) \in Seq(Nat)
         /\ Len(Markers(h)) = Len(PassagesOf[h])
         /\ \A j \in DOMAIN PassagesOf[h] : /\ Markers(h)[j] \in DOMAIN citations
                                            /\ citations[Markers(h)[j]] = PassagesOf[h][j]
<1> DEFINE h == evidence[i]
           size == Len(PassagesOf[h])
<1>1. h \in Hits
  BY LenProperties, ElementOfSeq
<1>2. size \in Nat /\ DOMAIN PassagesOf[h] = 1 .. size
  BY <1>1, HitsHavePassages
<1>3. \A j \in DOMAIN PassagesOf[h] : /\ NumberOf(PassagesOf[h][j]) \in DOMAIN citations
                                      /\ citations[NumberOf(PassagesOf[h][j])] = PassagesOf[h][j]
  BY NumberingNamesAll DEF NumberOf
<1>4. DOMAIN citations \subseteq Nat
  BY NumberingNamesAll
<1>5. /\ DOMAIN Markers(h) = DOMAIN PassagesOf[h]
      /\ \A j \in DOMAIN PassagesOf[h] : Markers(h)[j] = NumberOf(PassagesOf[h][j])
  BY DEF Markers
<1>6. Markers(h) \in Seq(Nat)
  <2> HIDE DEF size
  <2>1. Markers(h) \in [1 .. size -> Nat]
    BY <1>2, <1>3, <1>4 DEF Markers
  <2>2. Markers(h) \in UNION {[1 .. k -> Nat] : k \in Nat}
    BY <1>2, <2>1
  <2> QED
    BY <2>2, SeqDef
<1>7. Len(Markers(h)) = size
  <2>1. DOMAIN Markers(h) = 1 .. Len(Markers(h)) /\ Len(Markers(h)) \in Nat
    BY <1>6, LenProperties
  <2> HIDE DEF size
  <2> QED
    BY <1>2, <1>5, <2>1
<1> QED
  BY <1>3, <1>5, <1>6, <1>7

\* Words and then markers are valid, and cite what the markers stand for.
LEMMA WordsThenMarkers ==
  ASSUME NEW words \in Seq(Nat), words # <<>>, \A i \in DOMAIN words : words[i] = 0,
         NEW markers \in Seq(Nat), markers # <<>>, \A i \in DOMAIN markers : markers[i] \in DOMAIN citations,
         DOMAIN citations = 1 .. Len(citations), Len(citations) \in Nat
  PROVE  /\ words \o markers \in Seq(Nat) /\ Valid(words \o markers)
         /\ Elements(words \o markers) \ {0} = Elements(markers)
<1> DEFINE a == Len(words)
           b == Len(markers)
           text == words \o markers
<1>1. a \in Nat /\ a >= 1 /\ b \in Nat /\ b >= 1 /\ DOMAIN words = 1 .. a /\ DOMAIN markers = 1 .. b
  BY EmptySeq, LenProperties
<1>2. /\ text \in Seq(Nat) /\ Len(text) = a + b /\ DOMAIN text = 1 .. a + b
      /\ \A i \in 1 .. a + b : text[i] = IF i <= a THEN words[i] ELSE markers[i - a]
  BY ConcatProperties, LenProperties
<1> HIDE DEF a, b, text
<1>3. ASSUME NEW i \in 1 .. a + b
      PROVE  /\ i <= a => text[i] = 0
             /\ ~(i <= a) => /\ i - a \in 1 .. b /\ text[i] = markers[i - a]
                             /\ text[i] \in 1 .. Len(citations) /\ text[i] # 0
  <2>1. CASE i <= a
    <3>1. i \in 1 .. a
      BY <1>1, <2>1
    <3> QED
      BY <1>1, <1>2, <2>1, <3>1
  <2>2. CASE ~(i <= a)
    <3>1. i - a \in 1 .. b
      BY <1>1, <2>2
    <3>2. text[i] = markers[i - a] /\ markers[i - a] \in 1 .. Len(citations)
      BY <1>1, <1>2, <2>2, <3>1
    <3> QED
      BY <2>2, <3>1, <3>2
  <2> QED
    BY <2>1, <2>2
<1>4. Valid(text)
  <2>1. 1 \in 1 .. a + b /\ 1 <= a /\ a + b \in 1 .. a + b /\ ~(a + b <= a)
    BY <1>1
  <2>2. text[1] = 0 /\ text[Len(text)] # 0
    BY <1>2, <1>3, <2>1
  <2>3. ASSUME NEW i \in 1 .. a + b, NEW j \in 1 .. a + b, i < j, text[i] # 0
        PROVE  text[j] # 0
    <3>1. ~(i <= a)
      BY <1>3, <2>3
    <3>2. ~(j <= a)
      BY <1>1, <2>3, <3>1
    <3> QED
      BY <1>3, <3>2
  <2>4. \A i \in 1 .. a + b : text[i] \in 0 .. Len(citations)
    <3> SUFFICES ASSUME NEW i \in 1 .. a + b
                 PROVE  text[i] \in 0 .. Len(citations)
      OBVIOUS
    <3>1. text[i] = 0 \/ text[i] \in 1 .. Len(citations)
      BY <1>3
    <3> QED
      BY <3>1
  <2> QED
    BY <1>2, <2>2, <2>3, <2>4 DEF Valid
<1>5. Elements(text) \ {0} = Elements(markers)
  <2>1. ASSUME NEW i \in 1 .. a + b, text[i] # 0
        PROVE  text[i] \in Elements(markers)
    <3>1. i - a \in DOMAIN markers /\ text[i] = markers[i - a]
      BY <1>1, <1>3, <2>1
    <3> QED
      BY <3>1 DEF Elements
  <2>2. ASSUME NEW j \in 1 .. b
        PROVE  markers[j] \in Elements(text) \ {0}
    <3> DEFINE m == a + j
    <3>1. m \in 1 .. a + b /\ ~(m <= a) /\ m - a = j
      BY <1>1
    <3> HIDE DEF m
    <3>2. text[m] = markers[j] /\ text[m] # 0
      BY <1>3, <3>1
    <3> QED
      BY <1>2, <3>1, <3>2 DEF Elements
  <2>3. Elements(text) \ {0} \subseteq Elements(markers)
    BY <1>2, <2>1 DEF Elements
  <2>4. Elements(markers) \subseteq Elements(text) \ {0}
    BY <1>1, <2>2 DEF Elements
  <2> QED
    BY <2>3, <2>4
<1> QED
  BY <1>2, <1>4, <1>5 DEF text

\* The places of the paragraphs quoted.
LEMMA PlacesOfParagraphs ==
  ASSUME evidence \in Seq(Hits)
  PROVE  /\ IsFiniteSet(Paragraphs) /\ Paragraphs \subseteq Nat \X Nat
         /\ \A p \in Paragraphs : /\ p[1] \in DOMAIN evidence /\ Quoted[p[1]] = evidence[p[1]]
                                  /\ p[2] \in DOMAIN Content[evidence[p[1]]]
<1> DEFINE n == Len(Quoted)
           size == [i \in 1 .. n |-> Len(Content[Quoted[i]])]
<1>1. /\ n \in Nat /\ DOMAIN Quoted = 1 .. n /\ DOMAIN Quoted \subseteq DOMAIN evidence
      /\ \A i \in 1 .. n : Quoted[i] = evidence[i] /\ Quoted[i] \in Hits
  <2>1. MaxPassages \in Nat
    BY RankingAssumption
  <2>2. Quoted \in Seq(Hits)
    BY <2>1, FirstOfList DEF Quoted
  <2>3. DOMAIN Quoted \subseteq DOMAIN evidence /\ \A i \in DOMAIN Quoted : Quoted[i] = evidence[i]
    BY <2>1, FirstOfList DEF Quoted
  <2> QED
    BY <2>2, <2>3, LenProperties, ElementOfSeq
<1> HIDE DEF n
<1>2. \A i \in 1 .. n : size[i] \in Nat /\ DOMAIN Content[Quoted[i]] = 1 .. size[i]
  BY <1>1, HitsHavePassages
<1> HIDE DEF size
<1>3. Paragraphs = UNION {{<<i, j>> : j \in 1 .. size[i]} : i \in 1 .. n}
  BY <1>1, <1>2 DEF Paragraphs
<1>4. IsFiniteSet(Paragraphs) /\ Paragraphs \subseteq Nat \X Nat
  <2>1. \A i \in 1 .. n : size[i] \in Nat
    BY <1>2
  <2>2. \A p \in Paragraphs : \E i \in 1 .. n : \E j \in 1 .. size[i] : p = <<i, j>>
    BY <1>3
  <2>3. n \in Nat
    BY <1>1
  <2> QED
    BY <2>1, <2>2, <2>3, PlacesAreFinite, ZenonT(60)
<1>5. ASSUME NEW p \in Paragraphs
      PROVE  /\ p[1] \in DOMAIN evidence /\ Quoted[p[1]] = evidence[p[1]]
             /\ p[2] \in DOMAIN Content[evidence[p[1]]]
  <2>1. PICK i \in 1 .. n : \E j \in 1 .. size[i] : p = <<i, j>>
    BY <1>3
  <2>2. PICK j \in 1 .. size[i] : p = <<i, j>>
    BY <2>1
  <2>3. p[1] = i /\ p[2] = j
    BY <2>2
  <2>4. i \in DOMAIN evidence /\ Quoted[i] = evidence[i] /\ j \in DOMAIN Content[evidence[i]]
    BY <1>1, <1>2, <2>1, <2>2
  <2> QED
    BY <2>3, <2>4
<1> QED
  BY <1>4, <1>5

\* A label that a source wrote is not a marker any more.
LEMMA NeutralWords ==
  ASSUME NEW words \in Seq(Nat), words # <<>>
  PROVE  /\ Neutral(words) \in Seq(Nat) /\ Neutral(words) # <<>>
         /\ \A i \in DOMAIN Neutral(words) : Neutral(words)[i] = 0
<1>1. Len(words) \in Nat /\ Len(words) # 0 /\ DOMAIN words = 1 .. Len(words)
  BY EmptySeq, LenProperties
<1>2. DOMAIN Neutral(words) = 1 .. Len(words) /\ \A i \in DOMAIN Neutral(words) : Neutral(words)[i] = 0
  BY <1>1 DEF Neutral
<1>3. Neutral(words) \in Seq(Nat)
  <2>1. Neutral(words) \in [1 .. Len(words) -> Nat]
    BY <1>1 DEF Neutral
  <2>2. Neutral(words) \in UNION {[1 .. k -> Nat] : k \in Nat}
    BY <1>1, <2>1
  <2> QED
    BY <2>2, SeqDef
<1>4. 1 \in DOMAIN Neutral(words)
  BY <1>1, <1>2
<1>5. Neutral(words) # <<>>
  BY <1>4
<1> QED
  BY <1>2, <1>3, <1>5

LEMMA ParagraphResolves ==
  ASSUME evidence \in Seq(Hits), citations = Numbering, NEW p \in Paragraphs
  PROVE  Resolves(Paragraph(p))
<1> DEFINE i == p[1]
           h == evidence[i]
           words == Content[h][p[2]]
<1>1. i \in DOMAIN evidence /\ Quoted[i] = h /\ p[2] \in DOMAIN Content[h]
  BY PlacesOfParagraphs
<1> HIDE DEF i
<1>2. h \in Hits
  BY <1>1, LenProperties, ElementOfSeq
<1>3. words \in Seq(Nat) /\ words # <<>>
  <2>1. Content[h] \in Seq(Seq(Nat) \ {<<>>})
    BY <1>2, HitsHavePassages
  <2>2. words \in Seq(Nat) \ {<<>>}
    BY <1>1, <2>1, LenProperties, ElementOfSeq
  <2> QED
    BY <2>2
<1>4. Paragraph(p) = [of |-> h, text |-> Neutral(words) \o Markers(h)]
  BY <1>1 DEF Paragraph, i
<1>5. /\ DOMAIN Markers(h) = DOMAIN PassagesOf[h] /\ Markers(h) \in Seq(Nat)
      /\ Len(Markers(h)) = Len(PassagesOf[h])
      /\ \A j \in DOMAIN PassagesOf[h] : /\ Markers(h)[j] \in DOMAIN citations
                                         /\ citations[Markers(h)[j]] = PassagesOf[h][j]
  BY <1>1, MarkersNumber
<1> DEFINE markers == Markers(h)
           plain == Neutral(words)
<1>6. markers # <<>>
  <2>1. Len(markers) >= 1 /\ Len(PassagesOf[h]) \in Nat
    BY <1>2, <1>5, HitsHavePassages
  <2> QED
    BY <1>5, <2>1, EmptySeq
<1>7. plain \in Seq(Nat) /\ plain # <<>> /\ \A k \in DOMAIN plain : plain[k] = 0
  <2> HIDE DEF words
  <2> QED
    BY <1>3, NeutralWords
<1>8. \A j \in DOMAIN markers : markers[j] \in DOMAIN citations
  BY <1>5
<1>9. DOMAIN citations = 1 .. Len(citations) /\ Len(citations) \in Nat
  BY NumberingNamesAll
<1>10. /\ plain \o markers \in Seq(Nat) /\ Valid(plain \o markers)
       /\ Elements(plain \o markers) \ {0} = Elements(markers)
  <2>1. markers \in Seq(Nat)
    BY <1>5
  <2> HIDE DEF plain, markers
  <2> QED
    BY <1>6, <1>7, <1>8, <1>9, <2>1, WordsThenMarkers
<1>11. {citations[k] : k \in Elements(markers)} = Elements(PassagesOf[h])
  BY <1>5 DEF Elements
<1> DEFINE text == plain \o markers
<1>12. Paragraph(p) = [of |-> h, text |-> text]
  BY <1>4
<1> HIDE DEF text, plain, markers, h
<1>13. Paragraph(p).of = h /\ Paragraph(p).text = text /\ Paragraph(p) \in [of : Hits, text : Seq(Nat)]
  BY <1>2, <1>10, <1>12 DEF text
<1> QED
  BY <1>10, <1>11, <1>13 DEF Resolves, text

\* Whatever is quoted, every paragraph cites the passages of its own hit.
LEMMA ComposedResolves ==
  ASSUME evidence \in Seq(Hits), citations = Numbering
  PROVE  /\ Composed \in Seq([of : Hits, text : Seq(Nat)])
         /\ \A n \in DOMAIN Composed : Resolves(Composed[n])
<1> DEFINE order == InOrder(Paragraphs, EarlierPairs(Paragraphs))
<1>1. Composed = [n \in DOMAIN order |-> Paragraph(order[n])]
  BY DEF Composed, Ordered, EarlierPairs
<1>2. IsFiniteSet(Paragraphs) /\ Paragraphs \subseteq Nat \X Nat
  BY PlacesOfParagraphs
<1>3. ListsAll(order, Paragraphs, EarlierPairs(Paragraphs))
  BY <1>2, InOrderLists, PlacesInOrder
<1> HIDE DEF order
<1>4. order \in Seq(Paragraphs)
  BY <1>3 DEF ListsAll
<1>5. /\ Len(order) \in Nat /\ DOMAIN order = 1 .. Len(order)
      /\ \A n \in 1 .. Len(order) : order[n] \in Paragraphs
  BY <1>4, LenProperties, ElementOfSeq
<1>6. \A n \in 1 .. Len(order) : Resolves(Paragraph(order[n]))
  BY <1>5, ParagraphResolves
<1>7. \A n \in 1 .. Len(order) : Paragraph(order[n]) \in [of : Hits, text : Seq(Nat)]
  BY <1>6 DEF Resolves
<1>8. Composed \in [1 .. Len(order) -> [of : Hits, text : Seq(Nat)]]
  BY <1>1, <1>5, <1>7
<1>9. Composed \in UNION {[1 .. k -> [of : Hits, text : Seq(Nat)]] : k \in Nat}
  BY <1>5, <1>8
<1>10. \A n \in DOMAIN Composed : Resolves(Composed[n])
  BY <1>1, <1>5, <1>6
<1> QED
  BY <1>9, <1>10, SeqDef

-----------------------------------------------------------------------------
(* A query, step by step *)

\* What the variables hold.
WellTyped ==
  /\ phase \in {"ask", "retrieve", "fuse", "rerank", "cite", "generate", "validate", "answered", "refused", "malformed"}
  /\ plan \in [modes : SUBSET Modes, weighted : BOOLEAN, rerank : BOOLEAN]
  /\ candidates \in Seq(Hits) /\ evidence \in Seq(Hits) /\ relevance \in Seq(Relevance)
  /\ citations \in Seq(Passages) /\ answer \in Seq([of : Hits, text : Seq(Nat)])

\* Only the retrievers asked answer, and what follows the retrieval has all of their lists.
AnsweredLists ==
  /\ DOMAIN ranked \subseteq plan.modes
  /\ \A m \in DOMAIN ranked : ranked[m] \in Seq(HitsBy[m]) /\ Len(ranked[m]) <= Depth
  /\ phase = "ask" => ranked = <<>>
  /\ phase \notin {"ask", "retrieve"} => DOMAIN ranked = plan.modes /\ plan.modes # {}

\* What is known of the lists stays so: the candidates are their fusion, and the evidence is
\* the head of the candidates, or of their re-ranking.
FusedAsRanked ==
  /\ phase = "rerank" => plan.rerank /\ Cardinality(plan.modes) > 1
  /\ Fusing => candidates = FusedHits
  /\ Fusing /\ phase # "rerank" =>
       IF plan.rerank THEN /\ relevance \in [DOMAIN candidates -> Relevance]
                           /\ evidence = FirstOf(Spread(MostRelevant(relevance)), TopHits)
       ELSE evidence = candidates

\* The numbers are those of the evidence, and the answer was composed with them.
CitedAsNumbered ==
  /\ phase \in {"generate", "validate", "answered"} => citations = Numbering
  /\ phase \in {"ask", "retrieve", "fuse", "rerank", "cite"} => answer = <<>>
  /\ phase = "validate" => answer = Composed
  /\ phase = "answered" => answer = <<>> \/ answer = Composed
  /\ phase # "malformed"

RankInv == WellTyped /\ AnsweredLists /\ FusedAsRanked /\ CitedAsNumbered

LEMMA RankInvInit == RankingInit => RankInv
<1> SUFFICES ASSUME RankingInit
             PROVE  RankInv
  OBVIOUS
<1> USE DEF RankingInit
<1>1. WellTyped
  BY EmptySeq DEF WellTyped, NoPlan
<1>2. AnsweredLists
  BY DEF AnsweredLists
<1>3. FusedAsRanked
  BY DEF FusedAsRanked, Fusing
<1>4. CitedAsNumbered
  BY DEF CitedAsNumbered
<1> QED
  BY <1>1, <1>2, <1>3, <1>4 DEF RankInv

\* The lists of a later phase are those the fusion needs.
LEMMA ListsForFusion ==
  ASSUME RankInv, phase \notin {"ask", "retrieve"}
  PROVE  AllAnswered /\ plan.weighted \in BOOLEAN /\ plan.rerank \in BOOLEAN
         /\ Cardinality(plan.modes) \in Nat \ {0} /\ IsFiniteSet(plan.modes)
<1>1. plan \in [modes : SUBSET Modes, weighted : BOOLEAN, rerank : BOOLEAN]
  BY DEF RankInv, WellTyped
<1>2. plan.modes \subseteq Modes /\ plan.weighted \in BOOLEAN /\ plan.rerank \in BOOLEAN
  BY <1>1
<1>3. /\ DOMAIN ranked = plan.modes /\ plan.modes # {}
      /\ \A m \in DOMAIN ranked : ranked[m] \in Seq(HitsBy[m]) /\ Len(ranked[m]) <= Depth
  BY DEF RankInv, AnsweredLists
<1>4. AllAnswered
  BY <1>2, <1>3 DEF AllAnswered
<1>5. IsFiniteSet(plan.modes)
  <2>1. Modes = {"vector", "window", "lexical", "graph"}
    BY RankingAssumption
  <2>2. IsFiniteSet({"vector", "window", "lexical", "graph"})
    <3>1. IsFiniteSet({})
      BY FS_EmptySet
    <3>2. IsFiniteSet({} \cup {"vector"})
      BY <3>1, FS_AddElement
    <3>3. IsFiniteSet({} \cup {"vector"} \cup {"window"})
      BY <3>2, FS_AddElement
    <3>4. IsFiniteSet({} \cup {"vector"} \cup {"window"} \cup {"lexical"})
      BY <3>3, FS_AddElement
    <3>5. IsFiniteSet({} \cup {"vector"} \cup {"window"} \cup {"lexical"} \cup {"graph"})
      BY <3>4, FS_AddElement
    <3>6. {} \cup {"vector"} \cup {"window"} \cup {"lexical"} \cup {"graph"}
            = {"vector", "window", "lexical", "graph"}
      OBVIOUS
    <3> QED
      BY <3>5, <3>6
  <2> QED
    BY <1>2, <2>1, <2>2, FS_Subset
<1>6. Cardinality(plan.modes) \in Nat \ {0}
  BY <1>3, <1>5, FS_CardinalityType, FS_EmptySet
<1> QED
  BY <1>2, <1>4, <1>5, <1>6

LEMMA AskKeeps ==
  ASSUME RankInv, NEW modes \in Plans, NEW weighted \in BOOLEAN, NEW rerank \in BOOLEAN,
         AskRanked(modes, weighted, rerank)
  PROVE  RankInv'
<1>1. /\ phase = "ask" /\ phase' = "retrieve"
      /\ plan' = [modes |-> modes, weighted |-> weighted, rerank |-> rerank]
      /\ ranked' = ranked /\ candidates' = candidates /\ relevance' = relevance
      /\ evidence' = evidence /\ citations' = citations /\ answer' = answer
  BY DEF AskRanked
<1>2. modes \subseteq Modes
  BY RankingAssumption
<1>3. plan'.modes = modes /\ plan' \in [modes : SUBSET Modes, weighted : BOOLEAN, rerank : BOOLEAN]
  BY <1>1, <1>2
<1>4. WellTyped'
  BY <1>1, <1>3 DEF RankInv, WellTyped
<1>5. AnsweredLists'
  BY <1>1, <1>3 DEF RankInv, AnsweredLists
<1>6. FusedAsRanked'
  BY <1>1 DEF FusedAsRanked, Fusing
<1>7. CitedAsNumbered'
  BY <1>1 DEF RankInv, CitedAsNumbered
<1> QED
  BY <1>4, <1>5, <1>6, <1>7 DEF RankInv

LEMMA RetrieveKeeps ==
  ASSUME RankInv, NEW m \in Modes, Retrieve(m)
  PROVE  RankInv'
<1>1. /\ phase = "retrieve" /\ m \in plan.modes /\ plan' = plan
      /\ candidates' = candidates /\ relevance' = relevance
      /\ evidence' = evidence /\ citations' = citations /\ answer' = answer
      /\ phase' = IF DOMAIN ranked' = plan.modes THEN "fuse" ELSE phase
  BY DEF Retrieve
<1>2. PICK list \in Lists(m) :
        ranked' = [n \in DOMAIN ranked \cup {m} |-> IF n = m THEN list ELSE ranked[n]]
  BY DEF Retrieve
<1>3. list \in Seq(HitsBy[m]) /\ Len(list) <= Depth
  <2>1. PICK n \in 0 .. Depth : list \in [1 .. n -> HitsBy[m]]
    BY DEF Lists
  <2>2. Depth \in Nat
    BY RankingAssumption
  <2>3. n \in Nat /\ n <= Depth
    BY <2>1, <2>2
  <2>4. list \in Seq(HitsBy[m])
    BY <2>1, <2>3, SeqDef
  <2>5. Len(list) = n
    BY <2>1, <2>3, <2>4, LenProperties
  <2> QED
    BY <2>3, <2>4, <2>5
<1>4. phase' \in {"fuse", "retrieve"} /\ (phase' = "fuse" => DOMAIN ranked' = plan.modes)
  BY <1>1
<1>5. WellTyped'
  BY <1>1, <1>4 DEF RankInv, WellTyped
<1>6. AnsweredLists'
  <2>1. /\ DOMAIN ranked \subseteq plan.modes
        /\ \A n \in DOMAIN ranked : ranked[n] \in Seq(HitsBy[n]) /\ Len(ranked[n]) <= Depth
    BY DEF RankInv, AnsweredLists
  <2>2. DOMAIN ranked' \subseteq plan'.modes
    BY <1>1, <1>2, <2>1
  <2>3. \A n \in DOMAIN ranked' : ranked'[n] \in Seq(HitsBy[n]) /\ Len(ranked'[n]) <= Depth
    BY <1>2, <1>3, <2>1
  <2> QED
    BY <1>1, <1>4, <2>2, <2>3 DEF AnsweredLists
<1>7. FusedAsRanked'
  BY <1>4 DEF FusedAsRanked, Fusing
<1>8. CitedAsNumbered'
  BY <1>1, <1>4 DEF RankInv, CitedAsNumbered
<1> QED
  BY <1>5, <1>6, <1>7, <1>8 DEF RankInv

\* The fusion is that of the lists and the plan.
LEMMA FusionOfLists ==
  ASSUME plan' = plan, ranked' = ranked
  PROVE  FusedHits' = FusedHits
<1>1. \A m, key : Places(m, key)' = Places(m, key)
  BY DEF Places
<1>2. \A key : FoundBy(key)' = FoundBy(key)
  BY DEF FoundBy, Places
<1>3. \A m, key : Best(m, key)' = Best(m, key)
  BY DEF Best, Places
<1>4. \A key : Fused(key)' = Fused(key)
  BY DEF Fused, Contribution, Weight, Best, FoundBy, Places
<1>5. \A key : BestOfAll(key)' = BestOfAll(key)
  BY DEF BestOfAll, Best, FoundBy, Places
<1>6. \A key : Shown(key)' = Shown(key)
  BY DEF Shown, BestOfAll, Best, FoundBy, Places
<1>7. Found' = Found
  BY DEF Found
<1>8. Scored' = Scored
  BY <1>4, <1>7 DEF Scored
<1>9. Wanted' = Wanted
  BY DEF Wanted
<1>10. \A a, b : Ahead(a, b)' = Ahead(a, b)
  BY <1>4, <1>5 DEF Ahead
<1>11. Keys' = Keys
  BY <1>8, <1>9, <1>10 DEF Keys, Ordered
<1> QED
  BY <1>6, <1>11 DEF FusedHits

LEMMA FuseKeeps ==
  ASSUME RankInv, Fuse
  PROVE  RankInv'
<1>1. phase = "fuse" /\ plan' = plan /\ ranked' = ranked /\ relevance' = relevance
      /\ citations' = citations /\ answer' = answer
  BY DEF Fuse
<1>2. AllAnswered /\ plan.weighted \in BOOLEAN /\ plan.rerank \in BOOLEAN
      /\ Cardinality(plan.modes) \in Nat \ {0}
  BY <1>1, ListsForFusion
<1>3. /\ DOMAIN ranked = plan.modes /\ plan.modes # {}
      /\ \A m \in plan.modes : ranked[m] \in Seq(HitsBy[m]) /\ HitsBy[m] \subseteq Hits
  <2>1. \A m \in Modes : HitsBy[m] \subseteq Hits
    BY RankingAssumption
  <2>2. plan.modes \subseteq Modes /\ DOMAIN ranked = plan.modes
        /\ \A m \in plan.modes : ranked[m] \in Seq(HitsBy[m])
    BY <1>2 DEF AllAnswered
  <2>3. plan.modes # {}
    BY <1>1 DEF RankInv, AnsweredLists
  <2> QED
    BY <2>1, <2>2, <2>3
<1>4. CASE Cardinality(plan.modes) = 1
  <2>1. PICK m \in plan.modes :
          evidence' = FirstOf(ranked[m], TopHits) /\ candidates' = <<>> /\ phase' = "cite"
    BY <1>4 DEF Fuse
  <2>2. evidence' \in Seq(Hits)
    <3>1. TopHits \in Nat
      BY RankingAssumption
    <3>2. evidence' \in Seq(HitsBy[m]) /\ HitsBy[m] \subseteq Hits
      BY <1>3, <2>1, <3>1, FirstOfList
    <3>3. DOMAIN evidence' = 1 .. Len(evidence') /\ Len(evidence') \in Nat
          /\ \A i \in 1 .. Len(evidence') : evidence'[i] \in Hits
      BY <3>2, LenProperties, ElementOfSeq
    <3>4. evidence' = [i \in 1 .. Len(evidence') |-> evidence'[i]]
      BY <3>2, LenProperties
    <3>5. evidence' \in [1 .. Len(evidence') -> Hits]
      BY <3>3, <3>4
    <3>6. evidence' \in UNION {[1 .. k -> Hits] : k \in Nat}
      BY <3>3, <3>5
    <3> QED
      BY <3>6, SeqDef
  <2>3. WellTyped'
    BY <1>1, <2>1, <2>2, EmptySeq DEF RankInv, WellTyped
  <2>4. AnsweredLists'
    BY <1>1, <1>3, <2>1 DEF RankInv, AnsweredLists
  <2>5. ~Fusing'
    BY <1>1, <1>4, <2>1 DEF Fusing
  <2>6. FusedAsRanked'
    BY <2>1, <2>5 DEF FusedAsRanked
  <2>7. CitedAsNumbered'
    BY <1>1, <2>1 DEF RankInv, CitedAsNumbered
  <2> QED
    BY <2>3, <2>4, <2>6, <2>7 DEF RankInv
<1>5. CASE Cardinality(plan.modes) # 1 /\ phase' = "refused" /\ UNCHANGED <<evidence, candidates>>
  <2>1. evidence' = evidence /\ candidates' = candidates
    BY <1>5
  <2>2. WellTyped'
    BY <1>1, <1>5, <2>1 DEF RankInv, WellTyped
  <2>3. AnsweredLists'
    BY <1>1, <1>3, <1>5 DEF RankInv, AnsweredLists
  <2>4. FusedAsRanked'
    BY <1>5 DEF FusedAsRanked, Fusing
  <2>5. CitedAsNumbered'
    BY <1>5 DEF RankInv, CitedAsNumbered
  <2> QED
    BY <2>2, <2>3, <2>4, <2>5 DEF RankInv
<1>6. CASE /\ Cardinality(plan.modes) # 1 /\ candidates' = FusedHits
           /\ evidence' = IF plan.rerank THEN <<>> ELSE candidates'
           /\ phase' = IF plan.rerank THEN "rerank" ELSE "cite"
  <2>1. FusedHits \in Seq(Hits)
    BY <1>2, FusedHitsAreFair
  <2>2. evidence' \in Seq(Hits)
    BY <1>6, <2>1, EmptySeq
  <2>3. WellTyped'
    BY <1>1, <1>6, <2>1, <2>2 DEF RankInv, WellTyped
  <2>4. AnsweredLists'
    BY <1>1, <1>3, <1>6 DEF RankInv, AnsweredLists
  <2>5. FusedHits' = FusedHits
    BY <1>1, FusionOfLists
  <2>6. Cardinality(plan'.modes) > 1
    BY <1>1, <1>2, <1>6
  <2>7. FusedAsRanked'
    BY <1>1, <1>6, <2>5, <2>6 DEF FusedAsRanked
  <2>8. CitedAsNumbered'
    BY <1>1, <1>6 DEF RankInv, CitedAsNumbered
  <2> QED
    BY <2>3, <2>4, <2>7, <2>8 DEF RankInv
<1> QED
  BY <1>4, <1>5, <1>6 DEF Fuse

LEMMA RerankKeeps ==
  ASSUME RankInv, NEW score \in [DOMAIN candidates -> Relevance], Rerank(score)
  PROVE  RankInv'
<1>1. /\ phase = "rerank" /\ phase' = "cite" /\ plan' = plan /\ ranked' = ranked
      /\ candidates' = candidates /\ citations' = citations /\ answer' = answer
      /\ relevance' = score /\ evidence' = FirstOf(Spread(MostRelevant(score)), TopHits)
  BY DEF Rerank
<1>2. AllAnswered /\ plan.weighted \in BOOLEAN
  BY <1>1, ListsForFusion
<1>3. plan.rerank /\ candidates = FusedHits /\ candidates \in Seq(Hits)
  BY <1>1 DEF RankInv, WellTyped, FusedAsRanked, Fusing
<1>4. Once(candidates)
  BY <1>2, <1>3, FusedHitsAreFair DEF Once
<1>5. Rearranges(MostRelevant(score), candidates)
  BY <1>3, <1>4, RelevanceRearranges
<1>6. evidence' \in Seq(Hits)
  <2> DEFINE hits == MostRelevant(score)
             taken == FirstOf(Spread(hits), TopHits)
  <2>1. taken \in Seq(Hits)
    <3> HIDE DEF hits
    <3> QED
      BY <1>3, <1>5, SpreadIsFair DEF hits
  <2> QED
    BY <1>1, <2>1
<1>7. score \in Seq(Relevance)
  <2>1. DOMAIN candidates = 1 .. Len(candidates) /\ Len(candidates) \in Nat
    BY <1>3, LenProperties
  <2>2. score \in UNION {[1 .. k -> Relevance] : k \in Nat}
    BY <2>1
  <2> QED
    BY <2>2, SeqDef
<1>8. WellTyped'
  BY <1>1, <1>6, <1>7 DEF RankInv, WellTyped
<1>9. AnsweredLists'
  BY <1>1 DEF RankInv, AnsweredLists
<1>10. FusedHits' = FusedHits
  <2>1. plan' = plan /\ ranked' = ranked
    BY <1>1
  <2> QED
    BY <2>1, FusionOfLists
<1>12. FusedAsRanked'
  <2>1. phase' # "rerank" /\ plan'.rerank /\ candidates' = FusedHits'
    BY <1>1, <1>3, <1>10
  <2>2. relevance' \in [DOMAIN candidates' -> Relevance]
    BY <1>1
  <2>3. relevance' = score /\ candidates' = candidates
    BY <1>1
  <2>4. Spread(MostRelevant(relevance))' = Spread(MostRelevant(score))
    <3>1. MostRelevant(relevance)' = MostRelevant(score)
      BY <2>3 DEF MostRelevant, Ordered, InOrder, MoreRelevant
    <3> QED
      BY <3>1 DEF Spread, Capped, Ordered
  <2>5. evidence' = FirstOf(Spread(MostRelevant(relevance)), TopHits)'
    BY <1>1, <2>4
  <2> QED
    BY <2>1, <2>2, <2>5 DEF FusedAsRanked
<1>13. CitedAsNumbered'
  BY <1>1 DEF RankInv, CitedAsNumbered
<1> QED
  BY <1>8, <1>9, <1>12, <1>13 DEF RankInv

LEMMA NumberingOfEvidence ==
  ASSUME evidence' = evidence
  PROVE  Numbering' = Numbering
<1>1. Mentions' = Mentions /\ \A p : Mentioned(p)' = Mentioned(p)
  BY DEF Mentions, Mentioned
<1>2. FirstMentions' = FirstMentions
  BY <1>1 DEF FirstMentions
<1> QED
  BY <1>1, <1>2 DEF Numbering, Ordered

LEMMA CompositionOfEvidence ==
  ASSUME evidence' = evidence, citations' = citations
  PROVE  Composed' = Composed
<1>1. Quoted' = Quoted
  BY DEF Quoted
<1>2. Paragraphs' = Paragraphs
  BY <1>1 DEF Paragraphs
<1>3. \A passage : NumberOf(passage)' = NumberOf(passage)
  BY DEF NumberOf
<1>4. \A h : Markers(h)' = Markers(h)
  BY <1>3 DEF Markers
<1>5. \A p : Paragraph(p)' = Paragraph(p)
  BY <1>1, <1>4 DEF Paragraph
<1> QED
  BY <1>2, <1>5 DEF Composed, Ordered

\* Nothing but the phase changes, to one in which nothing new is claimed.
LEMMA RerankFailsKeeps ==
  ASSUME RankInv, RerankFails
  PROVE  RankInv'
<1>1. /\ phase = "rerank" /\ phase' = "refused" /\ plan' = plan /\ ranked' = ranked
      /\ candidates' = candidates /\ relevance' = relevance /\ evidence' = evidence
      /\ citations' = citations /\ answer' = answer
  BY DEF RerankFails
<1>2. WellTyped'
  BY <1>1 DEF RankInv, WellTyped
<1>3. AnsweredLists'
  BY <1>1 DEF RankInv, AnsweredLists
<1>4. FusedAsRanked'
  BY <1>1 DEF FusedAsRanked, Fusing
<1>5. CitedAsNumbered'
  BY <1>1 DEF RankInv, CitedAsNumbered
<1> QED
  BY <1>2, <1>3, <1>4, <1>5 DEF RankInv

\* Once the evidence is there, what it was made from and the evidence itself rest.
LEMMA EvidenceRests ==
  ASSUME RankInv, phase \notin {"ask", "retrieve", "fuse", "rerank", "refused", "malformed"},
         phase' # "rerank", UNCHANGED <<plan, ranked, candidates, relevance, evidence>>
  PROVE  FusedAsRanked'
<1>1. /\ plan' = plan /\ ranked' = ranked /\ candidates' = candidates /\ relevance' = relevance
      /\ evidence' = evidence
  OBVIOUS
<1>2. phase \in {"cite", "generate", "validate", "answered"}
  BY DEF RankInv, WellTyped
<1>3. FusedHits' = FusedHits
  <2>1. plan' = plan /\ ranked' = ranked
    BY <1>1
  <2> QED
    BY <2>1, FusionOfLists
<1>4. Spread(MostRelevant(relevance))' = Spread(MostRelevant(relevance))
  <2>1. MostRelevant(relevance)' = MostRelevant(relevance)
    BY <1>1 DEF MostRelevant, Ordered, InOrder, MoreRelevant
  <2> QED
    BY <2>1 DEF Spread, Capped, Ordered
<1>5. ASSUME Fusing'
      PROVE  Fusing /\ phase # "rerank"
  BY <1>1, <1>2, <1>5 DEF Fusing
<1>6. FusedAsRanked
  BY DEF RankInv
<1>7. Fusing' => candidates' = FusedHits'
  BY <1>1, <1>3, <1>5, <1>6 DEF FusedAsRanked
<1>8. Fusing' /\ plan'.rerank =>
        /\ relevance' \in [DOMAIN candidates' -> Relevance]
        /\ evidence' = FirstOf(Spread(MostRelevant(relevance))', TopHits)
  BY <1>1, <1>4, <1>5, <1>6 DEF FusedAsRanked
<1>9. Fusing' /\ ~plan'.rerank => evidence' = candidates'
  BY <1>1, <1>5, <1>6 DEF FusedAsRanked
<1> QED
  BY <1>7, <1>8, <1>9 DEF FusedAsRanked

LEMMA CiteKeeps ==
  ASSUME RankInv, Cite
  PROVE  RankInv'
<1>1. /\ phase = "cite" /\ plan' = plan /\ ranked' = ranked /\ candidates' = candidates
      /\ relevance' = relevance /\ evidence' = evidence /\ answer' = answer
      /\ citations' = Numbering /\ phase' = IF evidence = <<>> THEN "answered" ELSE "generate"
  BY DEF Cite
<1>2. evidence \in Seq(Hits)
  BY DEF RankInv, WellTyped
<1>3. Numbering \in Seq(Passages)
  BY <1>2, NumberingNamesAll
<1>4. phase' \in {"answered", "generate"} /\ (phase' = "answered" => evidence = <<>>)
  BY <1>1
<1>5. WellTyped'
  BY <1>1, <1>3, <1>4 DEF RankInv, WellTyped
<1>6. AnsweredLists'
  BY <1>1, <1>4 DEF RankInv, AnsweredLists
<1>7. FusedAsRanked'
  BY <1>1, <1>4, EvidenceRests
<1>8. Numbering' = Numbering
  BY <1>1, NumberingOfEvidence
<1>9. phase' = "answered" => answer' = <<>>
  BY <1>1, <1>4 DEF RankInv, CitedAsNumbered
<1>10. CitedAsNumbered'
  BY <1>1, <1>4, <1>8, <1>9 DEF CitedAsNumbered
<1> QED
  BY <1>5, <1>6, <1>7, <1>10 DEF RankInv

LEMMA GenerateKeeps ==
  ASSUME RankInv, Generate
  PROVE  RankInv'
<1>1. /\ phase = "generate" /\ phase' = "validate" /\ plan' = plan /\ ranked' = ranked
      /\ candidates' = candidates /\ relevance' = relevance /\ evidence' = evidence
      /\ citations' = citations /\ answer' = Composed
  BY DEF Generate, Composed
<1>2. evidence \in Seq(Hits) /\ citations = Numbering
  BY <1>1 DEF RankInv, WellTyped, CitedAsNumbered
<1>3. Composed \in Seq([of : Hits, text : Seq(Nat)])
  BY <1>2, ComposedResolves
<1>4. WellTyped'
  BY <1>1, <1>3 DEF RankInv, WellTyped
<1>5. AnsweredLists'
  BY <1>1 DEF RankInv, AnsweredLists
<1>6. FusedAsRanked'
  BY <1>1, EvidenceRests
<1>7. Numbering' = Numbering
  BY <1>1, NumberingOfEvidence
<1>8. Composed' = Composed
  <2>1. evidence' = evidence /\ citations' = citations
    BY <1>1
  <2> QED
    BY <2>1, CompositionOfEvidence
<1>9. CitedAsNumbered'
  BY <1>1, <1>2, <1>7, <1>8 DEF CitedAsNumbered
<1> QED
  BY <1>4, <1>5, <1>6, <1>9 DEF RankInv

\* What was composed is never refused.
LEMMA ValidateKeeps ==
  ASSUME RankInv, Validate
  PROVE  RankInv'
<1>1. /\ phase = "validate" /\ plan' = plan /\ ranked' = ranked
      /\ candidates' = candidates /\ relevance' = relevance /\ evidence' = evidence
      /\ citations' = citations /\ answer' = answer
      /\ phase' = IF \A n \in DOMAIN answer : Valid(answer[n].text) THEN "answered" ELSE "malformed"
  BY DEF Validate
<1>2. evidence \in Seq(Hits) /\ citations = Numbering /\ answer = Composed
  BY <1>1 DEF RankInv, WellTyped, CitedAsNumbered
<1>3. \A n \in DOMAIN Composed : Resolves(Composed[n])
  BY <1>2, ComposedResolves
<1>4. \A n \in DOMAIN answer : Valid(answer[n].text)
  BY <1>2, <1>3 DEF Resolves
<1>5. phase' = "answered"
  BY <1>1, <1>4
<1>6. WellTyped'
  BY <1>1, <1>5 DEF RankInv, WellTyped
<1>7. AnsweredLists'
  BY <1>1, <1>5 DEF RankInv, AnsweredLists
<1>8. FusedAsRanked'
  BY <1>1, <1>5, EvidenceRests
<1>9. Numbering' = Numbering
  BY <1>1, NumberingOfEvidence
<1>10. Composed' = Composed
  <2>1. evidence' = evidence /\ citations' = citations
    BY <1>1
  <2> QED
    BY <2>1, CompositionOfEvidence
<1>11. CitedAsNumbered'
  BY <1>1, <1>2, <1>5, <1>9, <1>10 DEF CitedAsNumbered
<1> QED
  BY <1>6, <1>7, <1>8, <1>11 DEF RankInv

LEMMA RankInvNext == RankInv /\ [RankingNext]_rankingVars => RankInv'
<1> SUFFICES ASSUME RankInv, [RankingNext]_rankingVars
             PROVE  RankInv'
  OBVIOUS
<1>1. CASE \E modes \in Plans, weighted, rerank \in BOOLEAN : AskRanked(modes, weighted, rerank)
  BY <1>1, AskKeeps
<1>2. CASE \E m \in Modes : Retrieve(m)
  BY <1>2, RetrieveKeeps
<1>3. CASE Fuse
  BY <1>3, FuseKeeps
<1>4. CASE \E score \in [DOMAIN candidates -> Relevance] : Rerank(score)
  BY <1>4, RerankKeeps
<1>5. CASE RerankFails
  BY <1>5, RerankFailsKeeps
<1>6. CASE Cite
  BY <1>6, CiteKeeps
<1>7. CASE Generate
  BY <1>7, GenerateKeeps
<1>8. CASE Validate
  BY <1>8, ValidateKeeps
<1>9. CASE UNCHANGED rankingVars
  <2>1. /\ phase' = phase /\ plan' = plan /\ ranked' = ranked
        /\ candidates' = candidates /\ relevance' = relevance /\ evidence' = evidence
        /\ citations' = citations /\ answer' = answer
    BY <1>9 DEF rankingVars
  <2>2. WellTyped'
    BY <2>1 DEF RankInv, WellTyped
  <2>3. AnsweredLists'
    BY <2>1 DEF RankInv, AnsweredLists
  <2>4. FusedHits' = FusedHits /\ Numbering' = Numbering /\ Composed' = Composed
    BY <2>1, FusionOfLists, NumberingOfEvidence, CompositionOfEvidence
  <2>5. CitedAsNumbered'
    BY <2>1, <2>4 DEF RankInv, CitedAsNumbered
  <2>6. FusedAsRanked'
    <3>1. CASE phase \in {"cite", "generate", "validate", "answered"}
      BY <2>1, <3>1, EvidenceRests
    <3>2. CASE phase \notin {"cite", "generate", "validate", "answered"}
      <4>1. Fusing' => phase = "rerank" /\ phase' = "rerank" /\ Fusing
        BY <2>1, <3>2 DEF Fusing
      <4> QED
        BY <2>1, <2>4, <4>1 DEF RankInv, FusedAsRanked
    <3> QED
      BY <3>1, <3>2
  <2> QED
    BY <2>2, <2>3, <2>5, <2>6 DEF RankInv
<1> QED
  BY <1>1, <1>2, <1>3, <1>4, <1>5, <1>6, <1>7, <1>8, <1>9 DEF RankingNext

\* A query keeps its lists, its evidence and its numbers as they were made.
THEOREM RankInvariance == RankingSpec => []RankInv
<1> QED
  BY RankInvInit, RankInvNext, PTL DEF RankingSpec

LEMMA ElementsOfSeq ==
  ASSUME NEW S, NEW s \in Seq(S)
  PROVE  Elements(s) \subseteq S
BY LenProperties, ElementOfSeq DEF Elements

\* Every variable of a query keeps its type.
THEOREM RankingTypes == RankingSpec => []RankingTypeOK
<1>1. RankInv => RankingTypeOK
  <2> SUFFICES ASSUME RankInv
               PROVE  RankingTypeOK
    OBVIOUS
  <2>1. WellTyped /\ AnsweredLists
    BY DEF RankInv
  <2>2. plan.modes \subseteq Modes
    BY <2>1 DEF WellTyped
  <2>3. DOMAIN ranked \subseteq Modes
        /\ \A m \in DOMAIN ranked : Elements(ranked[m]) \subseteq HitsBy[m] /\ Len(ranked[m]) <= Depth
    BY <2>1, <2>2, ElementsOfSeq DEF AnsweredLists
  <2>4. Elements(candidates) \subseteq Hits /\ Elements(evidence) \subseteq Hits
        /\ Elements(relevance) \subseteq Relevance /\ Elements(citations) \subseteq Passages
    BY <2>1, ElementsOfSeq DEF WellTyped
  <2>5. \A n \in DOMAIN answer : answer[n].of \in Hits /\ Elements(answer[n].text) \subseteq Nat
    <3>1. \A n \in DOMAIN answer : answer[n] \in [of : Hits, text : Seq(Nat)]
      BY <2>1, LenProperties, ElementOfSeq DEF WellTyped
    <3>2. \A n \in DOMAIN answer : answer[n].of \in Hits /\ answer[n].text \in Seq(Nat)
      BY <3>1
    <3> QED
      BY <3>2, ElementsOfSeq
  <2> QED
    BY <2>1, <2>3, <2>4, <2>5 DEF RankingTypeOK, WellTyped
<1> QED
  BY <1>1, RankInvariance, PTL

LEMMA FusedFairlyHolds ==
  ASSUME RankInv
  PROVE  FusedFairly
<1> SUFFICES ASSUME Fusing
             PROVE  /\ \A i, j \in DOMAIN candidates : KeyOf[candidates[i]] = KeyOf[candidates[j]] => i = j
                    /\ \A a \in Found, j \in DOMAIN candidates :
                         Dominates(a, KeyOf[candidates[j]]) => \E i \in 1 .. j - 1 : KeyOf[candidates[i]] = a
  BY DEF FusedFairly
<1>1. candidates = FusedHits
  BY DEF RankInv, FusedAsRanked
<1>2. phase \notin {"ask", "retrieve"}
  BY DEF Fusing
<1>3. AllAnswered /\ plan.weighted \in BOOLEAN
  BY <1>2, ListsForFusion
<1> QED
  BY <1>1, <1>3, FusedHitsAreFair

LEMMA SpreadOverSourcesHolds ==
  ASSUME RankInv
  PROVE  SpreadOverSources
<1> SUFFICES ASSUME Fusing, phase # "rerank"
             PROVE  /\ Len(evidence) = Smaller(TopHits, Len(candidates))
                    /\ Once(evidence)
                    /\ plan.rerank => \A h \in Elements(candidates) \ Elements(evidence), s \in {HitSource[x] : x \in Hits} :
                         Cardinality(OfSource(evidence, s)) > PerSource
                           => Cardinality(OfSource(evidence, HitSource[h])) >= PerSource
  BY DEF SpreadOverSources, OfSource, Once
<1>1. candidates = FusedHits /\ candidates \in Seq(Hits)
  BY DEF RankInv, FusedAsRanked, WellTyped
<1>2. phase \notin {"ask", "retrieve"}
  BY DEF Fusing
<1>3. AllAnswered /\ plan.weighted \in BOOLEAN
  BY <1>2, ListsForFusion
<1>4. Once(candidates) /\ Len(candidates) \in Nat /\ Len(candidates) <= Wanted
  BY <1>1, <1>3, FusedHitsAreFair DEF Once
<1>5. CASE ~plan.rerank
  <2>1. evidence = candidates
    BY <1>5 DEF RankInv, FusedAsRanked
  <2>2. Len(candidates) <= TopHits /\ TopHits \in Nat
    BY <1>4, <1>5, RankingAssumption DEF Wanted
  <2>3. Len(candidates) = Smaller(TopHits, Len(candidates))
    BY <1>4, <2>2 DEF Smaller
  <2> QED
    BY <1>4, <1>5, <2>1, <2>3
<1>6. CASE plan.rerank
  <2>1. /\ relevance \in [DOMAIN candidates -> Relevance]
        /\ evidence = FirstOf(Spread(MostRelevant(relevance)), TopHits)
    BY <1>6 DEF RankInv, FusedAsRanked
  <2>2. Rearranges(MostRelevant(relevance), candidates)
    BY <1>1, <1>4, <2>1, RelevanceRearranges
  <2> QED
    BY <1>1, <2>1, <2>2, SpreadIsFair
<1> QED
  BY <1>5, <1>6

LEMMA CitationsResolveHolds ==
  ASSUME RankInv
  PROVE  CitationsResolve
<1>1. phase # "malformed"
  BY DEF RankInv, CitedAsNumbered
<1>2. ASSUME phase = "answered", NEW n \in DOMAIN answer
      PROVE  {citations[k] : k \in Elements(answer[n].text) \ {0}} = Elements(PassagesOf[answer[n].of])
  <2>1. evidence \in Seq(Hits) /\ citations = Numbering /\ (answer = <<>> \/ answer = Composed)
    BY <1>2 DEF RankInv, WellTyped, CitedAsNumbered
  <2>2. answer = Composed
    BY <1>2, <2>1
  <2>3. Resolves(Composed[n])
    BY <1>2, <2>1, <2>2, ComposedResolves
  <2> QED
    BY <2>2, <2>3 DEF Resolves
<1> QED
  BY <1>1, <1>2 DEF CitationsResolve

\* Whatever the retrievers, the weights and the cross-encoder return, a document is fused once
\* and never behind one that every list ranks lower, the evidence is spread over the sources,
\* and an answer cites the passages of the hits it quotes, whatever labels they contain.
THEOREM RankingIsSound == RankingSpec => []RankingSound
<1>1. RankInv => RankingSound
  BY FusedFairlyHolds, SpreadOverSourcesHolds, CitationsResolveHolds DEF RankingSound
<1> QED
  BY <1>1, RankInvariance, PTL
=============================================================================
