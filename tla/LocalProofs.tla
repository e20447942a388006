------------------------------ MODULE LocalProofs ------------------------------
(* Theorems about Crawling, for any sites, limits and links, and about the composition of the   *)
(* crawl with the local indexes, the migration and the ranking, which have theorems of their    *)
(* own in LocalIndexingProofs, MigrationProofs and RankingProofs.                              *)
EXTENDS MCLocal, LocalIndexingProofs, MigrationProofs, RankingProofs

-----------------------------------------------------------------------------
(* The invariant *)

Page == [first : SameHost, at : SameHost, canonical : SameHost, text : Texts]
Asked == [first : Urls \cup {NoUrl}, now : Urls \cup {NoUrl}, hops : 0 .. MaxRedirects]

\* As CrawlTypeOK, with the lists as sequences and a finite set of queued links.
Typed ==
  /\ crawl \in {"seed", "robots", "next", "fetch", "done", "failed"} /\ follows \in BOOLEAN
  /\ disallowed \subseteq Urls /\ private \subseteq Urls /\ contacted \in Urls \cup {NoUrl}
  /\ queue \in Seq(SameHost) /\ attempts \in Seq(SameHost)
  /\ queued \subseteq SameHost /\ IsFiniteSet(queued)
  /\ asked \in Asked /\ fetched \in Nat /\ failures \in Seq(SameHost)
  /\ pages \in Seq(Page)

Distinct(s) == \A i, j \in DOMAIN s : i # j => s[i] # s[j]

\* What was ever queued, in its order: what was taken from the queue, and what is still in it.
Order == attempts \o queue

EachOnce ==
  /\ Order # <<>> /\ Order[1] = Seed
  /\ Distinct(Order) /\ Among(Order) = queued
  /\ Cardinality(queued) <= Room

\* Each attempt is at work, indexed or listed as a failure, and that of the seed is never listed.
AllAccounted ==
  /\ crawl \in {"seed", "robots"} => attempts = <<>> /\ pages = <<>> /\ fetched = 0 /\ failures = <<>>
  /\ crawl = "next" => /\ Len(attempts) = Len(pages) + Len(failures)
                       /\ pages = <<>> <=> Len(attempts) = 0
  /\ crawl = "fetch" => /\ Len(attempts) = Len(pages) + Len(failures) + 1
                        /\ pages = <<>> <=> Len(attempts) = 1
  /\ crawl = "done" => /\ Len(attempts) = Len(pages) + Len(failures)
                       /\ pages # <<>>
                       /\ fetched = PageLimit \/ queue = <<>>

AtWork ==
  /\ crawl = "robots" => asked.now \in Urls
  /\ crawl = "fetch" => /\ attempts # <<>> /\ asked.first = attempts[Len(attempts)]
                        /\ asked.first \notin disallowed /\ asked.now \in Urls
                        /\ fetched < PageLimit
  /\ fetched <= PageLimit /\ Len(pages) <= fetched

PagesDiffer ==
  /\ contacted \notin private
  /\ \A i \in DOMAIN pages : pages[i].first \notin disallowed /\ (pages[i].first = Seed <=> i = 1)
  /\ \A i, j \in DOMAIN pages : i # j => /\ pages[i].canonical # pages[j].canonical
                                         /\ pages[i].text # pages[j].text

CrawlInv == Typed /\ EachOnce /\ AllAccounted /\ AtWork /\ PagesDiffer

-----------------------------------------------------------------------------
(* Lists *)

LEMMA RoomForOne == Room \in Nat /\ Room >= 1
<1>1. PageLimit \in Nat /\ QueueFactor \in Nat /\ PageLimit >= 1 /\ QueueFactor >= 1
  BY CrawlingAssumption
<1>2. PageLimit * QueueFactor \in Nat /\ PageLimit * QueueFactor >= 1
  BY <1>1
<1> QED
  BY <1>2 DEF Room

\* Taking the head of the queue leaves what was ever queued as it was.
LEMMA TakingKeepsOrder ==
  ASSUME NEW S, NEW s \in Seq(S), NEW q \in Seq(S), q # <<>>
  PROVE  Append(s, Head(q)) \o Tail(q) = s \o q
<1>1. Head(q) \in S /\ Tail(q) \in Seq(S) /\ Append(s, Head(q)) \in Seq(S) /\ q = <<Head(q)>> \o Tail(q)
  <2>1. /\ Head(q) \in S /\ Tail(q) \in Seq(S) /\ Len(Tail(q)) = Len(q) - 1
        /\ \A i \in 1 .. Len(Tail(q)) : Tail(q)[i] = q[i + 1]
    BY HeadTailProperties
  <2>2. /\ <<Head(q)>> \in Seq(S) /\ Len(<<Head(q)>>) = 1 /\ <<Head(q)>>[1] = q[1]
        /\ Len(q) \in Nat \ {0} /\ Append(s, Head(q)) \in Seq(S)
    BY <2>1, EmptySeq
  <2>3. /\ <<Head(q)>> \o Tail(q) \in Seq(S) /\ Len(<<Head(q)>> \o Tail(q)) = Len(q)
        /\ \A i \in 1 .. Len(q) : (<<Head(q)>> \o Tail(q))[i] = IF i <= 1 THEN <<Head(q)>>[i] ELSE Tail(q)[i - 1]
    BY <2>1, <2>2, ConcatProperties
  <2>4. \A i \in 1 .. Len(q) : (<<Head(q)>> \o Tail(q))[i] = q[i]
    BY <2>1, <2>2, <2>3
  <2> QED
    BY <2>1, <2>2, <2>3, <2>4, SeqEqual
<1>2. Append(s, Head(q)) = s \o <<Head(q)>> /\ <<Head(q)>> \in Seq(S)
  BY <1>1, AppendIsConcat
<1> QED
  BY <1>1, <1>2, ConcatAssociative

\* What two lists hold together, and when nothing of it comes twice.
LEMMA ListsTogether ==
  ASSUME NEW S, NEW s \in Seq(S), NEW t \in Seq(S)
  PROVE  /\ Among(s \o t) = Among(s) \cup Among(t)
         /\ Distinct(s) /\ Distinct(t) /\ Among(s) \cap Among(t) = {} => Distinct(s \o t)
         /\ Distinct(s \o t) => Distinct(s)
<1>1. /\ DOMAIN s = 1 .. Len(s) /\ DOMAIN t = 1 .. Len(t) /\ DOMAIN (s \o t) = 1 .. Len(s) + Len(t)
      /\ Len(s) \in Nat /\ Len(t) \in Nat
  BY ConcatProperties, LenProperties
<1>2. \A i \in DOMAIN (s \o t) : \/ i \in DOMAIN s /\ (s \o t)[i] = s[i]
                                 \/ /\ i > Len(s) /\ i - Len(s) \in DOMAIN t
                                    /\ (s \o t)[i] = t[i - Len(s)]
  BY <1>1, ConcatProperties
<1>3. \A i \in DOMAIN s : i \in DOMAIN (s \o t) /\ (s \o t)[i] = s[i]
  BY <1>1, ConcatProperties
<1>4. \A i \in DOMAIN t : Len(s) + i \in DOMAIN (s \o t) /\ (s \o t)[Len(s) + i] = t[i]
  <2> SUFFICES ASSUME NEW i \in DOMAIN t
               PROVE  Len(s) + i \in DOMAIN (s \o t) /\ (s \o t)[Len(s) + i] = t[i]
    OBVIOUS
  <2>1. Len(s) + i \in 1 .. Len(s) + Len(t) /\ ~(Len(s) + i <= Len(s)) /\ Len(s) + i - Len(s) = i
    BY <1>1
  <2> QED
    BY <1>1, <2>1, ConcatProperties
<1>5. Among(s \o t) = Among(s) \cup Among(t)
  <2>1. Among(s \o t) \subseteq Among(s) \cup Among(t)
    BY <1>2 DEF Among
  <2>2. Among(s) \subseteq Among(s \o t) /\ Among(t) \subseteq Among(s \o t)
    BY <1>3, <1>4 DEF Among
  <2> QED
    BY <2>1, <2>2
<1>6. ASSUME Distinct(s), Distinct(t), Among(s) \cap Among(t) = {},
             NEW i \in DOMAIN (s \o t), NEW j \in DOMAIN (s \o t), i # j
      PROVE  (s \o t)[i] # (s \o t)[j]
  <2>1. CASE i \in DOMAIN s /\ j \in DOMAIN s
    BY <1>3, <1>6, <2>1 DEF Distinct
  <2>2. CASE i \notin DOMAIN s /\ j \notin DOMAIN s
    <3>1. i - Len(s) # j - Len(s)
      BY <1>1, <1>6
    <3> QED
      BY <1>2, <1>6, <2>2, <3>1 DEF Distinct
  <2>3. CASE i \in DOMAIN s /\ j \notin DOMAIN s
    <3>1. (s \o t)[i] \in Among(s) /\ (s \o t)[j] \in Among(t)
      BY <1>2, <1>3, <2>3 DEF Among
    <3> QED
      BY <1>6, <3>1
  <2>4. CASE i \notin DOMAIN s /\ j \in DOMAIN s
    <3>1. (s \o t)[j] \in Among(s) /\ (s \o t)[i] \in Among(t)
      BY <1>2, <1>3, <2>4 DEF Among
    <3> QED
      BY <1>6, <3>1
  <2> QED
    BY <2>1, <2>2, <2>3, <2>4
<1>7. Distinct(s \o t) => Distinct(s)
  BY <1>3 DEF Distinct
<1> QED
  BY <1>5, <1>6, <1>7 DEF Distinct

-----------------------------------------------------------------------------
(* The links of a page *)

\* The links that join the queue are of the host, none of them twice, none of them was there
\* before, and there is room for them.
LEMMA FreshLinksFit ==
  ASSUME NEW links \in Seq(Urls \cup {Malformed}), IsFiniteSet(queued), Cardinality(queued) <= Room
  PROVE  /\ FreshLinks(links) \in Seq(SameHost) /\ Distinct(FreshLinks(links))
         /\ Among(FreshLinks(links)) \cap queued = {}
         /\ IsFiniteSet(queued \cup Among(FreshLinks(links)))
         /\ Cardinality(queued \cup Among(FreshLinks(links))) <= Room
<1> DEFINE first == {i \in DOMAIN links : /\ OnHost(links[i]) /\ links[i] \notin queued
                                          /\ \A j \in 1 .. i - 1 : links[j] # links[i]}
           upTo(i) == {j \in first : j <= i}
           rank(i) == Cardinality(upTo(i))
           taken == {i \in first : Cardinality(queued) + rank(i) <= Room}
           K == Cardinality(taken)
           pick(n) == CHOOSE i \in taken : rank(i) = n
           new == FreshLinks(links)
<1>1. new = [n \in 1 .. K |-> links[pick(n)]]
  BY DEF FreshLinks
<1>2. /\ DOMAIN links = 1 .. Len(links) /\ Len(links) \in Nat /\ first \subseteq 1 .. Len(links)
      /\ IsFiniteSet(first) /\ IsFiniteSet(taken) /\ K \in Nat
  <2>1. DOMAIN links = 1 .. Len(links) /\ Len(links) \in Nat
    BY LenProperties
  <2>2. IsFiniteSet(1 .. Len(links)) /\ first \subseteq 1 .. Len(links) /\ taken \subseteq first
    BY <2>1, FS_Interval
  <2>3. IsFiniteSet(first)
    BY <2>2, FS_Subset
  <2>4. IsFiniteSet(taken)
    BY <2>2, <2>3, FS_Subset
  <2> QED
    BY <2>1, <2>2, <2>3, <2>4, FS_CardinalityType
<1> HIDE DEF first, new
<1>3. \A i \in first : IsFiniteSet(upTo(i)) /\ rank(i) \in Nat /\ rank(i) >= 1 /\ i \in Nat
  <2> SUFFICES ASSUME NEW i \in first
               PROVE  IsFiniteSet(upTo(i)) /\ rank(i) \in Nat /\ rank(i) >= 1 /\ i \in Nat
    OBVIOUS
  <2>1. i \in Nat /\ upTo(i) \subseteq first /\ i \in upTo(i)
    BY <1>2
  <2>2. IsFiniteSet(upTo(i))
    BY <1>2, <2>1, FS_Subset
  <2>3. rank(i) \in Nat /\ rank(i) # 0
    BY <2>1, <2>2, FS_CardinalityType, FS_EmptySet
  <2> QED
    BY <2>1, <2>2, <2>3
<1>4. \A i, j \in first : i < j => rank(i) < rank(j)
  <2> SUFFICES ASSUME NEW i \in first, NEW j \in first, i < j
               PROVE  rank(i) < rank(j)
    OBVIOUS
  <2>1. first \subseteq Nat
    BY <1>2
  <2>2. upTo(i) \subseteq upTo(j) /\ j \in upTo(j) /\ j \notin upTo(i)
    <3>1. \A k \in Nat : k <= i => k <= j
      BY <2>1
    <3>2. j <= j /\ ~(j <= i)
      BY <2>1
    <3> QED
      BY <2>1, <3>1, <3>2
  <2>3. IsFiniteSet(upTo(j)) /\ rank(i) \in Nat /\ rank(j) \in Nat
    BY <1>3
  <2> HIDE DEF upTo
  <2>4. rank(i) <= rank(j) /\ (rank(j) = rank(i) => upTo(j) = upTo(i))
    BY <2>2, <2>3, FS_Subset
  <2> HIDE DEF rank
  <2> QED
    BY <2>2, <2>3, <2>4
<1> HIDE DEF upTo
<1>5. \A i \in taken : rank(i) \in 1 .. K
  <2> SUFFICES ASSUME NEW i \in taken
               PROVE  rank(i) \in 1 .. K
    OBVIOUS
  <2>1. upTo(i) \subseteq taken
    <3> SUFFICES ASSUME NEW j \in upTo(i)
                 PROVE  j \in taken
      OBVIOUS
    <3>1. i \in first /\ j \in first /\ j <= i /\ Cardinality(queued) + rank(i) <= Room
      BY DEF upTo
    <3>2. j = i \/ rank(j) < rank(i)
      BY <1>3, <1>4, <3>1
    <3>3. rank(i) \in Nat /\ rank(j) \in Nat /\ Cardinality(queued) \in Nat /\ Room \in Nat
      BY <1>3, <3>1, FS_CardinalityType, RoomForOne
    <3>4. Cardinality(queued) + rank(j) <= Room
      <4> HIDE DEF rank
      <4> QED
        BY <3>1, <3>2, <3>3
    <3> QED
      BY <3>1, <3>4
  <2>2. rank(i) <= K
    BY <1>2, <2>1, FS_Subset
  <2> QED
    BY <1>2, <1>3, <2>2
<1> HIDE DEF rank
<1>6. \A n \in 1 .. K : \E i \in taken : rank(i) = n
  <2> DEFINE place == [i \in taken |-> rank(i)]
  <2>1. place \in [taken -> 1 .. K]
    BY <1>5
  <2>2. \A i, j \in taken : place[i] = place[j] => i = j
    <3> SUFFICES ASSUME NEW i \in taken, NEW j \in taken, rank(i) = rank(j)
                 PROVE  i = j
      OBVIOUS
    <3>1. i \in Nat /\ j \in Nat /\ rank(i) \in Nat /\ rank(j) \in Nat
      BY <1>3
    <3>2. ~(i < j) /\ ~(j < i)
      BY <1>4, <3>1
    <3> QED
      BY <3>1, <3>2
  <2>3. place \in Injection(taken, 1 .. K)
    BY <2>1, <2>2 DEF Injection, IsInjective
  <2>4. IsFiniteSet(1 .. K) /\ Cardinality(1 .. K) = K
    BY <1>2, FS_Interval
  <2>5. place \in Surjection(taken, 1 .. K)
    BY <2>3, <2>4, FS_Injection
  <2> QED
    BY <2>5 DEF Surjection
<1>7. \A n \in 1 .. K : pick(n) \in taken /\ rank(pick(n)) = n
  BY <1>6
<1>8. \A n \in 1 .. K : /\ links[pick(n)] \in SameHost /\ links[pick(n)] \notin queued
                        /\ new[n] = links[pick(n)]
  BY <1>1, <1>7 DEF first, OnHost
<1>9. new \in Seq(SameHost) /\ DOMAIN new = 1 .. K
  <2>1. new \in [1 .. K -> SameHost]
    BY <1>1, <1>8
  <2>2. new \in UNION {[1 .. n -> SameHost] : n \in Nat}
    BY <1>2, <2>1
  <2> QED
    BY <2>1, <2>2, SeqDef
<1>10. Distinct(new)
  <2> SUFFICES ASSUME NEW m \in 1 .. K, NEW n \in 1 .. K, m # n
               PROVE  new[m] # new[n]
    BY <1>9 DEF Distinct
  <2>1. pick(m) \in first /\ pick(n) \in first /\ pick(m) # pick(n)
    BY <1>7
  <2>2. \A i, j \in first : i < j => links[i] # links[j]
    BY <1>2 DEF first
  <2>3. links[pick(m)] # links[pick(n)]
    BY <1>3, <2>1, <2>2
  <2> QED
    BY <1>8, <2>3
<1>11. Among(new) \cap queued = {}
  BY <1>8, <1>9 DEF Among
<1>12. IsFiniteSet(Among(new)) /\ Cardinality(Among(new)) <= K
  <2>1. new \in Surjection(1 .. K, Among(new))
    BY <1>9, LenProperties DEF Surjection, Among
  <2>2. IsFiniteSet(1 .. K) /\ Cardinality(1 .. K) = K
    BY <1>2, FS_Interval
  <2> QED
    BY <2>1, <2>2, FS_Surjection
<1>13. IsFiniteSet(queued \cup Among(new)) /\ Cardinality(queued \cup Among(new)) <= Room
  <2>1. /\ IsFiniteSet(queued \cup Among(new))
        /\ Cardinality(queued \cup Among(new)) = Cardinality(queued) + Cardinality(Among(new)) - 0
    BY <1>11, <1>12, FS_Union, FS_EmptySet
  <2>2. Cardinality(queued) \in Nat /\ Cardinality(Among(new)) \in Nat /\ Room \in Nat
    BY <1>12, FS_CardinalityType, RoomForOne
  <2>3. K = 0 \/ Cardinality(queued) + K <= Room
    <3>1. CASE K # 0
      <4>1. \A i \in taken : Cardinality(queued) + rank(i) <= Room
        OBVIOUS
      <4>2. K \in 1 .. K
        <5> HIDE DEF K
        <5> QED
          BY <1>2, <3>1
      <4>3. PICK i \in taken : rank(i) = K
        BY <1>6, <4>2
      <4> QED
        BY <4>1, <4>3
    <3> QED
      BY <3>1
  <2> QED
    BY <1>2, <1>12, <2>1, <2>2, <2>3
<1> QED
  BY <1>9, <1>10, <1>11, <1>13 DEF new

-----------------------------------------------------------------------------
(* Steps *)

LEMMA NotAskingIsTyped == NotAsking \in Asked
  BY CrawlingAssumption DEF NotAsking, Asked

LEMMA AskIsTyped ==
  ASSUME NEW url \in SameHost
  PROVE  Ask(url) \in Asked /\ Ask(url).first = url /\ Ask(url).now = url /\ url \in Urls
  BY CrawlingAssumption DEF Ask, Asked

LEMMA CrawlBegins ==
  ASSUME CrawlInit
  PROVE  CrawlInv
<1>1. Typed
  <2>1. <<Seed>> \in Seq(SameHost) /\ <<>> \in Seq(SameHost) /\ <<>> \in Seq(Page)
    BY CrawlingAssumption
  <2>2. IsFiniteSet({Seed}) /\ {Seed} \subseteq SameHost
    BY CrawlingAssumption, FS_Singleton
  <2> QED
    BY <2>1, <2>2, NotAskingIsTyped DEF CrawlInit, Typed
<1>2. Order = <<Seed>>
  BY CrawlingAssumption, ConcatEmptySeq DEF CrawlInit, Order
<1>3. EachOnce
  <2>1. Order # <<>> /\ Order[1] = Seed /\ Distinct(Order) /\ Among(Order) = {Seed}
    BY <1>2 DEF Distinct, Among
  <2>2. Cardinality(queued) <= Room
    BY FS_Singleton, RoomForOne DEF CrawlInit
  <2> QED
    BY <2>1, <2>2 DEF CrawlInit, EachOnce
<1>4. AllAccounted /\ AtWork /\ PagesDiffer
  BY CrawlingAssumption DEF CrawlInit, AllAccounted, AtWork, PagesDiffer
<1> QED
  BY <1>1, <1>3, <1>4 DEF CrawlInv

LEMMA BeginningKeeps ==
  ASSUME CrawlInv, AskRobots \/ RefuseSeed
  PROVE  CrawlInv'
<1>1. /\ crawl = "seed" /\ UNCHANGED <<site, queue, queued, fetched, pages, failures, attempts, contacted>>
      /\ \/ crawl' = "failed" /\ asked' = asked
         \/ crawl' = "robots" /\ asked' = Ask(Robots)
  BY DEF AskRobots, RefuseSeed
<1>2. Ask(Robots) \in Asked /\ Ask(Robots).now \in Urls
  BY AskIsTyped, CrawlingAssumption
<1>3. Typed'
  BY <1>1, <1>2 DEF CrawlInv, Typed, site
<1>4. EachOnce' /\ AllAccounted' /\ AtWork' /\ PagesDiffer'
  BY <1>1, <1>2 DEF CrawlInv, EachOnce, Order, AllAccounted, AtWork, PagesDiffer, site
<1> QED
  BY <1>3, <1>4 DEF CrawlInv

\* What is done with robots.txt: the rules stay, or there are none.
LEMMA RobotsKeep ==
  ASSUME CrawlInv, crawl = "robots", crawl' = "next", asked' = NotAsking, disallowed' \in {disallowed, {}},
         Contact \/ UNCHANGED contacted,
         UNCHANGED <<follows, private, queue, queued, fetched, pages, failures, attempts>>
  PROVE  CrawlInv'
<1>1. Typed'
  BY NotAskingIsTyped DEF CrawlInv, Typed, AtWork, Contact
<1>2. EachOnce'
  BY DEF CrawlInv, EachOnce, Order
<1>3. AllAccounted' /\ AtWork'
  <2>1. /\ attempts' = <<>> /\ pages' = <<>> /\ fetched' = fetched /\ failures' = <<>>
        /\ fetched = 0
    BY DEF CrawlInv, AllAccounted
  <2>2. Len(attempts') = 0 /\ Len(pages') = 0 /\ Len(failures') = 0
    BY <2>1
  <2> QED
    BY <2>1, <2>2, CrawlingAssumption DEF AllAccounted, AtWork
<1>4. PagesDiffer'
  BY DEF CrawlInv, PagesDiffer, AllAccounted, Contact
<1> QED
  BY <1>1, <1>2, <1>3, <1>4 DEF CrawlInv

\* A crawl that fails leaves its lists as they were.
LEMMA BreaksKeep ==
  ASSUME CrawlInv, Breaks, Contact \/ UNCHANGED contacted, asked.now \in Urls,
         fetched' \in Nat, fetched' <= PageLimit, fetched <= fetched',
         UNCHANGED <<site, queue, queued, pages, attempts>>
  PROVE  CrawlInv'
<1>1. Typed' /\ EachOnce'
  BY NotAskingIsTyped DEF CrawlInv, Typed, EachOnce, Order, Contact, Breaks, site
<1>2. Len(pages) \in Nat /\ fetched \in Nat
  BY LenProperties DEF CrawlInv, Typed
<1>3. AllAccounted' /\ AtWork' /\ PagesDiffer'
  BY <1>2 DEF CrawlInv, AllAccounted, AtWork, PagesDiffer, Contact, Breaks, site
<1> QED
  BY <1>1, <1>3 DEF CrawlInv

\* Where the seed stands in the attempts.
LEMMA SeedIsFirst ==
  ASSUME Typed, EachOnce
  PROVE  /\ Len(attempts) \in Nat /\ (attempts = <<>> <=> Len(attempts) = 0)
         /\ \A i \in 1 .. Len(attempts) : attempts[i] = Seed <=> i = 1
         /\ attempts = <<>> /\ queue # <<>> => Head(queue) = Seed
         /\ attempts # <<>> /\ queue # <<>> => Head(queue) # Seed
         /\ Distinct(attempts)
<1>1. /\ attempts \in Seq(SameHost) /\ queue \in Seq(SameHost)
      /\ DOMAIN attempts = 1 .. Len(attempts) /\ Len(attempts) \in Nat /\ Len(queue) \in Nat
      /\ (attempts = <<>> <=> Len(attempts) = 0) /\ (queue = <<>> <=> Len(queue) = 0)
  BY EmptySeq, LenProperties DEF Typed
<1>2. /\ DOMAIN Order = 1 .. Len(attempts) + Len(queue) /\ Len(Order) = Len(attempts) + Len(queue)
      /\ \A i \in 1 .. Len(attempts) + Len(queue) :
            Order[i] = IF i <= Len(attempts) THEN attempts[i] ELSE queue[i - Len(attempts)]
  BY <1>1, ConcatProperties, LenProperties DEF Order
<1>3. \A i \in DOMAIN Order : Order[i] = Seed <=> i = 1
  <2>1. 1 \in DOMAIN Order
    <3>1. Order \in Seq(SameHost) /\ Order # <<>>
      BY <1>1, ConcatProperties DEF Order, EachOnce
    <3>2. Len(Order) \in Nat \ {0}
      BY <3>1, EmptySeq
    <3> QED
      BY <1>1, <1>2, <3>2
  <2> QED
    BY <2>1 DEF EachOnce, Distinct
<1>4. \A i \in 1 .. Len(attempts) : i \in DOMAIN Order /\ Order[i] = attempts[i]
  BY <1>1, <1>2
<1>5. \A i \in 1 .. Len(attempts) : attempts[i] = Seed <=> i = 1
  BY <1>3, <1>4
<1>6. ASSUME queue # <<>>
      PROVE  Head(queue) = Seed <=> attempts = <<>>
  <2>1. /\ Len(attempts) + 1 \in DOMAIN Order /\ Len(attempts) + 1 - Len(attempts) = 1
        /\ ~(Len(attempts) + 1 <= Len(attempts))
    BY <1>1, <1>2, <1>6
  <2>2. Order[Len(attempts) + 1] = queue[1]
    BY <1>2, <2>1
  <2>3. Head(queue) = queue[1]
    BY <1>1, <1>6
  <2>4. Len(attempts) + 1 = 1 <=> attempts = <<>>
    BY <1>1
  <2> QED
    BY <1>3, <2>1, <2>2, <2>3, <2>4
<1>7. Distinct(attempts)
  BY <1>1, ListsTogether DEF EachOnce, Order
<1> QED
  BY <1>1, <1>5, <1>6, <1>7

\* A failure is listed.
LEMMA NotesAreCounted ==
  ASSUME NEW url \in SameHost, failures \in Seq(SameHost), Notes(url)
  PROVE  /\ crawl' = "next" /\ asked' = NotAsking /\ failures' \in Seq(SameHost)
         /\ Len(failures) \in Nat /\ Len(failures') = Len(failures) + 1
  BY AppendProperties, LenProperties DEF Notes

\* That of the seed ends the crawl.
LEMMA SkipsAreNoted ==
  ASSUME NEW url \in SameHost, failures \in Seq(SameHost), SkipOf(url)
  PROVE  /\ crawl' \in {"next", "failed"} /\ asked' = NotAsking /\ failures' \in Seq(SameHost)
         /\ Len(failures) \in Nat /\ Len(failures') \in Nat
         /\ crawl' = "next" => url # Seed /\ Len(failures') = Len(failures) + 1
<1>1. Len(failures) \in Nat
  BY LenProperties
<1> QED
  BY <1>1, NotesAreCounted DEF SkipOf, Breaks, Notes

LEMMA TakeKeeps ==
  ASSUME CrawlInv, TakeUrl
  PROVE  CrawlInv'
<1> DEFINE url == Head(queue)
<1>1. /\ crawl = "next" /\ queue # <<>> /\ fetched < PageLimit
      /\ queue' = Tail(queue) /\ attempts' = Append(attempts, url)
      /\ queued' = queued /\ fetched' = fetched /\ pages' = pages /\ contacted' = contacted
      /\ UNCHANGED site
  BY DEF TakeUrl, UnderLimit
<1>2. /\ queue \in Seq(SameHost) /\ attempts \in Seq(SameHost) /\ url \in SameHost
      /\ Tail(queue) \in Seq(SameHost) /\ attempts' \in Seq(SameHost)
      /\ Len(attempts') = Len(attempts) + 1 /\ attempts'[Len(attempts')] = url
      /\ Len(attempts) \in Nat /\ failures \in Seq(SameHost) /\ attempts' # <<>>
  <2>1. queue \in Seq(SameHost) /\ attempts \in Seq(SameHost) /\ failures \in Seq(SameHost)
    BY DEF CrawlInv, Typed
  <2>2. url \in SameHost /\ Tail(queue) \in Seq(SameHost)
    BY <1>1, <2>1, HeadTailProperties
  <2>3. /\ attempts' \in Seq(SameHost) /\ Len(attempts') = Len(attempts) + 1
        /\ attempts'[Len(attempts')] = url /\ Len(attempts) \in Nat
    BY <1>1, <2>1, <2>2, AppendProperties, LenProperties
  <2>4. attempts' # <<>>
    BY <2>3, EmptySeq
  <2> QED
    BY <2>1, <2>2, <2>3, <2>4
<1>3. /\ failures' \in Seq(SameHost) /\ Len(failures) \in Nat /\ Len(failures') \in Nat
      /\ \/ /\ crawl' \in {"next", "failed"} /\ asked' = NotAsking
            /\ crawl' = "next" => url # Seed /\ Len(failures') = Len(failures) + 1
         \/ /\ url \notin disallowed /\ crawl' = "fetch" /\ failures' = failures
            /\ asked' = Ask(url)
  BY <1>2, SkipsAreNoted, LenProperties DEF TakeUrl
<1>4. Typed'
  <2>1. asked' \in Asked /\ crawl' \in {"next", "failed", "fetch"}
    BY <1>2, <1>3, NotAskingIsTyped, AskIsTyped
  <2> QED
    BY <1>1, <1>2, <1>3, <2>1 DEF CrawlInv, Typed, site
<1>5. EachOnce'
  <2>1. Order' = Order
    BY <1>1, <1>2, TakingKeepsOrder DEF Order
  <2> QED
    BY <1>1, <2>1 DEF CrawlInv, EachOnce
<1>6. AllAccounted'
  <2>1. /\ Len(attempts) = Len(pages) + Len(failures) /\ (pages = <<>> <=> Len(attempts) = 0)
        /\ Len(pages) \in Nat
    BY <1>1, LenProperties DEF CrawlInv, AllAccounted, Typed
  <2>2. url = Seed <=> Len(attempts) = 0
    BY <1>1, SeedIsFirst DEF CrawlInv
  <2>3. attempts' # <<>> /\ Len(attempts') = Len(attempts) + 1 /\ pages' = pages
    BY <1>1, <1>2
  <2>4. CASE crawl' = "fetch" /\ failures' = failures
    BY <1>2, <1>3, <2>1, <2>3, <2>4 DEF AllAccounted
  <2>5. CASE crawl' = "next" /\ url # Seed /\ Len(failures') = Len(failures) + 1
    <3>1. Len(attempts') = Len(pages) + Len(failures') /\ Len(attempts') # 0 /\ pages # <<>>
      BY <1>2, <1>3, <2>1, <2>2, <2>3, <2>5
    <3> QED
      BY <2>3, <2>5, <3>1 DEF AllAccounted
  <2>6. CASE crawl' = "failed"
    BY <2>6 DEF AllAccounted
  <2> QED
    BY <1>3, <2>4, <2>5, <2>6
<1>7. AtWork'
  BY <1>1, <1>2, <1>3, AskIsTyped DEF CrawlInv, AtWork, site
<1>8. PagesDiffer'
  BY <1>1 DEF CrawlInv, PagesDiffer, site
<1> QED
  BY <1>4, <1>5, <1>6, <1>7, <1>8 DEF CrawlInv

LEMMA FetchKeeps ==
  ASSUME CrawlInv, Abandons, Contact \/ UNCHANGED contacted,
         UNCHANGED <<follows, private, queue, queued, fetched, pages, attempts>>
  PROVE  CrawlInv'
<1>1. CASE crawl = "robots"
  <2>1. crawl' = "next" /\ asked' = NotAsking /\ disallowed' = {} /\ failures' = failures
    BY <1>1 DEF Abandons
  <2> QED
    BY <1>1, <2>1, RobotsKeep
<1>2. CASE crawl = "fetch"
  <2>1. SkipOf(asked.first) /\ UNCHANGED site
    BY <1>2 DEF Abandons, site
  <2>2. /\ Len(pages) \in Nat /\ Len(attempts) \in Nat /\ failures \in Seq(SameHost)
        /\ attempts \in Seq(SameHost)
    BY LenProperties DEF CrawlInv, Typed
  <2>3. /\ asked.first = attempts[Len(attempts)] /\ attempts # <<>> /\ asked.now \in Urls
        /\ Len(attempts) = Len(pages) + Len(failures) + 1 /\ (pages = <<>> <=> Len(attempts) = 1)
    BY <1>2 DEF CrawlInv, AtWork, AllAccounted
  <2>4. Len(attempts) \in 1 .. Len(attempts)
    BY <2>2, <2>3, SeedIsFirst DEF CrawlInv
  <2>5. (asked.first = Seed <=> Len(attempts) = 1) /\ asked.first \in SameHost
    BY <2>2, <2>3, <2>4, SeedIsFirst, ElementOfSeq DEF CrawlInv
  <2>6. /\ crawl' \in {"next", "failed"} /\ asked' = NotAsking /\ failures' \in Seq(SameHost)
        /\ Len(failures) \in Nat
        /\ crawl' = "next" => asked.first # Seed /\ Len(failures') = Len(failures) + 1
    BY <2>1, <2>2, <2>5, SkipsAreNoted
  <2>7. Typed'
    BY <2>1, <2>3, <2>6, NotAskingIsTyped DEF CrawlInv, Typed, Contact, site
  <2>8. EachOnce'
    BY DEF CrawlInv, EachOnce, Order
  <2>9. AllAccounted'
    BY <2>2, <2>3, <2>4, <2>5, <2>6 DEF AllAccounted
  <2>10. AtWork' /\ PagesDiffer'
    BY <2>1, <2>6 DEF CrawlInv, AtWork, PagesDiffer, Contact, site
  <2> QED
    BY <2>7, <2>8, <2>9, <2>10 DEF CrawlInv
<1> QED
  BY <1>1, <1>2 DEF Abandons

LEMMA RedirectKeeps ==
  ASSUME CrawlInv, NEW url \in Urls \cup {Malformed}, Redirect(url)
  PROVE  CrawlInv'
<1>1. /\ crawl \in {"robots", "fetch"} /\ Contact /\ asked.now \in Urls
      /\ UNCHANGED <<follows, private, queue, queued, fetched, pages, attempts>>
  BY DEF Redirect, CrawlInv, AtWork
<1>2. CASE Abandons
  BY <1>1, <1>2, FetchKeeps
<1>3. CASE Breaks /\ UNCHANGED disallowed
  <2>1. fetched \in Nat /\ fetched <= PageLimit /\ UNCHANGED site
    BY <1>1, <1>3 DEF CrawlInv, Typed, AtWork, site
  <2> QED
    BY <1>1, <1>3, <2>1, BreaksKeep
<1>4. CASE /\ asked.hops < MaxRedirects /\ url # Malformed
           /\ asked' = [asked EXCEPT !.now = url, !.hops = @ + 1]
           /\ UNCHANGED <<crawl, disallowed, failures>>
  <2>1. asked' \in Asked /\ asked'.first = asked.first /\ asked'.now = url /\ url \in Urls
    <3>1. asked \in Asked /\ MaxRedirects \in Nat
      BY CrawlingAssumption DEF CrawlInv, Typed
    <3>2. asked' = [first |-> asked.first, now |-> url, hops |-> asked.hops + 1]
      BY <1>4, <3>1 DEF Asked
    <3>3. asked.hops \in 0 .. MaxRedirects /\ asked.first \in Urls \cup {NoUrl}
      BY <3>1 DEF Asked
    <3>4. asked.hops + 1 \in 0 .. MaxRedirects
      BY <1>4, <3>1, <3>3
    <3> QED
      BY <1>4, <3>2, <3>3, <3>4 DEF Asked
  <2>2. Typed'
    BY <1>1, <1>4, <2>1 DEF CrawlInv, Typed, Contact
  <2>3. EachOnce' /\ AllAccounted'
    BY <1>1, <1>4 DEF CrawlInv, EachOnce, Order, AllAccounted
  <2>4. AtWork' /\ PagesDiffer'
    BY <1>1, <1>4, <2>1 DEF CrawlInv, AtWork, PagesDiffer, Contact
  <2> QED
    BY <2>2, <2>3, <2>4 DEF CrawlInv
<1> QED
  BY <1>2, <1>3, <1>4 DEF Redirect

LEMMA ArriveKeeps ==
  ASSUME CrawlInv, NEW page \in Extracted, Arrive(page)
  PROVE  CrawlInv'
<1> DEFINE new == IF follows THEN FreshLinks(page.links) ELSE <<>>
           found == [first |-> asked.first, at |-> asked.now, canonical |-> page.canonical, text |-> page.text]
           Again == SameUrl(page) \/ SameText(page)
           Rest == UNCHANGED <<queue, queued, pages>>
<1>1. /\ crawl = "fetch" /\ Contact /\ fetched' = fetched + 1
      /\ UNCHANGED site /\ attempts' = attempts
  BY DEF Arrive
<1>2. \/ SkipOf(asked.first) /\ Rest
      \/ Breaks /\ Rest
      \/ /\ \E url \in {asked.now, page.canonical} : url \in SameHost /\ Notes(url)
         /\ Again /\ Rest
      \/ /\ crawl' = "next" /\ asked' = NotAsking /\ ~Again
         /\ OnHost(asked.now) /\ page.text # "none" /\ page.canonical # Malformed
         /\ pages' = Append(pages, found)
         /\ queue' = queue \o new /\ queued' = queued \cup Among(new)
         /\ failures' = failures
  BY DEF Arrive, Extracted, OnHost
<1> HIDE DEF new, Again, found
<1>3. /\ Len(pages) \in Nat /\ Len(attempts) \in Nat /\ Len(failures) \in Nat /\ fetched \in Nat
      /\ attempts \in Seq(SameHost) /\ queue \in Seq(SameHost) /\ pages \in Seq(Page)
      /\ failures \in Seq(SameHost) /\ contacted' \in Urls /\ contacted' \notin private
      /\ fetched' \in Nat /\ fetched' <= PageLimit /\ Len(pages) <= fetched
  <2>1. fetched \in Nat /\ fetched < PageLimit /\ asked.now \in Urls /\ PageLimit \in Nat
    BY <1>1, CrawlingAssumption DEF CrawlInv, Typed, AtWork
  <2> QED
    BY <1>1, <2>1, LenProperties DEF CrawlInv, Typed, AtWork, PagesDiffer, Contact
<1>4. /\ Len(attempts) = Len(pages) + Len(failures) + 1 /\ (pages = <<>> <=> Len(attempts) = 1)
      /\ attempts # <<>> /\ asked.first = attempts[Len(attempts)]
      /\ asked.first \notin disallowed /\ asked.first \in SameHost
      /\ (asked.first = Seed <=> Len(attempts) = 1) /\ (pages = <<>> <=> Len(pages) = 0)
  <2>1. /\ Len(attempts) = Len(pages) + Len(failures) + 1 /\ (pages = <<>> <=> Len(attempts) = 1)
        /\ attempts # <<>> /\ asked.first = attempts[Len(attempts)] /\ asked.first \notin disallowed
    BY <1>1 DEF CrawlInv, AllAccounted, AtWork
  <2>2. Len(attempts) \in 1 .. Len(attempts)
    BY <1>3, <2>1, EmptySeq
  <2>3. asked.first = Seed <=> Len(attempts) = 1
    BY <2>1, <2>2, SeedIsFirst DEF CrawlInv
  <2> QED
    BY <1>3, <2>1, <2>2, <2>3, EmptySeq, ElementOfSeq
<1>5. CASE SkipOf(asked.first) /\ Rest
  <2>1. /\ crawl' \in {"next", "failed"} /\ asked' = NotAsking /\ failures' \in Seq(SameHost)
        /\ crawl' = "next" => asked.first # Seed /\ Len(failures') = Len(failures) + 1
    BY <1>3, <1>4, <1>5, SkipsAreNoted
  <2>2. Typed'
    BY <1>1, <1>3, <1>5, <2>1, NotAskingIsTyped DEF CrawlInv, Typed, site
  <2>3. EachOnce'
    BY <1>1, <1>5 DEF CrawlInv, EachOnce, Order
  <2>4. AllAccounted'
    <3>1. ASSUME crawl' = "next"
          PROVE  /\ Len(attempts) = Len(pages) + Len(failures')
                 /\ pages # <<>> /\ Len(attempts) # 0
      <4>1. asked.first # Seed /\ Len(failures') = Len(failures) + 1
        BY <2>1, <3>1
      <4>2. pages # <<>> /\ Len(attempts) = Len(pages) + Len(failures) + 1
        BY <1>4, <4>1
      <4> QED
        BY <1>3, <4>1, <4>2
    <3> QED
      BY <1>1, <1>5, <2>1, <3>1 DEF AllAccounted
  <2>5. AtWork'
    BY <1>1, <1>3, <1>5, <2>1 DEF AtWork
  <2>6. PagesDiffer'
    BY <1>1, <1>3, <1>5 DEF CrawlInv, PagesDiffer, site
  <2> QED
    BY <2>2, <2>3, <2>4, <2>5, <2>6 DEF CrawlInv
<1>6. CASE /\ \E url \in {asked.now, page.canonical} : url \in SameHost /\ Notes(url)
           /\ Again /\ Rest
  <2>1. pages # <<>>
    BY <1>6 DEF Again, SameUrl, SameText, Among
  <2>2. /\ crawl' = "next" /\ asked' = NotAsking /\ failures' \in Seq(SameHost)
        /\ Len(failures') = Len(failures) + 1
    BY <1>3, <1>6, NotesAreCounted
  <2>3. Typed'
    BY <1>1, <1>3, <1>6, <2>2, NotAskingIsTyped DEF CrawlInv, Typed, site
  <2>4. EachOnce'
    BY <1>1, <1>6 DEF CrawlInv, EachOnce, Order
  <2>5. AllAccounted' /\ AtWork'
    BY <1>1, <1>3, <1>4, <1>6, <2>1, <2>2 DEF AllAccounted, AtWork
  <2>6. PagesDiffer'
    BY <1>1, <1>3, <1>6 DEF CrawlInv, PagesDiffer, site
  <2> QED
    BY <2>3, <2>4, <2>5, <2>6 DEF CrawlInv
<1>7. CASE /\ crawl' = "next" /\ asked' = NotAsking /\ ~Again
           /\ OnHost(asked.now) /\ page.text # "none" /\ page.canonical # Malformed
           /\ pages' = Append(pages, found)
           /\ queue' = queue \o new /\ queued' = queued \cup Among(new)
           /\ failures' = failures
  <2>1. /\ new \in Seq(SameHost) /\ Distinct(new) /\ Among(new) \cap queued = {}
        /\ IsFiniteSet(queued \cup Among(new)) /\ Cardinality(queued \cup Among(new)) <= Room
    <3>1. page.links \in Seq(Urls \cup {Malformed}) /\ IsFiniteSet(queued) /\ Cardinality(queued) <= Room
      BY CrawlingAssumption DEF Extracted, CrawlInv, Typed, EachOnce
    <3>2. CASE follows
      BY <3>1, <3>2, FreshLinksFit DEF new
    <3>3. CASE ~follows
      <4>1. new = <<>> /\ Among(new) = {} /\ Distinct(new)
        BY <3>3 DEF new, Among, Distinct
      <4>2. queued \cup Among(new) = queued /\ Among(new) \cap queued = {}
        BY <4>1
      <4>3. new \in Seq(SameHost)
        BY <4>1, EmptySeq
      <4>4. /\ IsFiniteSet(queued \cup Among(new))
            /\ Cardinality(queued \cup Among(new)) <= Room
        BY <3>1, <4>2
      <4> QED
        BY <4>1, <4>2, <4>3, <4>4
    <3> QED
      BY <3>2, <3>3
  <2>2. found \in Page
    BY <1>4, <1>7 DEF found, Page, Extracted, OnHost
  <2>3. /\ pages' \in Seq(Page) /\ Len(pages') = Len(pages) + 1
        /\ DOMAIN pages = 1 .. Len(pages) /\ DOMAIN pages' = 1 .. Len(pages) + 1
        /\ \A i \in 1 .. Len(pages) : pages'[i] = pages[i]
        /\ pages'[Len(pages) + 1] = found /\ pages' # <<>>
    <3>1. pages' \in Seq(Page) /\ Len(pages') = Len(pages) + 1 /\ pages'[Len(pages) + 1] = found
      BY <1>3, <1>7, <2>2, AppendProperties
    <3>2. \A i \in 1 .. Len(pages) : pages'[i] = pages[i]
      BY <1>3, <1>7, <2>2, AppendProperties
    <3>3. DOMAIN pages = 1 .. Len(pages) /\ DOMAIN pages' = 1 .. Len(pages) + 1
      BY <1>3, <3>1, LenProperties
    <3>4. pages' # <<>>
      BY <1>3, <3>1, EmptySeq
    <3> QED
      BY <3>1, <3>2, <3>3, <3>4
  <2>4. Typed'
    <3>1. queue' \in Seq(SameHost)
      BY <1>3, <1>7, <2>1, ConcatProperties
    <3>2. Among(new) \subseteq SameHost
      BY <2>1, LenProperties, ElementOfSeq DEF Among
    <3> QED
      BY <1>1, <1>3, <1>7, <2>1, <2>3, <3>1, <3>2, NotAskingIsTyped DEF CrawlInv, Typed, site
  <2>5. EachOnce'
    <3>1. Order' = Order \o new /\ Order \in Seq(SameHost)
      <4>1. (attempts \o queue) \o new = attempts \o (queue \o new)
        BY <1>3, <2>1, ConcatAssociative
      <4>2. attempts \o queue \in Seq(SameHost)
        BY <1>3, ConcatProperties
      <4> QED
        BY <1>1, <1>7, <4>1, <4>2 DEF Order
    <3>2. Order # <<>> /\ Order[1] = Seed /\ Distinct(Order) /\ Among(Order) = queued
      BY DEF CrawlInv, EachOnce
    <3>3. Distinct(Order') /\ Among(Order') = queued'
      BY <1>7, <2>1, <3>1, <3>2, ListsTogether
    <3>4. Len(Order) \in Nat \ {0} /\ Len(new) \in Nat
      BY <2>1, <3>1, <3>2, EmptySeq, LenProperties
    <3>5. Order'[1] = Seed /\ Len(Order') = Len(Order) + Len(new)
      BY <2>1, <3>1, <3>2, <3>4, ConcatProperties
    <3>6. Order' # <<>>
      BY <3>4, <3>5, EmptySeq
    <3> QED
      BY <1>7, <2>1, <3>3, <3>5, <3>6 DEF EachOnce, Room
  <2>6. AllAccounted' /\ AtWork'
    BY <1>1, <1>3, <1>4, <1>7, <2>3 DEF AllAccounted, AtWork
  <2>7. PagesDiffer'
    <3>1. \A i \in 1 .. Len(pages) : /\ pages[i].canonical # found.canonical
                                     /\ pages[i].text # found.text
      BY <1>7, <2>3 DEF Again, SameUrl, SameText, Among, found
    <3>2. found.first \notin disallowed /\ (found.first = Seed <=> Len(pages) = 0)
      BY <1>4 DEF found
    <3>3. \A i \in 1 .. Len(pages) + 1 : /\ pages'[i].first \notin disallowed
                                         /\ pages'[i].first = Seed <=> i = 1
      <4> SUFFICES ASSUME NEW i \in 1 .. Len(pages) + 1
                   PROVE  pages'[i].first \notin disallowed /\ (pages'[i].first = Seed <=> i = 1)
        OBVIOUS
      <4>1. CASE i \in 1 .. Len(pages)
        BY <2>3, <4>1 DEF CrawlInv, PagesDiffer
      <4>2. CASE i = Len(pages) + 1
        BY <1>3, <2>3, <3>2, <4>2
      <4> QED
        BY <1>3, <4>1, <4>2
    <3>4. \A i, j \in 1 .. Len(pages) + 1 : i # j => /\ pages'[i].canonical # pages'[j].canonical
                                                     /\ pages'[i].text # pages'[j].text
      <4> SUFFICES ASSUME NEW i \in 1 .. Len(pages) + 1, NEW j \in 1 .. Len(pages) + 1, i # j
                   PROVE  /\ pages'[i].canonical # pages'[j].canonical
                          /\ pages'[i].text # pages'[j].text
        OBVIOUS
      <4>1. CASE i \in 1 .. Len(pages) /\ j \in 1 .. Len(pages)
        BY <2>3, <4>1 DEF CrawlInv, PagesDiffer
      <4>2. CASE i = Len(pages) + 1 /\ j \in 1 .. Len(pages)
        BY <2>3, <3>1, <4>2
      <4>3. CASE i \in 1 .. Len(pages) /\ j = Len(pages) + 1
        BY <2>3, <3>1, <4>3
      <4> QED
        BY <1>3, <4>1, <4>2, <4>3
    <3> QED
      BY <1>1, <1>3, <2>3, <3>3, <3>4 DEF PagesDiffer, site
  <2> QED
    BY <2>4, <2>5, <2>6, <2>7 DEF CrawlInv
<1>8. CASE Breaks /\ Rest
  <2>1. asked.now \in Urls /\ fetched <= fetched'
    BY <1>1, <1>3 DEF CrawlInv, AtWork
  <2> QED
    BY <1>1, <1>3, <1>8, <2>1, BreaksKeep
<1> QED
  BY <1>2, <1>5, <1>6, <1>7, <1>8

LEMMA EndKeeps ==
  ASSUME CrawlInv, EndCrawl
  PROVE  CrawlInv'
<1>1. /\ crawl = "next" /\ (queue = <<>> \/ ~(fetched < PageLimit))
      /\ crawl' = IF pages = <<>> THEN "failed" ELSE "done"
      /\ UNCHANGED <<queue, queued, asked, fetched, pages, failures, attempts, contacted>>
      /\ UNCHANGED site
  BY DEF EndCrawl, UnderLimit
<1>2. fetched \in Nat /\ PageLimit \in Nat /\ fetched <= PageLimit
  BY CrawlingAssumption DEF CrawlInv, Typed, AtWork
<1>3. Typed' /\ EachOnce'
  BY <1>1 DEF CrawlInv, Typed, EachOnce, Order, site
<1>4. AllAccounted'
  BY <1>1, <1>2 DEF CrawlInv, AllAccounted
<1>5. AtWork' /\ PagesDiffer'
  BY <1>1 DEF CrawlInv, AtWork, PagesDiffer, site
<1> QED
  BY <1>3, <1>4, <1>5 DEF CrawlInv

LEMMA CrawlKeeps ==
  ASSUME CrawlInv, [CrawlNext]_crawlVars
  PROVE  CrawlInv'
<1>1. CASE AskRobots \/ RefuseSeed
  BY <1>1, BeginningKeeps
<1>2. CASE TakeUrl
  BY <1>2, TakeKeeps
<1>3. CASE FetchFails
  BY <1>3, FetchKeeps DEF FetchFails
<1>4. CASE \E url \in Urls \cup {Malformed} : Redirect(url)
  BY <1>4, RedirectKeeps
<1>5. CASE \E page \in Extracted : Arrive(page)
  BY <1>5, ArriveKeeps
<1>6. CASE EndCrawl
  BY <1>6, EndKeeps
<1>7. CASE UNCHANGED crawlVars
  BY <1>7 DEF crawlVars, site, CrawlInv, Typed, EachOnce, Order, AllAccounted, AtWork, PagesDiffer
<1>8. CASE LoadRobots
  BY <1>8, RobotsKeep DEF LoadRobots, site
<1> QED
  BY <1>1, <1>2, <1>3, <1>4, <1>5, <1>6, <1>7, <1>8 DEF CrawlNext

-----------------------------------------------------------------------------
(* Theorems *)

\* Whatever the sites answer, where redirects lead and what the pages link to, the invariant holds:
\* what was taken from the queue (website.py) and what is in it name each queued link once.
THEOREM CrawlInvariance == CrawlSpec => []CrawlInv
<1>1. CrawlInit => CrawlInv
  BY CrawlBegins
<1>2. CrawlInv /\ [CrawlNext]_crawlVars => CrawlInv'
  BY CrawlKeeps
<1> QED
  BY <1>1, <1>2, PTL DEF CrawlSpec

\* Every variable of a crawl keeps its type.
THEOREM CrawlTypes == CrawlSpec => []CrawlTypeOK
<1>1. CrawlInv => CrawlTypeOK
  <2> SUFFICES ASSUME CrawlInv
               PROVE  CrawlTypeOK
    OBVIOUS
  <2>1. Among(queue) \subseteq queued
    BY ListsTogether DEF CrawlInv, Typed, EachOnce, Order
  <2>2. Among(pages) \subseteq Page /\ Among(attempts) \subseteq SameHost /\ Among(failures) \subseteq SameHost
    BY LenProperties, ElementOfSeq DEF CrawlInv, Typed, Among
  <2> QED
    BY <2>1, <2>2 DEF CrawlInv, Typed, CrawlTypeOK, Page, Asked
<1> QED
  BY <1>1, CrawlInvariance, PTL

\* For any limits, sites and links, a crawl connects to no private address, indexes pages that
\* differ, the first of them that of the seed, asks for no URL twice, keeps within its limits,
\* and accounts for every link it queued when it ends below the limit of pages.
THEOREM CrawlIsSound == CrawlSpec => []CrawlSound
<1>1. CrawlInv => CrawlSound
  <2> SUFFICES ASSUME CrawlInv
               PROVE  CrawlSound
    OBVIOUS
  <2>1. Distinct(attempts)
    BY SeedIsFirst DEF CrawlInv
  <2>2. queue = <<>> => Among(attempts) = queued
    <3>1. queue = <<>> => Order = attempts
      BY ConcatEmptySeq DEF CrawlInv, Typed, Order
    <3> QED
      BY <3>1 DEF CrawlInv, EachOnce
  <2>3. crawl = "done" => /\ pages # <<>> /\ (fetched = PageLimit \/ queue = <<>>)
                          /\ Len(attempts) = Len(pages) + Len(failures)
    BY DEF CrawlInv, AllAccounted
  <2>4. fetched <= PageLimit /\ Len(pages) <= fetched /\ Cardinality(queued) <= Room
    BY DEF CrawlInv, AtWork, EachOnce
  <2> QED
    BY <2>1, <2>2, <2>3, <2>4 DEF CrawlInv, PagesDiffer, CrawlSound, Distinct
<1> QED
  BY <1>1, CrawlInvariance, PTL
-----------------------------------------------------------------------------
(* All of them *)

\* Whichever part is at work, the state of every part is one that its own specification reaches:
\* what is proved of the parts holds of the composition that the runs check.
THEOREM LocalImplementsParts == LocalSpec => IndexSpec /\ MigrationSpec /\ RankingSpec /\ CrawlSpec
<1> DEFINE vars == <<indexVars, migrationVars, rankingVars, crawlVars, part>>
<1>1. LocalInit => IndexInit /\ MigrationInit /\ RankingInit /\ CrawlInit
  BY DEF LocalInit
<1>2. [LocalNext]_vars => /\ [IndexNext]_indexVars /\ [MigrationNext]_migrationVars
                          /\ [RankingNext]_rankingVars /\ [CrawlNext]_crawlVars
  BY DEF LocalNext
<1> QED
  BY <1>1, <1>2, PTL DEF LocalSpec, IndexSpec, MigrationSpec, RankingSpec, CrawlSpec

\* Every variable of the indexes, the migration, the ranking and the crawl keeps its type.
THEOREM LocalTypes == LocalSpec => []LocalTypeOK
<1>1. IndexTypeOK /\ MigrationTypeOK /\ RankingTypeOK /\ CrawlTypeOK => LocalTypeOK
  BY DEF LocalTypeOK
<1> QED
  BY <1>1, LocalImplementsParts, IndexTypes, MigrationTypes, RankingTypes, CrawlTypes, PTL
=============================================================================
