-------------------------------- MODULE MCLocal --------------------------------
(* Local ingestion, the migration, the ranking of a query and the crawl of a website on small   *)
(* instances.  They share no variable: in a behaviour of this module one of them is at work     *)
(* and the others rest as they began.                                                          *)
EXTENDS LocalIndexing, Migration, Ranking, Crawling, TLC

CONSTANTS s1, s2,
          p1, p2, p3, w1, w2, w3, g1,  \* hits: documents, windows and a path
          k1, k2, k3, kg,              \* their keys
          e1, e2, e3, e4, e5           \* passages

VARIABLE part

MCDocuments == (s1 :> "pdf") @@ (s2 :> "website")
MCDatabase == (s1 :> "pdf") @@ (s2 :> "database")

MCFragile == {"vector", "vectorPointer", "recover", "restore", "erase", "publish", "fail"}

\* w1 and w2 are windows of the document p1, and the second says what p1 says; p2 and p3 are
\* documents of the other source, and w3 is a window of p2.  The path is supported by p2 and by
\* a passage of its own.
MCHitsBy == [vector |-> {p1, p2, p3}, lexical |-> {p1, p3}, window |-> {w1, w2, w3}, graph |-> {g1}]
MCKeyOf == (p1 :> k1) @@ (w1 :> k1) @@ (w2 :> k1) @@ (p2 :> k2) @@ (w3 :> k2) @@ (p3 :> k3) @@ (g1 :> kg)
MCKeyRank == (k1 :> 2) @@ (k2 :> 1) @@ (k3 :> 3) @@ (kg :> 4)
MCHitSource == [h \in Hits |-> IF h \in {p1, w1, w2} THEN s1 ELSE s2]
MCPassagesOf ==
  (p1 :> <<e1>>) @@ (w1 :> <<e2>>) @@ (w2 :> <<e1>>) @@ (p2 :> <<e3>>) @@ (w3 :> <<e4>>) @@ (p3 :> <<e5>>)
  @@ (g1 :> <<e3, e2>>)
MCContent ==
  [h \in Hits |-> CASE h = p1 -> <<<<0>>, <<0, 2>>>> [] h = w2 -> <<<<1>>>> [] h = p3 -> <<<<0, 7, 0>>>> [] OTHER -> <<<<0>>>>]
MCPlans == {{"vector"}, {"window"}, {"graph"}, {"vector", "window", "lexical"}, {"graph", "vector"}, {"graph", "window"}}
MCWeights == [vector |-> 1, lexical |-> 2, window |-> 0, graph |-> 0]

\* The second list fills the queue before the malformed link is reached.
MCLinkLists == {<<"c", "a">>, <<"b", "x", "c", "b", "d", "e", "malformed">>, <<"b", "malformed">>}

Symmetry == Permutations(Requests) \cup Permutations(Items)

LocalInit ==
  /\ part \in {"indexing", "migration", "ranking", "crawling"}
  /\ IndexInit
  /\ MigrationInit
  /\ RankingInit
  /\ CrawlInit
  /\ part # "indexing" => deployment = "local"
  /\ disallowed \subseteq {"a", "b"} /\ private \subseteq {"c", "x"}
  /\ part # "crawling" => ~follows /\ disallowed = {} /\ private = {}

LocalNext ==
  \/ part = "indexing" /\ IndexNext /\ UNCHANGED <<migrationVars, rankingVars, crawlVars, part>>
  \/ part = "migration" /\ MigrationNext /\ UNCHANGED <<indexVars, rankingVars, crawlVars, part>>
  \/ part = "ranking" /\ RankingNext /\ UNCHANGED <<indexVars, migrationVars, crawlVars, part>>
  \/ part = "crawling" /\ CrawlNext /\ UNCHANGED <<indexVars, migrationVars, rankingVars, part>>

LocalSpec == LocalInit /\ [][LocalNext]_<<indexVars, migrationVars, rankingVars, crawlVars, part>>

\* Every variable of each keeps its type.
LocalTypeOK == IndexTypeOK /\ MigrationTypeOK /\ RankingTypeOK /\ CrawlTypeOK
=============================================================================
