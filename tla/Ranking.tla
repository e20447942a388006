-------------------------------- MODULE Ranking --------------------------------
(* From ranked lists to a cited answer, within one query: the fusion of the lists              *)
(* (src/app/retrieval/fusion.py), the re-ranking (src/app/reranking/service.py), the citations  *)
(* (src/app/citations/builder.py), the extractive answer (src/app/generation/extractive.py) and *)
(* its validation (src/app/citations/validation.py).                                           *)
(*                                                                                            *)
(* A hit is what a retriever returns: a document, a sentence window of one, or a path of the    *)
(* graph.  Several hits of one retriever may belong to one document.  Scores of the fusion are  *)
(* integers, a common multiple of the denominators being their unit.                           *)
EXTENDS Integers, Sequences, FiniteSets

CONSTANTS Hits,
          HitsBy,         \* the hits each retriever may return
          KeyOf,          \* the document or path a hit belongs to
          KeyRank,        \* keys in the order of their names
          HitSource,
          PassagesOf,     \* the passages that support a hit: sources, locations and excerpts
          Content,        \* the paragraphs of a hit: sequences of words (0) and of labels [Sn] (n)
          Plans,          \* the sets of retrievers to ask
          Depth,          \* how many hits one retriever returns
          FusionK, Unit,  \* the constant of the reciprocal ranks, and their unit
          Weights,        \* those of the weighted strategy
          TopHits, Pool,  \* how much evidence is wanted, and how many candidates are re-ranked
          PerSource,      \* how many hits of a source, while there are others
          Relevance,      \* what the cross-encoder may score
          MaxPassages     \* how many hits the answer quotes

Elements(s) == {s[i] : i \in DOMAIN s}
Modes == DOMAIN HitsBy
Passages == UNION {Elements(PassagesOf[h]) : h \in Hits}

ASSUME RankingAssumption ==
  /\ PerSource \in Nat \ {0} /\ FusionK \in Nat \ {0} /\ {Depth, TopHits, Pool, MaxPassages} \subseteq Nat \ {0}
  /\ Unit \in Nat \ {0} /\ \A i \in 1 .. Depth : Unit % (FusionK + i) = 0
  /\ Modes = {"vector", "window", "lexical", "graph"} /\ \A m \in Modes : HitsBy[m] \subseteq Hits
  /\ Plans \subseteq SUBSET Modes /\ Weights \in [Modes -> Nat] /\ Relevance \subseteq Int
  /\ \A h, g \in Hits : /\ KeyRank[KeyOf[h]] \in Nat
                        /\ KeyRank[KeyOf[h]] = KeyRank[KeyOf[g]] => KeyOf[h] = KeyOf[g]
  /\ \A h \in Hits : /\ PassagesOf[h] \in Seq(Passages) \ {<<>>}
                     /\ Content[h] \in Seq(Seq(Nat) \ {<<>>}) \ {<<>>}

VARIABLES
  phase,       \* how far the query is
  plan,        \* the retrievers asked, the strategy, and whether to re-rank
  ranked,      \* the list of each retriever that has answered
  candidates,  \* what was fused
  relevance,   \* the scores of the cross-encoder
  evidence,
  citations,   \* passages, of which the n-th is cited as [Sn]
  answer       \* paragraphs

rankingVars == <<phase, plan, ranked, candidates, relevance, evidence, citations, answer>>

NoPlan == [modes |-> {}, weighted |-> FALSE, rerank |-> FALSE]

\* S as a sequence, by a strict total order of it: the pairs of it, or the operator they satisfy.
InOrder(S, before) ==
  [i \in 1 .. Cardinality(S) |-> CHOOSE x \in S : Cardinality({y \in S : <<y, x>> \in before}) = i - 1]
Ordered(S, Before(_, _)) == InOrder(S, {p \in S \X S : Before(p[1], p[2])})

Smaller(m, n) == IF m < n THEN m ELSE n
FirstOf(s, n) == SubSeq(s, 1, Smaller(n, Len(s)))
-----------------------------------------------------------------------------
RankingInit ==
  /\ phase = "ask" /\ plan = NoPlan
  /\ ranked = <<>>
  /\ candidates = <<>> /\ relevance = <<>> /\ evidence = <<>> /\ citations = <<>> /\ answer = <<>>

\* Only what is fused can be re-ranked.
AskRanked(modes, weighted, rerank) ==
  /\ phase = "ask"
  /\ Cardinality(modes) = 1 => ~weighted /\ ~rerank
  /\ plan' = [modes |-> modes, weighted |-> weighted, rerank |-> rerank]
  /\ phase' = "retrieve"
  /\ UNCHANGED <<ranked, candidates, relevance, evidence, citations, answer>>

\* What a retriever returns: hits, each once.
Lists(m) == {l \in UNION {[1 .. n -> HitsBy[m]] : n \in 0 .. Depth} : \A i, j \in DOMAIN l : i # j => l[i] # l[j]}

\* They run at once, and the fusion waits for all of them.
Retrieve(m) ==
  /\ phase = "retrieve" /\ m \in plan.modes \ DOMAIN ranked
  /\ \E list \in Lists(m) : ranked' = [n \in DOMAIN ranked \cup {m} |-> IF n = m THEN list ELSE ranked[n]]
  /\ phase' = IF DOMAIN ranked' = plan.modes THEN "fuse" ELSE phase
  /\ UNCHANGED <<plan, candidates, relevance, evidence, citations, answer>>

-----------------------------------------------------------------------------
(* Fusion *)

Weight(m) == IF plan.weighted THEN Weights[m] ELSE 1
Places(m, key) == {i \in DOMAIN ranked[m] : KeyOf[ranked[m][i]] = key}
FoundBy(key) == {m \in plan.modes : Places(m, key) # {}}

\* The best place of a document in a list counts, however many of its windows follow.
Best(m, key) == CHOOSE i \in Places(m, key) : \A j \in Places(m, key) : i <= j

Contribution(m, key) == IF m \in FoundBy(key) THEN Weight(m) * (Unit \div (FusionK + Best(m, key))) ELSE 0
Fused(key) ==
  Contribution("vector", key) + Contribution("window", key) + Contribution("lexical", key) + Contribution("graph", key)
BestOfAll(key) == CHOOSE i \in {Best(m, key) : m \in FoundBy(key)} : \A m \in FoundBy(key) : i <= Best(m, key)

Ahead(a, b) ==
  \/ Fused(a) > Fused(b)
  \/ Fused(a) = Fused(b) /\ BestOfAll(a) < BestOfAll(b)
  \/ Fused(a) = Fused(b) /\ BestOfAll(a) = BestOfAll(b) /\ KeyRank[a] < KeyRank[b]

\* A document is shown by its window if it has one, else by its hit of the best rank.
Shown(key) ==
  LET modes == IF "window" \in FoundBy(key) THEN {"window"}
               ELSE {m \in FoundBy(key) : Best(m, key) = BestOfAll(key)}
  IN CHOOSE h \in Hits : \E m \in modes : h = ranked[m][Best(m, key)]

Found == UNION {{KeyOf[h] : h \in Elements(ranked[m])} : m \in plan.modes}

\* Documents without a score are left out.
Scored == {k \in Found : Fused(k) > 0}
Wanted == IF plan.rerank /\ TopHits < Pool THEN Pool ELSE TopHits
Keys == FirstOf(Ordered(Scored, Ahead), Wanted)
FusedHits == [i \in DOMAIN Keys |-> Shown(Keys[i])]

\* Weights that add up to nothing are refused.
Fuse ==
  /\ phase = "fuse"
  /\ IF Cardinality(plan.modes) = 1
     THEN \E m \in plan.modes : evidence' = FirstOf(ranked[m], TopHits) /\ candidates' = <<>> /\ phase' = "cite"
     ELSE IF \A m \in plan.modes : Weight(m) = 0
     THEN phase' = "refused" /\ UNCHANGED <<evidence, candidates>>
     ELSE /\ candidates' = FusedHits
          /\ evidence' = IF plan.rerank THEN <<>> ELSE candidates'
          /\ phase' = IF plan.rerank THEN "rerank" ELSE "cite"
  /\ UNCHANGED <<plan, ranked, relevance, citations, answer>>

-----------------------------------------------------------------------------
(* Re-ranking *)

MoreRelevant(score, i, j) == score[i] > score[j] \/ (score[i] = score[j] /\ i < j)

MostRelevant(score) ==
  LET order == Ordered(DOMAIN candidates, LAMBDA i, j : MoreRelevant(score, i, j))
  IN [p \in DOMAIN order |-> candidates[order[p]]]

\* As many of each source as its cap allows, then the others.
Capped(hits) ==
  {p \in DOMAIN hits : Cardinality({q \in 1 .. p - 1 : HitSource[hits[q]] = HitSource[hits[p]]}) < PerSource}
Spread(hits) ==
  LET places == Ordered(Capped(hits), <) \o Ordered(DOMAIN hits \ Capped(hits), <)
  IN [p \in DOMAIN places |-> hits[places[p]]]

Rerank(score) ==
  /\ phase = "rerank"
  /\ relevance' = score
  /\ evidence' = FirstOf(Spread(MostRelevant(score)), TopHits)
  /\ phase' = "cite"
  /\ UNCHANGED <<plan, ranked, candidates, citations, answer>>

\* The model does not load, fails, or returns what are not scores.
RerankFails ==
  /\ phase = "rerank" /\ candidates # <<>>
  /\ phase' = "refused"
  /\ UNCHANGED <<plan, ranked, candidates, relevance, evidence, citations, answer>>

-----------------------------------------------------------------------------
(* Citations *)

\* Passages in the order evidence names them first, each of them once.
Earlier(a, b) == a[1] < b[1] \/ (a[1] = b[1] /\ a[2] < b[2])
Mentions == UNION {{<<i, j>> : j \in DOMAIN PassagesOf[evidence[i]]} : i \in DOMAIN evidence}
Mentioned(p) == PassagesOf[evidence[p[1]]][p[2]]
FirstMentions == {p \in Mentions : \A q \in Mentions : Earlier(q, p) => Mentioned(q) # Mentioned(p)}
Numbering ==
  LET order == Ordered(FirstMentions, Earlier) IN [n \in DOMAIN order |-> Mentioned(order[n])]

Cite ==
  /\ phase = "cite"
  /\ citations' = Numbering
  /\ phase' = IF evidence = <<>> THEN "answered" ELSE "generate"
  /\ UNCHANGED <<plan, ranked, candidates, relevance, evidence, answer>>

NumberOf(passage) == CHOOSE n \in DOMAIN citations : citations[n] = passage
Markers(h) == [i \in DOMAIN PassagesOf[h] |-> NumberOf(PassagesOf[h][i])]

\* Mutant: labels of the source stay as they are.
LeavesLabels(paragraph) == paragraph

\* A label the source wrote becomes words: it is no citation, whatever its number.
Neutral(paragraph) == [i \in DOMAIN paragraph |-> 0]

\* The paragraphs of the first hits, each with the citations of its hit.
Quoted == FirstOf(evidence, MaxPassages)
Paragraphs == UNION {{<<i, j>> : j \in DOMAIN Content[Quoted[i]]} : i \in DOMAIN Quoted}
Paragraph(p) == LET h == Quoted[p[1]] IN [of |-> h, text |-> Neutral(Content[h][p[2]]) \o Markers(h)]

Generate ==
  LET order == Ordered(Paragraphs, Earlier) IN
  /\ phase = "generate"
  /\ answer' = [n \in DOMAIN order |-> Paragraph(order[n])]
  /\ phase' = "validate"
  /\ UNCHANGED <<plan, ranked, candidates, relevance, evidence, citations>>

\* Words, then markers, all of them known.
Valid(text) ==
  /\ text[1] = 0 /\ text[Len(text)] # 0
  /\ \A i, j \in DOMAIN text : i < j /\ text[i] # 0 => text[j] # 0
  /\ \A i \in DOMAIN text : text[i] \in 0 .. Len(citations)

Validate ==
  /\ phase = "validate"
  /\ phase' = IF \A n \in DOMAIN answer : Valid(answer[n].text) THEN "answered" ELSE "malformed"
  /\ UNCHANGED <<plan, ranked, candidates, relevance, evidence, citations, answer>>

-----------------------------------------------------------------------------
RankingNext ==
  \/ \E modes \in Plans, weighted, rerank \in BOOLEAN : AskRanked(modes, weighted, rerank)
  \/ \E m \in Modes : Retrieve(m)
  \/ Fuse
  \/ \E score \in [DOMAIN candidates -> Relevance] : Rerank(score)
  \/ RerankFails \/ Cite \/ Generate \/ Validate

RankingSpec == RankingInit /\ [][RankingNext]_rankingVars
-----------------------------------------------------------------------------
(* Properties *)

\* Every variable keeps its type.
RankingTypeOK ==
  /\ phase \in {"ask", "retrieve", "fuse", "rerank", "cite", "generate", "validate", "answered", "refused", "malformed"}
  /\ plan \in [modes : SUBSET Modes, weighted : BOOLEAN, rerank : BOOLEAN]
  /\ DOMAIN ranked \subseteq Modes
  /\ \A m \in DOMAIN ranked : Elements(ranked[m]) \subseteq HitsBy[m] /\ Len(ranked[m]) <= Depth
  /\ Elements(candidates) \cup Elements(evidence) \subseteq Hits
  /\ Elements(relevance) \subseteq Relevance
  /\ Elements(citations) \subseteq Passages
  /\ \A n \in DOMAIN answer : answer[n].of \in Hits /\ Elements(answer[n].text) \subseteq Nat

\* a was found wherever b was, never lower, and somewhere that counts higher.
Dominates(a, b) ==
  /\ \A m \in FoundBy(b) : m \in FoundBy(a) /\ Best(m, a) <= Best(m, b)
  /\ \E m \in FoundBy(a) : Weight(m) > 0 /\ (m \in FoundBy(b) => Best(m, a) < Best(m, b))

Fusing == Cardinality(plan.modes) > 1 /\ phase \in {"rerank", "cite", "generate", "validate", "answered"}

\* A document is fused once, whichever retrievers found it and through how many of its windows,
\* and never before one that all of them rank higher.
FusedFairly ==
  Fusing => /\ \A i, j \in DOMAIN candidates : KeyOf[candidates[i]] = KeyOf[candidates[j]] => i = j
            /\ \A a \in Found, j \in DOMAIN candidates :
                 Dominates(a, KeyOf[candidates[j]]) => \E i \in 1 .. j - 1 : KeyOf[candidates[i]] = a

\* Evidence is as much as there is, nothing of it twice; a source exceeds its cap only where
\* every candidate of a source below its cap is in the evidence.
SpreadOverSources ==
  LET of(s) == {i \in DOMAIN evidence : HitSource[evidence[i]] = s} IN
  Fusing /\ phase # "rerank" =>
    /\ Len(evidence) = Smaller(TopHits, Len(candidates))
    /\ \A i, j \in DOMAIN evidence : evidence[i] = evidence[j] => i = j
    /\ plan.rerank => \A h \in Elements(candidates) \ Elements(evidence), s \in {HitSource[x] : x \in Hits} :
         Cardinality(of(s)) > PerSource => Cardinality(of(HitSource[h])) >= PerSource

\* The validation never refuses an extractive answer, and what a paragraph cites are the
\* passages of the very hit it quotes, although sources write labels of their own.
CitationsResolve ==
  /\ phase # "malformed"
  /\ phase = "answered" => \A n \in DOMAIN answer :
       {citations[k] : k \in Elements(answer[n].text) \ {0}} = Elements(PassagesOf[answer[n].of])

\* An answer is fair to what was found, spread over the sources, and cites what it quotes.
RankingSound == FusedFairly /\ SpreadOverSources /\ CitationsResolve
=============================================================================
