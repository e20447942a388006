-------------------------------- MODULE Queries --------------------------------
(* A query and what moves beneath it.  POST /query (src/app/retrieval/query_service.py) reads  *)
(* the registry, chooses a plan (src/app/routing/rules.py), lets several retrievers read the   *)
(* indexes at once (src/app/retrieval/fusion.py) and answers from what they found.  Meanwhile   *)
(* sources are added, relabelled and removed, a generation is built and activated, the graph   *)
(* is rebuilt, and the process may restart.  Queries change nothing and do not see each other:  *)
(* one of them stands for all.                                                                 *)
(*                                                                                            *)
(* A label is a rank, and 0 stands for no source.  Every document clears the threshold of      *)
(* every search.  What ranks, scores and citations make of it is in Ranking.                   *)
EXTENDS Naturals, FiniteSets

CONSTANTS Corpus,        \* sources
          CorpusKind,    \* "document" or "database"
          Settings,      \* the deployments of the run
          Configured,    \* the retrievers each of them has
          TopLabel,      \* the highest label
          FirstLabel,    \* that of a new source
          Fusions,       \* the sets of retrievers a request may ask to fuse
          Filters,       \* the sets of sources a request may name
          RuleScores,    \* what the rules of one intent may add up to, in hundredths
          Threshold, Margin,
          MaxChanges     \* bound on what users do to the registry and the graph

ASSUME QueriesAssumption ==
  /\ CorpusKind \in [Corpus -> {"document", "database"}]
  /\ Settings \subseteq {"local", "pinecone", "hosted"}
  /\ Configured \in [Settings -> SUBSET {"vector", "window", "lexical", "graph", "sql"}]
  /\ Filters \subseteq SUBSET Corpus
  /\ TopLabel \in Nat \ {0} /\ FirstLabel \in 1 .. TopLabel /\ MaxChanges \in Nat

VARIABLES
  setting,     \* "local", "pinecone" or "hosted", as in LocalIndexing
  entry,       \* the registry: label and readiness of each source
  shelf,       \* the label in the source.json of each source
  indexed,     \* the sources in each retrieval generation
  erased,      \* generations whose vectors were deleted
  activated,   \* the active generation of the vectors and of the lexical index
  stage,       \* how far the request that builds the second generation has come
  chart,       \* the sources of the active graph, and whether there is one
  charting,    \* the sources a rebuild of the graph has listed, and how far it is
  changes,
  query,       \* the request at work
  reader,      \* its retrievers: what each has read and has still to do
  fresh,       \* history: sources whose identifier has not been drawn yet
  rightful,    \* history: the label each source should have, 0 once it is removed
  reverted,    \* history: sources that were once known by another label of their source.json alone
  allowed,     \* history: sources the caller might see at some moment since the query began
  since        \* history: generations the vectors had active since the query began

registry == <<entry, shelf>>
indexes == <<indexed, erased, activated, stage, chart, charting>>
answering == <<query, reader>>
truth == <<fresh, rightful, reverted>>
queryVars == <<setting, registry, indexes, changes, answering, truth, allowed, since>>

Labels == 1 .. TopLabel
Retrievers == {"vector", "window", "lexical", "graph", "sql"}
DefaultPlan == {"vector", "window", "lexical"}
Intents == {"sql", "graph", "window", "lexical"}

NoEntry == [label |-> 0, ready |-> FALSE]
NoQuery == [state |-> "none", clearance |-> 1, mode |-> "none", wanted |-> {}, unchecked |-> {},
            listed |-> {}, scope |-> {}, ids |-> {}, plan |-> {}, found |-> {}]
Resting == [at |-> "off", gen |-> 0]

\* The registry survives a restart; without it source.json counts as well.
Durable == setting = "hosted"
ClearanceCovers(label, clearance) == label \in 1 .. clearance

NoGraph == [there |-> FALSE, sources |-> {}]

-----------------------------------------------------------------------------
(* Some sources were ingested and indexed, and some graph may have been built. *)

QueryInit ==
  /\ setting \in Settings
  /\ entry \in [Corpus -> {NoEntry} \cup {[label |-> l, ready |-> TRUE] : l \in Labels}]
  /\ shelf = [s \in Corpus |-> IF entry[s] = NoEntry \/ CorpusKind[s] = "database" THEN 0 ELSE FirstLabel]
  /\ indexed = [g \in 1 .. 2 |-> {s \in Corpus : g = 1 /\ shelf[s] # 0}]
  /\ erased = {}
  /\ activated = [vector |-> 1, lexical |-> 1]
  /\ stage = "none"
  /\ chart \in {NoGraph, [there |-> TRUE, sources |-> indexed[1]]}
  /\ charting = [at |-> "off", sources |-> {}]
  /\ changes = 0
  /\ query = NoQuery
  /\ reader = [m \in Retrievers |-> Resting]
  /\ fresh = {s \in Corpus : entry[s] = NoEntry}
  /\ rightful = [s \in Corpus |-> entry[s].label]
  /\ reverted = {}
  /\ allowed = {}
  /\ since = {}

Known(s) == entry[s].label # 0
Rest == reader' = [m \in Retrievers |-> Resting]
Running == query.state \notin {"none", "answered", "refused"}

-----------------------------------------------------------------------------
(* The registry *)

\* What the caller of a running query might see after this step.
SeenNow == allowed' = IF Running THEN allowed \cup {s \in Corpus : ClearanceCovers(rightful'[s], query.clearance)}
                      ELSE allowed

OneChange == changes < MaxChanges /\ changes' = changes + 1

\* A source whose row is gone is known by its source.json, which may hold another label.
Reverted(S) == reverted' = reverted \cup {s \in S : shelf[s] \notin {0, rightful'[s]}}

\* A source is created under a fresh identifier, then described by its source.json.
AddSource(s) ==
  /\ OneChange
  /\ s \in fresh /\ fresh' = fresh \ {s}
  /\ entry' = [entry EXCEPT ![s] = [label |-> FirstLabel, ready |-> FALSE]]
  /\ rightful' = [rightful EXCEPT ![s] = FirstLabel]
  /\ SeenNow
  /\ UNCHANGED <<setting, shelf, indexes, answering, reverted, since>>

FinishSource(s) ==
  /\ Known(s) /\ ~entry[s].ready
  /\ entry' = [entry EXCEPT ![s].ready = TRUE]
  /\ shelf' = [shelf EXCEPT ![s] = IF CorpusKind[s] = "document" THEN entry[s].label ELSE 0]
  /\ UNCHANGED <<setting, indexes, changes, answering, truth, allowed, since>>

\* Only the row is relabelled.
Relabel(s, label) ==
  /\ OneChange
  /\ Known(s) /\ label # entry[s].label
  /\ entry' = [entry EXCEPT ![s].label = label]
  /\ rightful' = [rightful EXCEPT ![s] = label]
  /\ SeenNow
  /\ UNCHANGED <<setting, shelf, indexes, answering, fresh, reverted, since>>

\* The row goes first, then the directory, or what can be deleted of it.
RemoveRow(s) ==
  /\ OneChange
  /\ Known(s)
  /\ entry' = [entry EXCEPT ![s] = NoEntry]
  /\ rightful' = [rightful EXCEPT ![s] = 0]
  /\ Reverted({s})
  /\ UNCHANGED <<setting, shelf, indexes, answering, fresh, allowed, since>>

RemoveShelf(s) ==
  /\ rightful[s] = 0 /\ shelf[s] # 0
  /\ shelf' = [shelf EXCEPT ![s] = 0]
  /\ UNCHANGED <<setting, entry, indexes, changes, answering, truth, allowed, since>>

\* The process restarts: a registry in memory is empty, and what was at work is over.
Reboot ==
  /\ entry' = IF Durable THEN entry ELSE [s \in Corpus |-> NoEntry]
  /\ query' = NoQuery
  /\ Rest
  /\ stage' = IF stage = "done" THEN stage ELSE "died"
  /\ charting' = [at |-> "off", sources |-> {}]
  /\ UNCHANGED <<fresh, rightful>>
  /\ IF Durable THEN UNCHANGED reverted ELSE Reverted(Corpus)
  /\ allowed' = {} /\ since' = {}
  /\ UNCHANGED <<setting, changes, shelf, indexed, erased, activated, chart>>

-----------------------------------------------------------------------------
(* The indexes *)

VectorsAt(g) ==
  /\ since' = IF Running THEN since \cup {g} ELSE since
  /\ UNCHANGED <<setting, registry, indexed, erased, chart, charting, changes, answering, truth, allowed>>

\* Ready documents, as the rows or else the files tell.
Build ==
  /\ stage = "none"
  /\ stage' = "built"
  /\ indexed' = [indexed EXCEPT ![2] = {s \in Corpus : shelf[s] # 0 /\ (Known(s) => entry[s].ready)
                                                      /\ (Durable => Known(s))}]
  /\ UNCHANGED <<setting, registry, erased, activated, chart, charting, changes, answering, truth, allowed, since>>

MoveLexicalPointer ==
  /\ stage = "built" /\ ~Durable
  /\ stage' = "lexical"
  /\ activated' = [activated EXCEPT !.lexical = 2]
  /\ UNCHANGED <<setting, registry, indexed, erased, chart, charting, changes, answering, truth, allowed, since>>

MoveVectorPointer ==
  /\ stage = "lexical"
  /\ stage' = "moved"
  /\ activated' = [activated EXCEPT !.vector = 2]
  /\ VectorsAt(2)

RollBack ==
  /\ stage = "lexical"
  /\ stage' = "died"
  /\ activated' = [activated EXCEPT !.lexical = 1]
  /\ UNCHANGED <<setting, registry, indexed, erased, chart, charting, changes, answering, truth, allowed, since>>

\* The coordinator moves both at once.
PublishBoth ==
  /\ stage = "built" /\ Durable
  /\ stage' = "done"
  /\ activated' = [vector |-> 2, lexical |-> 2]
  /\ VectorsAt(2)

\* Mutant: the old vectors are deleted before the pointer moves.
CleanedEarly == stage = "lexical"

Cleaned == stage = "moved"

\* Pinecone: the vectors of the generation that was active are deleted.
EraseOld ==
  /\ Cleaned /\ setting = "pinecone"
  /\ erased' = {1}
  /\ stage' = IF stage = "moved" THEN "done" ELSE stage
  /\ UNCHANGED <<setting, registry, indexed, activated, chart, charting, changes, answering, truth, allowed, since>>

\* A rebuild of the graph: ready sources of documents that are registered, never none.
ChartList ==
  LET ready == {s \in Corpus : entry[s].ready /\ CorpusKind[s] = "document"} IN
  /\ OneChange
  /\ charting.at = "off" /\ ready # {}
  /\ charting' = [at |-> "listed", sources |-> ready]
  /\ UNCHANGED <<setting, registry, indexed, erased, activated, stage, chart, answering, truth, allowed, since>>

\* Documents may have gone since, and extraction may fail.
ChartFails ==
  /\ charting.at = "listed"
  /\ charting' = [at |-> "off", sources |-> {}]
  /\ UNCHANGED <<setting, registry, indexed, erased, activated, stage, chart, changes, answering, truth, allowed, since>>

ChartPublish ==
  /\ charting.at = "listed"
  /\ chart' = [there |-> TRUE, sources |-> charting.sources]
  /\ charting' = [at |-> "off", sources |-> {}]
  /\ UNCHANGED <<setting, registry, indexed, erased, activated, stage, changes, answering, truth, allowed, since>>

-----------------------------------------------------------------------------
(* The scope of a query *)

fixed == <<setting, registry, indexes, changes, truth>>

Refuse == query' = [NoQuery EXCEPT !.state = "refused"] /\ Rest

AskQuery(clearance, mode, wanted) ==
  /\ query.state = "none"
  /\ query' = [NoQuery EXCEPT !.state = "check", !.clearance = clearance, !.mode = mode,
                              !.wanted = wanted, !.unchecked = wanted]
  /\ allowed' = {s \in Corpus : ClearanceCovers(rightful[s], clearance)}
  /\ since' = {activated.vector}
  /\ UNCHANGED <<reader, fixed>>

\* Each source of the filter must be registered and visible.
Check(s) ==
  /\ query.state = "check" /\ s \in query.unchecked
  /\ IF ClearanceCovers(entry[s].label, query.clearance)
     THEN query' = [query EXCEPT !.unchecked = @ \ {s}] /\ UNCHANGED reader
     ELSE Refuse
  /\ UNCHANGED <<allowed, since, fixed>>

\* The rows are listed, with their labels.
ListRows ==
  /\ query.state = "check" /\ query.unchecked = {}
  /\ query' = [query EXCEPT !.state = "listed", !.listed = {<<s, entry[s].label>> : s \in {x \in Corpus : Known(x)}}]
  /\ UNCHANGED <<reader, allowed, since, fixed>>

\* A source.json counts where no row was listed.
Counted(s) ==
  \/ \E l \in Labels : <<s, l>> \in query.listed /\ ClearanceCovers(l, query.clearance)
  \/ /\ ~Durable
     /\ \A l \in Labels : <<s, l>> \notin query.listed
     /\ ClearanceCovers(shelf[s], query.clearance)

Asked(s) == query.wanted # {} => s \in query.wanted

\* Mutant: an empty scope is searched as any other.
SearchesNothing(scope) == FALSE

\* An empty filter means no filter to the retrievers: without sources there is no search.
NothingToSearch(scope) == scope = {}

Scoped ==
  LET scope == {s \in Corpus : Counted(s) /\ Asked(s)} IN
  /\ query.state = "listed"
  /\ query' = [query EXCEPT !.scope = scope, !.listed = {}, !.ids = scope,
                 !.state = IF NothingToSearch(scope) THEN "answered"
                           ELSE IF query.mode = "auto" THEN "route" ELSE "plan"]
  /\ UNCHANGED <<reader, allowed, since, fixed>>

-----------------------------------------------------------------------------
(* Routing *)

\* The first of the intents by score, and by name among equals.
Order == [graph |-> 1, lexical |-> 2, window |-> 3, sql |-> 4]
Beats(score, i, j) == score[i] > score[j] \/ (score[i] = score[j] /\ Order[i] < Order[j])
Top(score, among) == CHOOSE i \in among : \A j \in among \ {i} : Beats(score, i, j)

\* What the rules that match a question may add up to.
Scorings == [Intents -> RuleScores]

\* The winner must be sure enough, and ahead of the next.
Winner(score) ==
  LET first == Top(score, Intents)
      next == Top(score, Intents \ {first})
  IN IF score[first] < Threshold \/ score[first] < score[next] + Margin THEN "default" ELSE first

PlanOf(intent) ==
  CASE intent = "sql" -> {"sql"}
    [] intent = "graph" -> {"graph", "vector"}
    [] intent = "window" -> {"window", "vector"}
    [] intent = "lexical" -> {"lexical", "vector"}
    [] intent = "default" -> DefaultPlan

\* The registry is listed a second time: what is in it now need not be in the scope.
Databases ==
  {s \in Corpus : /\ entry[s].ready /\ CorpusKind[s] = "database"
                  /\ ClearanceCovers(entry[s].label, query.clearance) /\ Asked(s)}

Start(plan) == reader' = [m \in Retrievers |-> [at |-> IF m \in plan THEN "start" ELSE "off", gen |-> 0]]

\* What the plan no longer needs is forgotten.
Follow(plan, ids) ==
  /\ query' = [query EXCEPT !.state = "retrieve", !.plan = plan, !.ids = ids, !.wanted = {},
                            !.mode = IF "graph" \in plan THEN @ ELSE "none"]
  /\ Start(plan)

RouteSql ==
  IF Cardinality(Databases) > 1 THEN Refuse
  ELSE IF Databases = {} \/ "sql" \notin Configured[setting] THEN Follow(DefaultPlan, query.scope)
  ELSE Follow({"sql"}, Databases \cap query.scope)

Route(score) ==
  /\ query.state = "route"
  /\ LET plan == PlanOf(Winner(score)) IN
     IF plan = {"sql"} THEN RouteSql
     ELSE Follow(IF plan \subseteq Configured[setting] THEN plan ELSE DefaultPlan, query.scope)
  /\ UNCHANGED <<allowed, since, fixed>>

\* The retrievers a request names itself.
Override(plan) ==
  /\ query.state = "plan"
  /\ plan \in IF query.mode = "fusion" THEN Fusions ELSE {{query.mode}}
  /\ IF plan \subseteq Configured[setting] THEN Follow(plan, query.scope) ELSE Refuse
  /\ UNCHANGED <<allowed, since, fixed>>

-----------------------------------------------------------------------------
(* Retrievers, which run at once *)

At(m, where) == query.state = "retrieve" /\ m \in query.plan /\ reader[m].at = where
Goes(m, where, g) == reader' = [reader EXCEPT ![m] = [at |-> where, gen |-> g]]

\* The sources retrievers may take from, where no source stands for every source.
Admits(s) == query.ids = {} \/ s \in query.ids
Find(m, S, g) ==
  query' = [query EXCEPT !.found = @ \cup {[source |-> s, by |-> m, gen |-> g] : s \in {x \in S : Admits(x)}}]

\* Embedding the question, or a store, may fail, and the whole query with it.
RetrieverFails(m) ==
  /\ query.state = "retrieve" /\ m \in query.plan /\ reader[m].at \notin {"off", "done"}
  /\ Refuse
  /\ UNCHANGED <<allowed, since, fixed>>

\* Sentence windows are searched in the generation of the vectors.
ReadVectorPointer(m) ==
  /\ m \in {"vector", "window"} /\ At(m, "start")
  /\ Goes(m, "search", activated.vector)
  /\ UNCHANGED <<query, allowed, since, fixed>>

SearchVectors(m) ==
  /\ m \in {"vector", "window"} /\ At(m, "search")
  /\ Find(m, IF reader[m].gen \in erased THEN {} ELSE indexed[reader[m].gen], reader[m].gen)
  /\ Goes(m, "done", 0)
  /\ UNCHANGED <<allowed, since, fixed>>

\* The lexical retriever asks which generation the vectors have, then its own index.
ReadExpected ==
  /\ At("lexical", "start")
  /\ Goes("lexical", "search", activated.vector)
  /\ UNCHANGED <<query, allowed, since, fixed>>

\* Mutant: the generations are not compared.
AgreesAlways(expected) == TRUE

Agrees(expected) == expected = activated.lexical

SearchLexical ==
  /\ At("lexical", "search")
  /\ IF Agrees(reader["lexical"].gen)
     THEN /\ Find("lexical", indexed[activated.lexical], activated.lexical)
          /\ Goes("lexical", "done", 0)
     ELSE Refuse
  /\ UNCHANGED <<allowed, since, fixed>>

\* A path is found through the relations that a source of the scope supports.
Supporting == {s \in chart.sources : Admits(s)}

SearchGraph ==
  /\ At("graph", "start") /\ chart.there
  /\ Find("graph", Supporting, 0)
  /\ Goes("graph", "done", 0)
  /\ UNCHANGED <<allowed, since, fixed>>

\* Without a graph, and with Neo4j also when the pointer cannot be read, an automatic query
\* starts anew without it; others are refused.
GraphMissing ==
  /\ At("graph", "start") /\ (~chart.there \/ setting = "hosted")
  /\ IF query.mode = "auto"
     THEN /\ query' = [query EXCEPT !.plan = DefaultPlan, !.ids = query.scope, !.found = {}]
          /\ Start(DefaultPlan)
     ELSE Refuse
  /\ UNCHANGED <<allowed, since, fixed>>

\* The statement runs on the one database of the filter, if it still may.
SearchDatabase ==
  /\ At("sql", "start")
  /\ IF \E s \in Corpus : query.ids = {s} /\ CorpusKind[s] = "database" /\ entry[s].ready
     THEN Find("sql", query.ids, 0) /\ Goes("sql", "done", 0)
     ELSE Refuse
  /\ UNCHANGED <<allowed, since, fixed>>

Answer ==
  /\ query.state = "retrieve" /\ \A m \in query.plan : reader[m].at = "done"
  /\ query' = [query EXCEPT !.state = "answered"]
  /\ Rest
  /\ UNCHANGED <<allowed, since, fixed>>

-----------------------------------------------------------------------------
QueryModes == Retrievers \cup {"fusion", "auto"}

RegistryNext ==
  \/ \E s \in Corpus :
       \/ AddSource(s) \/ FinishSource(s) \/ RemoveRow(s) \/ RemoveShelf(s)
       \/ \E label \in Labels : Relabel(s, label)
  \/ Reboot

IndexesNext ==
  \/ Build \/ MoveLexicalPointer \/ MoveVectorPointer \/ RollBack \/ PublishBoth \/ EraseOld
  \/ ChartList \/ ChartFails \/ ChartPublish

AnswerNext ==
  \/ \E clearance \in Labels, mode \in QueryModes, wanted \in Filters : AskQuery(clearance, mode, wanted)
  \/ \E s \in Corpus : Check(s)
  \/ ListRows \/ Scoped
  \/ \E score \in Scorings : Route(score)
  \/ \E plan \in SUBSET Retrievers : Override(plan)
  \/ \E m \in Retrievers : RetrieverFails(m) \/ ReadVectorPointer(m) \/ SearchVectors(m)
  \/ ReadExpected \/ SearchLexical \/ SearchGraph \/ GraphMissing \/ SearchDatabase
  \/ Answer

\* A behaviour ends with its query.
Over == query.state \in {"answered", "refused"}

QueryNext == ~Over /\ (RegistryNext \/ IndexesNext \/ AnswerNext)

QuerySpec == QueryInit /\ [][QueryNext]_queryVars
-----------------------------------------------------------------------------
(* Properties *)

\* Every variable keeps its type.
QueryTypeOK ==
  /\ setting \in Settings
  /\ entry \in [Corpus -> [label : 0 .. TopLabel, ready : BOOLEAN]]
  /\ shelf \in [Corpus -> 0 .. TopLabel]
  /\ indexed \in [1 .. 2 -> SUBSET Corpus] /\ erased \subseteq {1, 2}
  /\ activated \in [vector : {1, 2}, lexical : {1, 2}]
  /\ stage \in {"none", "built", "lexical", "moved", "done", "died"}
  /\ chart \in [there : BOOLEAN, sources : SUBSET Corpus]
  /\ charting \in [at : {"off", "listed"}, sources : SUBSET Corpus]
  /\ changes \in 0 .. MaxChanges
  /\ query \in [state : {"none", "check", "listed", "route", "plan", "retrieve", "answered", "refused"},
       clearance : Labels, mode : QueryModes \cup {"none"}, wanted : SUBSET Corpus,
       unchecked : SUBSET Corpus, listed : SUBSET (Corpus \X Labels), scope : SUBSET Corpus,
       ids : SUBSET Corpus, plan : SUBSET Retrievers,
       found : SUBSET [source : Corpus, by : Retrievers, gen : 0 .. 2]]
  /\ reader \in [Retrievers -> [at : {"off", "start", "search", "done"}, gen : 0 .. 2]]
  /\ fresh \subseteq Corpus /\ rightful \in [Corpus -> 0 .. TopLabel] /\ reverted \subseteq Corpus
  /\ allowed \subseteq Corpus /\ since \subseteq {1, 2}

Answered == query.state = "answered"

\* "Restricted content cannot surface", and a removed source "stops appearing in answers
\* immediately": an answer rests on sources the caller might see at some moment since it asked,
\* whatever the indexes still hold and however the registry moves between its two listings.
\* Where the registry is in memory this fails for a source that lost its row, in a restart or a
\* removal, while its source.json was there and had another label.
AnswersRightful ==
  Answered => \A e \in query.found :
    e.source \in allowed \/ (~Durable /\ e.source \in reverted)

\* Vectors, sentence windows and lexical matches of an answer come from generations the vectors
\* had active since the query began, although the pointers move one after the other: it mixes
\* generations only if one was activated meanwhile.
AnswersFromActive ==
  Answered => \A e \in query.found :
    e.by \in {"vector", "window", "lexical"} => e.gen \in since

\* A source that was indexed all the time is found.  Only a publication that deletes the
\* generation a query has chosen, before it searches there, leaves it with nothing.
IndexedFound ==
  /\ Answered /\ query.plan \cap {"vector", "window", "lexical"} # {}
  /\ ~(setting = "pinecone" /\ Cardinality(since) > 1)
  => \A s \in query.scope :
       (\A g \in since : s \in indexed[g]) => \E e \in query.found : e.source = s
=============================================================================
