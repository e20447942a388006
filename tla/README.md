# Verification of Enterprise Knowledge Fusion RAG

TLA+ modules that model the parts of this repository whose correctness depends on order:
indexing jobs and the workflow that drives them, what those jobs write to the hosted stores,
ingestion and indexing on the spot, queries over indexes that move, fusion and citations, the
crawl of a website, accounts, organizations, rate limits, the audit log with its retention, and
the migration to the hosted stores. Each module is checked by TLC on small instances, and its
safety is proved with TLAPS for every value of its constants. `PROJECT.json`
lists the parts, the runs, the mutants that show that each property can fail, the source lines
of each definition, the hazards and the theorems.

    tlc -workers 2 -config Jobs_graph.cfg MCJobs.tla     # a run
    tlapm JobsProofs.tla                                 # the proofs of a module

Contents: 1 inventory, 2 modules, 3 runs, 4 fairness, 5 proofs, 6 divergences, 7 what is not
modelled, 8 plan.

## 1. Inventory

Paths are relative to `src/`. "Hosted" is the deployment on PostgreSQL, Vercel Blob and
Pinecone; "local" is the file system with FAISS.

### Indexing jobs (`app/jobs`, `frontend/workflows`)

| part | state | operations |
|---|---|---|
| job table, `repository.py` | `rag_jobs` (spec, status, step, checkpoint), `rag_workspace_jobs` (one row per reserved workspace) | `create`, `list`, `cancel` |
| handlers, `routes.py`, `processing.step_job` | none of their own | create and dispatch, resume, cancel, step, failed |
| workflow, `ingest.ts` | durable run: step number, attempts | one step request at a time with a 235 s timeout and 5 retries; then a report of the failure |
| provider work, `processing.py` | artifacts in the blob store (`vector.json`, `embeddings-*.json`), `rag_sources`, lexical blobs, Pinecone records, `rag_active_generations` | parse, snapshot, embed, lexical, publish |
| graph jobs, `graph.py` | extraction artifacts, graph snapshot | graph_extract, graph_publish |

`step_job` reads the row in one transaction, works for up to 220 s outside any transaction, and
records the next checkpoint in a second one. The workflow abandons a request at 235 s and
repeats it, users resume jobs at will, and an abandoned request runs on; so several requests for
one step are in flight as a normal case. Cancellation, completion and the report of a failure
come between the two transactions. What has to hold: the step number admits one of the requests
(`StepFence`); a workspace is reserved for one unfinished job (`HolderUnfinished`,
`ReservationHeldOnce`); a job is not cancelled while it publishes (`CancelSparesPublication`);
runs end, and the reservation is returned (`RunsEnd`, `ReservationReturned`). For the stores:
readers are only pointed at whole generations (`PublishedWhole`), whose artifacts are about the
same documents (`SameDocuments`); a source that says it is READY is in a whole generation
(`ReadyIndexed`); a publication that has begun ends (`PublicationEnds`), which holds only while its
source can become READY (`PublicationEndsIfIndexing`).

### Sources (`app/api/routes/sources.py`, `app/repositories`, `app/persistence/metadata.py`)

State: `rag_sources` with a status REGISTERED, INDEXING, READY or FAILED, and stored documents.
Operations: register, update, transition, delete; the synchronous routes that ingest on the
spot (local deployments) and mark the source FAILED on an error. Removal checks for open jobs,
deletes the row and deletes the documents in three steps. A source becomes READY from INDEXING only.
Hard: removal against jobs in flight, late work that registers a removed source again, a second
crawl that writes other documents over those of the first, a row that is left REGISTERED or FAILED.

### Generations (`app/persistence/metadata.py`, `app/retrieval/indexing.py`, stores)

State: operations (preparing, ready, complete, failed, with the stores that are prepared), the
active generation per workspace and kind; locally, generation directories with a `CURRENT`
pointer for vectors and another for the lexical index. Operations: `begin_operation`,
`mark_prepared`, `publish`, `fail`; local prepare, activate and roll back. Hard: two pointers
that move one after the other and a roll back that races another activation; a clean-up of the
generation that was active before. Has to hold: pointers name whole generations
(`PointersWhole`), they agree again once an activation runs alone (`PointersAgree`), a READY
source is in the active generation (`ReadyIndexedLocally`), and a removed one is not seen again
(`RemovedUnseen`).

### Queries (`app/retrieval`, `app/routing`, `app/reranking`, `app/citations`, `app/generation`)

No state but caches of loaded indexes. A query is routed by rules to retrievers, restricted to
the sources the caller selected and may see, run on one or more retrievers, fused by
reciprocal rank, re-ranked, and answered with numbered citations that are validated. Hard: a
lexical query reads the active generation twice; an empty set of sources stands for "all";
fallbacks when the graph index is missing; ties and duplicates in the fusion. Has to hold: an
answer rests on sources its caller might see (`AnswersRightful`), from generations that were
active while it ran (`AnswersFromActive`), and finds what was indexed all the time
(`IndexedFound`); a document is fused once and fairly, evidence is spread over sources, and each
citation number is that of the passage it quotes (`RankingSound`).

### Knowledge graph (`app/graph`)

State: immutable snapshots per generation and the active one. Operations: extraction per
document, prepare, activate, and retrieval over paths. Hard: a rebuild lists its sources long
before it is activated, and a query falls back when there is no graph (in `Queries`); graph jobs
share the table, the fence and the publication stage of the others (in `Jobs`).

### Accounts (`app/auth`)

State: users, sessions with one-use refresh tokens and the history of used ones, e-mail tokens,
attempt counters; organizations, memberships with a role and a clearance, invitations.
Operations: register (two transactions and a compensation), log in, authenticate, refresh, log
out, verify, reset; create an organization, invite, accept, set role and clearance, remove a
member. Hard: transactions that lock one membership row and count the others; a registration
whose compensation races the self-repair of `/me`; a refresh that races a log out or a reset.
Has to hold: an organization keeps an owner (`OwnerKept`); privileges come from owners
(`PrivilegeFromOwner`); who was removed stays out (`RemovedStayOut`); a refresh token is used
once (`UsedTokensRemembered`); a session that was revoked stays revoked (`RevokedForGood`), and
none outlives a reset of the password (`OpenSinceReset`); a registration that is undone leaves
nothing behind that it was told of (`OrphansUntold`).

### Audit log and retention (`app/audit`, `app/retention`)

State: `rag_audit_events`, a hash chain per organization; retention policies. Operations:
`append` with up to four attempts, `verify_chain`, `purge_before`; `rag-retention` that removes
old sources, audit events and query counters. Hard: appends that wait for a row lock and see an
old snapshot, a purge between two statements of an append, time stamps out of order with
numbers; a purge of everything there is, or of everything an append has seen. Has to hold: the chain
verifies (`ChainVerifies`), is not restarted (`ContinuousUnlessEmptied`), and recent events stay
(`PurgeSparesRecent`); the names say where the code does not keep that.

### Migration to the hosted stores (`app/persistence/migration.py`)

State: the local files, the rows, documents and stores of the target, a checkpoint per source.
Operations: `inventory`, `migrate`, `verify`, `cutover`, each a command that can die and be given
again while the workspace goes on ingesting, indexing and removing. Hard: the steps of one source
are separate; the inventory is older than the copy; READY is written before the local pointers move
and taken back if they do not. Has to hold: what is cut over to is whole (`CutoverWhole`), and
a migration can be resumed (`ResumesUnlessCut`).

### Crawl (`app/ingestion/website.py`)

State of one crawl: queue, URLs seen, pages, failures. Hard: redirects off the host, to addresses
that are not public or to pages seen before, limits of three kinds, robots.txt, links that
cannot be parsed. Has to hold:
`CrawlSound`, see below.

### Rate limits (`core/rate_limit.py`, the throttle of `auth/service.py`)

State: counters per window and key, in a table that is pruned as requests come, or in memory.
Hard: a request that straddles the end of its window. Has to hold: `WindowHolds`.

### Others

Parsers of documents, provider clients, evaluation, configuration, logging, user interfaces:
pure computation, input and output, or presentation.

### How the parts interact

    user -> POST /jobs -> rag_jobs, rag_workspace_jobs -> dispatch -> workflow run
    workflow run -> POST step (retried, abandoned, duplicated) -> step_job
    step_job -> provider work -> blob store, Pinecone, rag_sources, rag_active_generations
    user, rag-retention -> DELETE source -> rag_sources, blob store
    ingestion route -> registry, files -> indexing.py -> stores -> two CURRENT pointers
    query -> registry -> rules -> retrievers -> pointers -> FAISS or Pinecone, lexical, graph, SQL
    query -> fusion -> re-ranking -> citations -> answer -> validation of its citations
    every route -> rate limit -> session -> membership, clearance -> scope of a query
    migration command -> local files -> rows, documents, stores and pointers of the target
    every handler -> audit append; rag-retention -> purge

## 2. Modules

| module | what it is |
|---|---|
| `Jobs` | the job table, its handlers, the requests in flight and the workflow runs |
| `WorkspaceReservation` | abstract: a workspace is reserved for one job at a time, each job once |
| `Publication` | the provider work of a retrieval job on the hosted stores, with source removal |
| `PublishedGeneration` | abstract: the pointer names prepared generations only |
| `LocalIndexing` | ingestion, indexing and removal within one request, on three deployments |
| `Queries` | one query, and the registry, indexes and graph that move beneath it |
| `Ranking` | fusion, re-ranking, citations and the extractive answer of one query |
| `Crawling` | the crawl of a website |
| `Accounts` | accounts, their personal organizations, sessions, refresh tokens and links |
| `Organizations` | memberships, roles, clearances and invitations |
| `RateLimit` | the counters of a fixed window, in the database and in memory |
| `AuditChain` | the audit log of one organization and its retention |
| `Migration` | the commands that move a workspace to the hosted stores |
| `MCJobs`, `MCPublication`, `MCAuditChain` | one of these for TLC, with symmetry sets |
| `MCAccess` | `Accounts`, `Organizations`, `RateLimit` and `Queries` for TLC |
| `MCLocal` | `LocalIndexing`, `Migration`, `Ranking` and `Crawling` for TLC |
| `JobsProofs`, `PublicationProofs`, `AuditChainProofs`, `LocalIndexingProofs`, `MigrationProofs`, `RankingProofs` | theorems and proofs about the module of that name |
| `AccessProofs` | those about the four parts of `MCAccess`, and that it implements each |
| `LocalProofs` | those about `Crawling`, and that `MCLocal` implements each of its four parts |

`MCAccess` and `MCLocal` check four components in one run. The components of one share no
variable and no step, so an interleaving of them shows nothing that each alone does not; a
behaviour of the MC module therefore picks one (`part`) and leaves the others as they began. The
states of a run are the sum, not the product, of the four.

Definitions named ...Always, ...Never and the like that stand right before the definition they
vary, under a comment that says "Mutant", are used by nothing in the models: they are plausible
errors of the code, put in the place of the original to see a property fail.

### Jobs

`spec`, `status`, `stage`, `step` are the columns of `rag_jobs` (`stage` is
`checkpoint["stage"]`, with the artifact kind while embedding), `lock` is `rag_workspace_jobs`.
`request` is a set of slots: each is a step request between its arrival (`sent`), its first
transaction (`advance`), the end of the provider work (`commit` or `raised`) and its second.
`run` is a set of workflow runs (`call`, `wait` for a response, `failing`). A request knows its
caller until that one abandons it.

- `Create`, `Dispatch`, `Resume`, `Cancel`: POST /jobs and its subresources. The handlers check
  and write in one transaction. `Dispatch` starts a run whatever the status, as a repeated
  POST does.
- `Read`, `AdvanceTo`, `AdvanceFail`, `AdvanceRefuse`, `Commit`, `RecordRetrying`: `step_job`
  and the exception handler of its route, an action per transaction. `Superseded` is the
  comparison of step and status that both transactions make.
- `Call`, `Abandon`, `Answered`, `Threw`, `MarkFailed...`, `Lose`: the workflow, its retries,
  and what can be lost. `ingest.ts` does not repeat a 4xx; none is answered here, since the secret is
  right and the row of a job is never deleted, and the HTTPException of a wrong storage backend
  (`AdvanceRefuse`) is a 503, which is repeated like the others.

The provider work returns any stage that may follow (`Flow` per kind), or fails. The status
`dispatch_failed` of a response is not stored and has no counterpart; the engine's retries of
its report are unbounded here.

### Publication

The job table is reduced to what the provider work reads: a request for the current step of an
unfinished job may arrive at any time, because `Jobs` lets runs start freely. A retrieval
checkpoint passes each stage once, so that the stage stands for the step number. Stages are
split where other processes can come between:

- parse: `CreateSource` (a row that is REGISTERED), `BeginIndexing` (its transition, a transaction of
  its own), `SaveDocuments` (overwrites `documents.json`); `FindSource` for a reindex
- snapshot: `Gather` (reads), `WriteSnapshot` (overwrites `vector.json`)
- embed: `Load`, `Embed` (keeps embeddings that are stored, if they are as many as the documents),
  `Upsert` (records of the same id are replaced, others stay)
- lexical: `Load`, `UploadIndex` (an existing blob must be equal), `UploadRest`
- publish: `WriteManifest`, `VerifyLexical`, `PublishPointer`, `MakeReady` (from INDEXING or READY)
- `CheckDeletion`, `DeleteRow`, `DeleteStored`, `Expire`, `DeletionStops`: removal of a source,
  by an administrator or by `rag-retention`

A document has a source, a place in it (which make its id) and an edition. Every parse of a file finds
the same edition, a crawl may find any, with fewer or more documents. A batch is the whole
generation; sentence windows follow the documents. A removed source is "absent" and can be
registered again by its job, as in the code. `rewritten` (jobs whose snapshot a late request has
replaced) and `missed` (sources whose job gathered documents while they were removed) are history:
no action reads them, they state the conditions of `SameDocuments` and `ReadyIndexed`.

### AuditChain

`chain` is the table of one organization; `history` remembers every event ever recorded, and no
action reads it except to give the next event a hash of its own. An append is `Start`
(takes the time stamp), `Select` (the snapshot of the statement), `Lock` (the newest row of the
snapshot that still exists, once nobody else holds it), `Insert` or `Conflict` (unique
constraint, next attempt). A retention pass reads a boundary (`PurgeRead`) and deletes up to it
(`PurgeDelete`) in two statements. `Tick` lets time pass, also over an organization that records
nothing; an append or a pass takes less than two ticks (a tick is many days). Two histories mark
what breaks the promises: `emptied`, when a pass deletes every event there is, and `stranded`, when
it deletes all that an append has seen and leaves events recorded since.

### LocalIndexing

A request is a list of the steps it has left, which the kind of source and the deployment decide
(`PdfSteps`, `PrepareSteps`, `ActivateSteps`); an action takes the head of the list. Between any
two steps come other requests, a failure of the step itself (`Fragile`), or a restart of the
process. `rows` is the registry, lost in a restart unless it is durable; `files` is `source.json`
and the documents; `generation` has what is written of each index and the state of its operation;
`pointer` is `CURRENT` of each index, the Pinecone control record, or the row of the coordinator.
The lexical pointer moves first, and is restored if the other fails; on Pinecone the generation
that was active when the control record was read is cleaned up. An ingestion that fails records
FAILED in two steps, each of which may fail. `mishaps`, `alone`, `torn` and `removed` are history
variables of the properties.

### Queries

`query` goes from the check of its sources (`check`, `listed`) to its scope, route and plan; its
retrievers run at once, each choosing the generation it will search (`start`, `search`) and
answering later. The registry (`entry`, and `shelf` for the labels of `source.json`), the
publication of a second generation, a rebuild of the graph and a restart of the process move
beneath it. A label is a rank. `allowed` and `since` say what was visible and which generation
was active at some moment of the query: the strongest that can be asked of a reader that takes no
lock. Routing keeps its control (threshold, margin, fusion of the best two, default plan,
fallback when a retriever is not configured or finds nothing); what the patterns of a rule add up
to is any of `RuleScores`.

### Ranking

The steps of one query in order: the plan, the answers of the retrievers (any lists without
repetition), the fusion by reciprocal or weighted ranks, the re-ranking with the cap per source,
the numbering of passages, the extractive answer, the validation of its markers. Scores of the
fusion are integers, a common multiple of the denominators being their unit, so that ties are
ties. Each step is an action whose result is an operator with a name (`FusedHits`, `Spread`,
`Numbering`, `Composed` in the proofs), so that what is proved of an operator is used where the
step is. Content is a sequence of words and of labels such as `[S2]`, which sources may contain and
the answer must neutralize.

### Crawling

The fetch of robots.txt, the queue with its room, the addresses a host may have, redirects hop by
hop, canonical URLs and contents that are there already, and the limit, which counts responses.
Sites answer as they like at every fetch. A link, canonical URL or location that `urljoin` cannot
parse raises an error that nothing handles: it ends the crawl (`Breaks`), where other failures of a
page other than the seed are listed and passed over (`Notes`). `failures` has the URLs the manifest
lists them under.

### Accounts, Organizations, RateLimit

A request is cut where it holds no transaction. `Accounts`: between the insertion of an account
and of its organization, between the check of a password and the insertion of the session,
between the read of an account and the token made for it. `Organizations`: the caller's role, the
member's role, the locked row with the count of owners, the write, the clearance. `raced`,
`owned`, `usurped`, `expelled` are history. So is `untold` in `Accounts`: whose organization was made by
`GET /auth/me`, or by the registration whose acknowledgement of the commit was lost
(`ProvisionUnheard`). `RateLimit`: the insertion of the counter, or the
count in the row that is found, which may be pruned in between.

### Migration

The local application goes on while one command at a time is at work. Its ingestion of a source is
`Appear` (INDEXING), `Store` (documents), `BuildOwn` (a generation with every READY source and
itself), `SaveReady` (`source.json` says READY, then the registry), `Activate` (the pointer), and
`Fail` at any step, after READY too, with FAILED recorded or not even that; the end of the process,
whose registry is in memory, is the same. `Rebuild` is an indexing by request, of a source in any
status; `RemoveSource` takes the row and the files and leaves the generations alone; `BuildGraph` a
new graph. A command is the inventory with which it is given, the listing of records, and
for each source its record, one or two transitions, its documents and its checkpoint; then each
store of each generation of the inventory. `verify` compares the sets of sources and their
documents, `cutover` publishes what `verify` has passed. `Die` ends the command anywhere. `cut`,
`early` and `rebuilt` are history.

### The level of detail

Contents (documents, embeddings, hashes, names) are values that can be told apart and nothing
else. A database transaction that locks the row it writes is one action; one that does not is
split at its statements (`AuditChain`) or at its awaits. Blob uploads and Pinecone calls are one
action each. Each of them may fail at any time (`Raise`), and the instance may die (`Lose`).

## 3. Runs

| run | question | bounds | distinct states |
|---|---|---|---|
| `jobs_graph` | do the reservation, the step fence and the refusal to cancel a publication hold, and is `WorkspaceReservation` implemented? | 1 workspace, 2 jobs, 1 run, 2 requests, 1 retry, 1 repeated stage | 497 716 |
| `jobs_runs_end` | does every workflow run end while another one races on the job? | 1 job, 2 runs, 2 requests, 1 retry | 197 028 |
| `jobs_recovery` | is the reservation returned if users resume? | 1 job, 1 run, 2 requests, no retry | 7 145 |
| `jobs_serialization` | (violated) is a step recorded only under the reservation? | as `jobs_graph` | stops at the violation |
| `publication_order` | are generations whole, of one snapshot unless it was replaced, and READY sources in them? | 2 jobs, 2 sources, website and reindex, crawls with 1 or 2 documents, 2 requests, neither cancellation nor removal | 2 320 837 |
| `publication_ends` | is nothing half built published, and does publication end if its source can become READY, while jobs are cancelled, sources removed or left FAILED? | 1 job, 2 sources (one FAILED), upload and reindex, 2 requests | 77 900 |
| `publication_stuck` | (violated) does a publication that has begun end? | 1 job, 1 source, removal | stops at the violation |
| `publication_duplicate` | (violated) are duplicates of a publication harmless? | 2 jobs, 2 sources, 2 requests | stops at the violation |
| `audit_chain` | does the chain verify unless an append was stranded, go on unless it was emptied, spare recent events, and are appends dropped only when outrun? | 2 appends, 2 purges, 4 events, 4 ticks, 2 attempts, floor 2 | 1 276 335 |
| `access` | who may do and see what, while sessions, roles, windows, sources and indexes change under the requests that read them | see below | 880 899 |
| `local` | does what is written on the spot, migrated, ranked and crawled stay whole through overlaps, failures and restarts? | see below | 2 317 775 |
| `local_database` | (violated) do the READY sources of a workspace have documents to load? | 2 sources, one of them a database, no failures, no removal | stops at the violation |

Why the bounds are enough for what is asked.

- `Jobs`, `Publication`, `AuditChain`: a duplicate needs two requests (a snapshot replaced while two
  others are between their writes needs three, which only the proofs cover); a request that is late
  for its job needs two jobs, and a third would only repeat the second; two editions, of different
  length, separate crawls that find as many documents from those that do not; one retry separates "repeats"
  from "gives up"; a stage that repeats once separates repeating from moving on. Graph jobs are
  run because they have the shortest flow that repeats a stage and publishes; `Flow` of the other
  kinds differs in the stages between, and the proofs cover all kinds. In `AuditChain` two appends
  contend for a number, and two attempts separate a conflict from the last one; four events are
  enough to purge twice and append after it; the window of one tick is below the floor; four ticks
  let every event outlive the floor, so that the table is emptied and an append stranded.
- `access`, accounts: two accounts with one address (the second can only be registered when the
  first is undone), one session, two requests, one rotation, one reset, two links. Organizations:
  two users and two requests are what two owners need to remove each other, and the bodies that
  remove, promote, demote and set a clearance. Limits: width 2, limit 2 and five ticks have two
  ends of windows. Queries: a document and two databases, two labels, three deployments, one of
  them without a key for SQL; one change of the registry or the graph during the query besides the
  publication of a second generation; scores on either side of the threshold and within the
  margin.
- `local`, ingestion: two sources, two requests, two generations, one restart, and failures of the
  writes, the moves of the pointers and the records of failures. Migration: two sources, two
  local generations of each kind, and three turns that commands, indexing by request, removals and
  graphs share: a command that dies and one that resumes it, with a removal or a rebuild between
  them, or a migration, a removal and a cutover. Ranking: lists of
  length 2 over three documents, three windows and a path, chosen so that two windows belong to
  one document and one document to several retrievers; evidence of 2 from a pool of 3 with one hit
  per source, two relevances. Crawl: six URLs, a limit of 2 pages and a queue of 2 links per page
  (10 in the code), one redirect, two texts, and three lists of links with a repetition, a link off the host, and a
  malformed link before and after the queue is full.
- Deadlock is not checked in `Publication`, `MCAccess` and `MCLocal`, whose jobs, requests and
  queries come to an end. Symmetry is used in runs without liveness only.

## 4. Fairness

- `Jobs!Fairness`: a request that is in flight goes on (the work is cut off at 220 s and the
  rest is a transaction), with no assumption about whether it succeeds; a run that has a step to
  ask for gets to ask (strong, since a slot may be taken and freed); a run that reports a
  failure gets to. With this alone runs end.
- `Jobs!RecoveryFairness`: users resume a job again and again, and what is tried often enough
  succeeds. The code cannot promise either; `ReservationReturned` says what its retries are worth
  if they hold.
- `Publication!Fairness`: requests end, are repeated, and each step of a publication succeeds if
  it is tried infinitely often. Nothing is assumed about users who cancel or remove, and earlier
  stages may fail for ever: the property is about jobs that have begun to publish. `MakeReady` is
  possible only while the source is INDEXING or READY; for one that is not, publication raises at
  every retry, and `PublicationEndsIfIndexing` says no more than that the job ends or this is so.

`AuditChain`, `MCAccess` and `MCLocal` assume no fairness: every property of theirs is a safety
property, and a request, a command or a crawl may stop anywhere.

## 5. Proofs

All theorems are about the specification of their module with no assumption on the constants other
than its ASSUMEs, which say which constants are numbers, sets of what, or not empty. Each proof module has an inductive invariant, in
named parts, that is shown to hold initially and to be kept by every action, one lemma per action
or group of actions; the other theorems follow from it. Every safety property of a run, invariant
or action property, is stated by a theorem.

**Jobs.** `Inv` adds three things to the types and `HolderUnfinished`. `Created`: a slot names a
job that has a row. `Linked`: a request with a caller is the only one its run waits for.
`Fenced`: a request that read its row carries a step no later than the row's, and if it is the
same then so is the stage; and once it has read a publication stage the job stays at one or
completes. `Fenced` is what makes `Commit` move along the flow (`FenceHolds`), and, since
`Cancel` refuses publication stages, what keeps it from meeting a request that is publishing
(`PublicationSpared`). `ReservationOfUnfinished` needs it too: a commit may not move a job that
has completed. `ReservationImplemented` maps the lock to `holder` and the jobs with a row and
no lock to `spent`. Any kind, number of workspaces, jobs, runs, requests and retries is covered,
website and upload flows included, which TLC does not run.

**Publication.** The invariant comes in layers, each inductive relative to those before.

- `Inv` says what a stage leaves behind: `StagesLeave` for the job (a snapshot before embedding,
  vectors before the lexical index, all lexical blobs before the publication), `RequestsLeave` for
  a request, which may be late and whose job may be anywhere: what it found when it arrived is
  still there, since these stores are written over but never emptied; and what it did before its commit is there too.
  `PointerSafe` then shows that every step is one of `PublishedGeneration` or none: only four
  actions add to a generation, none of them takes from it, and the pointer moves for a request
  whose generation is whole.
- `Artifacts` is the converse: what a job has not come to is not there yet, and a request is never
  ahead of its job (`Reached`). Without it, a snapshot gathered late could not be told from one
  that later stages have read. It also keeps what readers are pointed at whole.
- `OneSnapshot`: unless its snapshot was replaced, each artifact of a job is empty or equal to the
  snapshot, and what a request has loaded is that snapshot. `SameDocuments` follows, as nothing in
  a whole generation is empty (`SameSnapshot`).
- `OwnIndexed`: the source of a job is in whatever the job has gathered, loaded or stored, unless it
  was missed. When a job makes its source READY its generation is whole, and `ReadyIndexed` lasts
  because whole generations do not change in what they hold of such a source (`ReadyIsIndexed`).

All cover cancellation and removal, for any number of jobs, sources, requests and editions; TLC
runs `ReadyIndexed` and `SameDocuments` without cancellation and removal.

**AuditChain.** Nothing is assumed of how often events are recorded. `Inv` has three parts. Whatever
happens, a row is an event of the history, an append that was refused its number was overtaken by one
for each attempt, and a retention pass keeps its distance to the floor (`OutrunWhenDropped`). Until an
append is stranded the rows are an interval of numbers, linked (`Linked`), and an append that would
start the numbers again finds the table empty or number 1 taken (`FindsFirst`): so the table verifies
(`VerifiesUnlessStranded`), also after it was emptied. And until it was either, the rows are the newest
part of the history and not none of it (`Suffix`), so that the chain is continuous
(`ContinuousOtherwise`) and the boundary a pass has read is a number of old events (`PurgeOld`,
`RecentEventsSpared`).

**LocalIndexing.** Again in layers; `IndexInv` is their conjunction.

- `Well`: what is left of a request is a list in which each step may follow the one before
  (`Follows`) and the last one ends it. The lists are built by concatenation and shortened by one at
  a time; the rest of the proofs only looks at the head, and at what the tail may still contain.
- `Building`: a generation is begun by one request, which alone names it until it moves a pointer.
  What is written by then depends on the step at the head (`VectorsThere`, `LexicalThere`), what may
  be named by others too (`VectorsUnmoved`, `LexicalUnmoved`), and what a roll back returns to is
  whole (`Returns`). `PointersWhole` is a part of it: it is not inductive without `Returns`, as a
  restored pointer is the one that was read before the activation, nor without the rule that a
  clean-up spares the active generation.
- `Agreeing`: as long as activations neither overlap nor are cut, one request moves pointers
  (`Alone`), and how far it has come says where each of them is (`Halfway`). A roll back
  returns both to where they agreed.
- `Registered`: a source is ingested once, and its row, its files and the step of its request agree.
- `Promised`: whoever is still to move a pointer has the READY sources in its view, and a READY
  source is indexed or its own request will yet activate it or record its failure. READY is written
  before the pointers move, so that `ReadyIndexedLocally` cannot be proved without the second part.
- `Gone`: who is removed has no row, and neither files nor a request unless one was in its way.

The failures that may happen (`Fragile`), the deployment, the number of requests and of restarts
are arbitrary.

**Migration.** A source is past when its ingestion has said READY or is over (`Past`); it may fail or be
removed after that, but it becomes READY no more (`SourcesAge`). A generation is activated when its
sources are past, but for those that were indexed by request (`BuildsTrue`), so the inventory that
finds it is followed by a listing that sees those READY which still are. A checkpoint under READY means
that row and documents are there (`CheckpointsTrue`), and a command reaches the stores of a generation
only after each source of it that is READY is settled (`ListingTrue`). A store that is prepared therefore
has its READY sources settled, whichever of several commands prepared it (`PreparedSettled`), and a
cutover publishes such generations (`ActiveWhole`). `ItemState` and `RowsAgree` are about the row of
the source at work and of the others: it can only disagree with the local one where `cut` or `early`
say so, READY taken back as FAILED being one reason for `early`.

**Ranking.** The steps do little; the substance is in lemmas about the operators, for lists, weights
and scores of any length and value (`RankingAssumption`: weights are natural, scores of the
cross-encoder integers, every hit has a passage and some content, the names of the keys are an order).

- A strict total order of a finite set is listed with each element once and in order
  (`InOrderLists`). The order of the fusion is one (`AheadIsAnOrder`), as its ties are broken by
  rank and name; so a key is fused once. A reciprocal rank is positive and falls with the rank
  (`Reciprocals`), so that a key which every list ranks higher has the higher score
  (`DominationCounts`), and `FusedHitsAreFair`.
- Re-ranking is a permutation, and its cap (`CapHolds`, `CapIsReached`) takes a hit beyond it only
  where every source that was left out has filled its share (`SpreadIsFair`).
- Numbering names each passage of the evidence once (`NumberingNamesAll`). A paragraph is words
  without labels and then the markers of its own hit, so its validation finds these and nothing
  else, whatever labels the source had (`ParagraphResolves`).

`RankInv` says that each list in the state is the value of its operator on those before it;
`RankingIsSound` puts the lemmas on top. The properties are not inductive: which candidates are
missing in the evidence is only known from how it was computed.

**Crawling** (in `LocalProofs`). The attempts followed by the queue are everything that was ever
queued, in its order and each URL once (`EachOnce`). Taking a URL moves the border between the two,
and links are appended at the end as long as there is room. That no URL is fetched twice and that a
crawl which ends below its limit has asked for all follows from this. `AllAccounted` counts attempts
as indexed, listed as failures or at work; the seed, the first of the list, is never listed. Under
which URLs failures are listed is not proved, as it is not so that they are those asked for (6).

**Accounts.** `FreshAccounts` says that nothing belongs to an account or a session before it is
inserted, and `AccountCallOK` what a request relies on between its transactions: a registration
that is not finished still has its account, and if that has an organization, the registration was not told of it.
`OneRegistration`: no two unfinished registrations share an account, so that undoing one never
takes away what another has made. With these, `UsedTokensRemembered`, `OpenSinceReset` and
`OrphansUntold` are inductive. `RevokedForGood` is an action property and needs the types only:
each action that writes a session is shown to leave a revoked one alone.

**Organizations.** `OwnerKept` is not inductive. `OneTakesOwner` says why it holds: in an
organization without a race, at most one request that has counted the owners is about to take one
away (`LocksExclude` excludes two that hold the same row), and an owner other than its target is
left; nobody else can take that one, since this would be a second request. `PrivilegeFromOwner`
needs that a request's knowledge of its caller, which may be stale, was true once
(`OwnersRemembered`, `OrgCallOK`), and `RemovedStayOut` that the accepted invitation of a removed
member is never touched again (`ExpelledOut`).

**RateLimit.** `RowCounts`: what a window has admitted is in its row for as long as that may not be
pruned. A request that comes to its row after the window has expired does not count as admitted by
it, which is the condition of `WindowHolds`. In memory a request is one step.

**Queries.** The invariant follows a query from its caller to its answer: labels in the registry are
rightful (`LabelsOK`), what was listed could be seen (`ListedOK`), the scope is of such sources
(`ScopeOK`), the filter of every retriever that reads an index is within it and is not empty
(`IdsOK` - the empty filter, which means "all", reaches the retriever of databases only), and so is
what was found (`FoundOK`). `ReaderOK` and `SinceOK` say that a generation a reader has chosen was
active during the query. On top of it, `Finding` leads to `IndexedFound`: the second generation is
not active before it is built nor changed after, the first is only deleted when the second is
active, so that a reader that meets a deleted generation has seen two (`Moved`); a retriever that
reads an index takes the whole scope (`FullFilter`); and once one of them has searched, whatever
every active generation holds is found (`FoundAll`). For any sources, labels, filters, routes and
deployments.

**Compositions.** `AccessImplementsParts` and `LocalImplementsParts` show that a behaviour of
`MCAccess` or `MCLocal` is one of each of the four specifications it is put together from, so that
the theorems about these hold of what the runs check. The constants are those of the MC modules
there, but their values are not used.

Only model-checked: `RunsEnd`, `ReservationReturned` and `PublicationEndsIfIndexing`, which are
liveness under fairness and so need ENABLED (out of this prover's reach); and the four properties
that are violated. That the operators of `Queries` and `Ranking` translate the code is a matter of
reading, as everywhere.

## 6. Where code and words differ

Shown by a run (`PROJECT.json`, findings):

- `jobs_serialization`: the handler of a failed step writes "retrying" by id
  (`app/jobs/routes.py:152`), over "cancelled" too; the job goes on beside the next one.
- `publication_stuck`: a failed job is not open, so its source may be removed although it is at
  its publication, where it can no longer be cancelled; it keeps its workspace. A removal by age
  does the same to a reindexing job.
- `publication_duplicate`: a late duplicate of a publication moves the pointer back.
- `local_database`: a registered database is READY and has no documents; once a workspace has one,
  local ingestion of any other source fails when it loads the documents of all READY sources
  (`app/retrieval/indexing.py:85`).

Met while modelling, and bounded away or stated under a condition:

- "Each stage writes immutable artifacts before ... advances" (`app/jobs/processing.py:72-74`). The
  snapshot is not immutable: a duplicate of its step that is late writes `vector.json` again
  (`processing.py:307`), with whatever is READY by then, after later stages have read it. The
  other artifacts are not about that snapshot any more, hence `rewritten` in `SameDocuments`. This
  takes no cancellation: a late or repeated parse of a website crawls again and overwrites
  `documents.json` (`processing.py:277`), and a snapshot that is late then gathers other documents
  than the first. An embedding or an upsert after it uses the new snapshot beside what is stored of
  the old one: kept embeddings need only be as many as the documents (`processing.py:323`), and
  records of places that the new crawl does not have stay in the index, while the lexical index is
  of one of the two. Readers of the two stores then find different texts of one source.
- The transition to READY is from INDEXING only (`metadata.py:601`), and publication makes it after
  the pointer has moved. A reindex of a FAILED source reaches publication all the same, and so does
  a job whose source was removed and created again by a late parse that died before its transition
  (REGISTERED, `processing.py:166`); there every retry raises (`processing.py:426`), and the job can neither complete nor be cancelled
  (`repository.py:128`). `PublicationEndsIfIndexing` excepts exactly these, and the removed ones.
- A source that is removed while its job is at work is registered again by a late parse
  (`processing.py:166`), and completes as READY although its documents were left out of the
  generation; `missed` in `ReadyIndexed` is exactly this.
- The removal looks at the newest 50 jobs only (`repository.py:99`), `ListLimit` here; as a workspace
  has one open job at a time, the newest, this loses nothing but jobs revived after cancellation.
- A complete job can be shown as "retrying" for ever: the same update by id.
- Audit: a comment says that the floor of the retention keeps the chain "continuous and verifiable"
  (`app/audit/__init__.py:38`). It does not. `purge_before` keeps no anchor: for an organization that
  recorded nothing for longer than the floor it deletes the whole chain (`:343`), and the next event is
  number 1 again, with nothing in `pruned_through` (`emptied` in `ContinuousUnlessEmptied`). A model
  without that exception fails in a few steps: record, wait, purge, record. The new chain verifies.
- Audit: nor is it always verifiable. An append that waits for the lock on the newest row it has seen,
  while another is recorded and a pass then deletes all rows but that other, finds no row and takes
  number 1; the table has numbers 1 and n, which `verify_chain` reports as broken (`stranded` in
  `ChainVerifies`). It needs a purge of everything the append saw within its wait. After either of
  these a boundary that a second pass has read may be the number of a later, recent event, which it
  deletes; `PurgeSparesRecent` is stated until then.
- `verify_chain` says that "any deleted row from the middle or end" fails
  (`app/audit/__init__.py:263`). Nothing in it knows where the chain ends, so the deletion of the
  newest rows goes unnoticed until another event follows; nothing in the program deletes them
  except a purge of everything.
- Local ingestion: of two requests that overlap, the later activation was built from an older list
  and leaves out what the other has just published, whose source stays READY (the exception
  "overtaken" of `ReadyIndexedLocally`). A removal during the ingestion of its source leaves files
  that a deployment without a database lists again (the exception of `RemovedUnseen`).
- Migration: "explicit and resumable" (`persistence/migration.py:1`). A command that dies between
  the creation of a row and its transition leaves a status every later command refuses (`cut` in
  `ResumesUnlessCut`); so does one that copies a source whose ingestion goes on (`early`). READY is one
  of the latter: ingestion saves it (`ingestion/service.py:118`) before it activates the generation
  (`:125`), and records FAILED if that fails (`:128`); a migration in between has copied READY, and
  `migration.py:191` refuses from then on. A FAILED source without documents makes every inventory
  fail, and so does a database. `verify` and `cutover` compare sets of sources and documents, not
  their statuses.
- Migration and removal: a removed source stays in the local generation that `CURRENT` names
  (`sources.py:370`), and a cutover publishes that generation. If the source was copied before it was
  removed, the target has a row more and every cutover is refused; if not, no command lists or compares
  it, and the published index holds its texts though neither side lists it. The same goes for a
  source that failed after it was built in. A source indexed by request before it was READY
  (`indexing.py:86` looks at no status of the one it is asked for) may become READY after the listing
  that passed it (`rebuilt`). `CutoverWhole` is therefore about sources that are READY locally when
  one looks.
- Organizations: owners are counted without a lock on their rows, so two owners can each remove or
  demote the other at once, against `LastOwnerError` (`raced` in `OwnerKept`). A member who was
  removed cannot be invited again, as the accepted invitation still says "already a member".
- Accounts: an organization can be left without its account, which the registration deletes when its
  second transaction raises (`routes.py:105`): `GET /auth/me` may have made the organization meanwhile,
  or that transaction did commit and the acknowledgement was lost (`untold` in `OrphansUntold`). A log
  in that had checked the old password when a reset came inserts its session after it and keeps it
  (`born` in `OpenSinceReset` is the password at the insertion).
- Queries: a comment says the inventory "also counts as registered"
  (`retrieval/query_service.py:56`), yet a source that only the inventory knows is answered 404
  when a query names it. Where the registry is in memory, a restart brings back the labels of
  `source.json` (`reverted` in `AnswersRightful`). On Pinecone a publication deletes the previous
  generation while queries that have chosen it are still to search it, which then find nothing (the
  exception of `IndexedFound`).
- Crawl: robots.txt is read for the address asked for, not for the one a redirect leads to. A malformed
  link, canonical URL or `Location` ends the whole crawl with a ValueError, from a page below the seed
  too (`website.py:286`, `:437`, `:128`), where any other failure of that page is listed. A duplicate is
  listed under the URL that answered or the canonical one (`:270`, `:275`): a link `/a` that redirects to
  `/`, which is indexed, makes the manifest list `/` as a failure and `/a` nowhere. `CrawlSound`
  therefore says how many failures are listed and not which.
- Rate limits: a request whose row is pruned between its two statements fails, and one so slow that
  its row was pruned before them starts a new count (`now <= Expiry(w)` in `CountIn`).

Where a property names its exception (`rewritten`, `missed`, `stranded`, `emptied`, `raced`, `untold`,
`overtaken`, `interrupted`, `erased`, `disturbed`, `cut`, `early`, `rebuilt`), the exception is the case in
which the code does not keep the promise. The run and its theorem then show that there is no other
case; the case itself is recorded here, and is not something that the run would find.

## 7. What is not modelled, and why

`PROJECT.json` gives the reason for each component. In short: parsing, provider clients,
logging, configuration, presentation and offline evaluation have no order to check; the scores of
retrievers are floating point and are chosen, not computed; generated SQL is checked by a library
and run elsewhere; the extraction of a graph by a model and the resolution of its entities are
computation on text. Within the modelled parts: a change of the embedding configuration between two
steps (`processing.py:134`), which comes with a new deployment; the artifacts of graph jobs, which
are stages in `Jobs`; partial upserts (each batch is verified before the checkpoint moves); read
paths of jobs (list, show); names, options and versions of sources; retention policies and the
counters of queries; hashes, JWTs and cookies; clocks that run backwards.

## 8. Plan

Every safety property of the runs is proved. What would say more, in this order:

1. An abstract specification of `LocalIndexing`: one active generation that two pointers follow.
   `Agreeing` is most of the refinement; `torn` has to become a state of the abstract one.
2. Abstract specifications of the other components where they would be shorter than the code: a
   log that only forgets its oldest part for `AuditChain`, a set of members with an owner for
   `Organizations`.
3. Graph jobs in `Publication`: extraction artifacts and the snapshot, with the same publication
   stage.
