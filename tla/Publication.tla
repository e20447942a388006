----------------------------- MODULE Publication -----------------------------
(***************************************************************************)
(* The provider work of a retrieval job on the hosted stores, and what it  *)
(* leaves behind when its requests are retried, duplicated, late or lost:  *)
(* the sources and their stored documents, the artifacts of the job, its   *)
(* vectors in Pinecone, its lexical blobs, and the generation pointer.     *)
(*                                                                         *)
(* The job table is that of Jobs, reduced: a request for the current step  *)
(* of an unfinished job may arrive at any moment, because runs are started *)
(* and repeated freely there; a retrieval checkpoint goes through every    *)
(* stage once, so the stage stands for the step.  The steps that crawl a   *)
(* website page by page are one step here, the steps that embed a snapshot *)
(* 32 documents at a time are one batch.  The sentence windows are written *)
(* and embedded by the same code as the documents they are cut from, and   *)
(* are not told apart from them.                                           *)
(***************************************************************************)
EXTENDS Naturals, FiniteSets

CONSTANTS
  JobIds,     \* jobs of one workspace; a job is also the name of its generation
  Sources,
  Kinds,      \* kinds of job: "upload" stands for pdf, docx and csv
  Editions,   \* what the parses of one source may find
  Length,     \* documents of an edition
  File,       \* the edition every parse of an uploaded file finds
  Failed,     \* sources with documents that a synchronous ingestion left FAILED
  Requests,   \* slots of step requests in flight (bound)
  Cancelled,  \* the jobs users may cancel
  Deletable,  \* the sources that are removed, by an administrator or by age
  ListLimit,  \* jobs a listing returns (50)
  None

ASSUME PublicationAssumption ==
  /\ Kinds \subseteq {"upload", "website", "reindex"}
  /\ Length \in [Editions -> Nat \ {0}]
  /\ File \in Editions
  /\ Failed \subseteq Sources
  /\ Cancelled \subseteq JobIds
  /\ Deletable \subseteq Sources
  /\ ListLimit \in Nat
  /\ IsFiniteSet(JobIds)
  /\ IsFiniteSet(Sources)
  /\ None \notin JobIds

VARIABLES
  spec,      \* rag_jobs.spec: kind and source
  created,   \* rag_jobs.created
  status,    \* rag_jobs.status; "open" is queued, running or retrying
  stage,     \* rag_jobs.checkpoint["stage"]
  holder,    \* rag_workspace_jobs
  source,    \* rag_sources.status
  stored,    \* documents.json of the sources in the blob store
  snapshot,  \* vector.json of a job
  embedded,  \* embeddings-*.json of a job: the documents they were computed from
  vectors,   \* documents of a generation in Pinecone
  lexical,   \* lexical blobs of a generation
  manifest,  \* generation record in Pinecone, with the hash of vector.json
  active,    \* rag_active_generations
  request,   \* step requests in flight
  deletion,  \* removals of a source in progress
  rewritten, \* history: jobs whose snapshot a late request replaced by a different one
  missed     \* history: sources whose job has gathered documents without them

jobVars == <<spec, created, status, stage, holder>>
storeVars == <<snapshot, embedded, vectors, lexical, manifest>>
sourceVars == <<source, stored, deletion>>
histories == <<rewritten, missed>>
vars == <<jobVars, sourceVars, storeVars, active, request, histories>>
-----------------------------------------------------------------------------
Ended == {"complete", "cancelled"}
Stages == {"parse", "snapshot", "embed", "lexical", "publish", "complete"}
After == [parse |-> "snapshot", snapshot |-> "embed", embed |-> "lexical",
          lexical |-> "publish", publish |-> "complete"]

JobSpecs == [kind : Kinds, source : Sources]

\* A document has an id, made from its source and its place there, and a text.
Documents == [source : Sources, place : Nat, edition : Editions]
Contents(s, e) == {[source |-> s, place |-> n, edition |-> e] : n \in 1..Length[e]}
Holds(docs, s) == \E d \in docs : d.source = s

Idle == [pc |-> "off", job |-> None, stage |-> "parse", docs |-> {}]
NoLexical == [docs |-> {}, whole |-> FALSE]

RequestType ==
  [pc : {"off", "begin", "index", "write", "rest", "verify", "point", "ready", "commit"},
   job : JobIds \cup {None}, stage : Stages, docs : SUBSET Documents]

\* Types of the rows, the blobs and the slots; a slot in use names a job.
TypeOK ==
  /\ spec \in [JobIds -> JobSpecs \cup {None}]
  /\ created \in [JobIds -> Nat]
  /\ status \in [JobIds -> {"absent", "open", "failed"} \cup Ended]
  /\ stage \in [JobIds -> Stages]
  /\ holder \in JobIds \cup {None}
  /\ source \in [Sources -> {"absent", "registered", "indexing", "ready", "failed"}]
  /\ stored \in SUBSET Documents
  /\ snapshot \in [JobIds -> SUBSET Documents]
  /\ embedded \in [JobIds -> SUBSET Documents]
  /\ vectors \in [JobIds -> SUBSET Documents]
  /\ lexical \in [JobIds -> [docs : SUBSET Documents, whole : BOOLEAN]]
  /\ manifest \in [JobIds -> SUBSET Documents]
  /\ active \in JobIds \cup {None}
  /\ request \in [Requests -> RequestType]
  /\ deletion \in [Sources -> {"none", "checked", "removed"}]
  /\ rewritten \in SUBSET JobIds
  /\ missed \in SUBSET Sources
  /\ \A q \in Requests : request[q].pc # "off" => request[q].job \in JobIds

Init ==
  /\ spec = [j \in JobIds |-> None]
  /\ created = [j \in JobIds |-> 0]
  /\ status = [j \in JobIds |-> "absent"]
  /\ stage = [j \in JobIds |-> "parse"]
  /\ holder = None
  /\ source = [s \in Sources |-> IF s \in Failed THEN "failed" ELSE "absent"]
  /\ stored = UNION {Contents(s, File) : s \in Failed}
  /\ snapshot = [j \in JobIds |-> {}]
  /\ embedded = [j \in JobIds |-> {}]
  /\ vectors = [j \in JobIds |-> {}]
  /\ lexical = [j \in JobIds |-> NoLexical]
  /\ manifest = [j \in JobIds |-> {}]
  /\ active = None
  /\ request = [q \in Requests |-> Idle]
  /\ deletion = [s \in Sources |-> "none"]
  /\ rewritten = {}
  /\ missed = {}
-----------------------------------------------------------------------------
(* The job table *)

Jobs == {j \in JobIds : status[j] # "absent"}

\* Mutants: a workspace takes several jobs at a time; a count that is one behind.
ReservableAlways == TRUE
NowBefore == Cardinality(Jobs) - 1

\* The workspace has no other active job.
Reservable == holder = None

\* int(time.time()), as the number of the job.
Now == Cardinality(Jobs)

\* An upload or a crawl is of a new source; a reindex names one.
Create(j, s) ==
  /\ status[j] = "absent"
  /\ Reservable
  /\ s.kind # "reindex" => s.source \notin Failed /\ \A k \in Jobs : spec[k].source # s.source
  /\ spec' = [spec EXCEPT ![j] = s]
  /\ created' = [created EXCEPT ![j] = Now]
  /\ status' = [status EXCEPT ![j] = "open"]
  /\ holder' = j
  /\ UNCHANGED <<stage, sourceVars, storeVars, active, request, histories>>

\* Mutant: cancel looks at the status of the job only.
CancellableAnyStage(j) == status[j] \notin {"absent", "complete"}

Cancellable(j) ==
  /\ status[j] \notin {"absent", "complete"}
  /\ stage[j] # "publish"

Cancel(j) ==
  /\ Cancellable(j)
  /\ status' = [status EXCEPT ![j] = "cancelled"]
  /\ holder' = IF holder = j THEN None ELSE holder
  /\ UNCHANGED <<spec, created, stage, sourceVars, storeVars, active, request, histories>>

\* A workflow run gives up on the job.
MarkFailed(j) ==
  /\ status[j] = "open"
  /\ status' = [status EXCEPT ![j] = "failed"]
  /\ UNCHANGED <<spec, created, stage, holder, sourceVars, storeVars, active, request, histories>>

\* A request for the current step arrives and reads the row.
Read(q, j) ==
  /\ request[q].pc = "off"
  /\ status[j] \notin Ended \cup {"absent"}
  /\ request' = [request EXCEPT ![q] = [pc |-> "begin", job |-> j, stage |-> stage[j], docs |-> {}]]
  /\ UNCHANGED <<jobVars, sourceVars, storeVars, active, histories>>

\* Mutant: the step of the row is not compared.
OvertakenIfEnded(q) == status[request[q].job] \in Ended

Overtaken(q) ==
  \/ stage[request[q].job] # request[q].stage
  \/ status[request[q].job] \in Ended

Commit(q) ==
  LET j == request[q].job IN
  /\ request[q].pc = "commit"
  /\ request' = [request EXCEPT ![q] = Idle]
  /\ IF Overtaken(q) THEN UNCHANGED <<stage, status, holder>>
     ELSE /\ stage' = [stage EXCEPT ![j] = After[stage[j]]]
          /\ status' = [status EXCEPT ![j] = IF stage'[j] = "complete" THEN "complete" ELSE "open"]
          /\ holder' = IF stage'[j] = "complete" /\ holder = j THEN None ELSE holder
  /\ UNCHANGED <<spec, created, sourceVars, storeVars, active, histories>>

\* A provider or a store fails at any point of the work, or a precondition below does
\* not hold: the row is set to "retrying" whatever it was.
Raise(q) ==
  /\ request[q].pc # "off"
  /\ status' = [status EXCEPT ![request[q].job] = "open"]
  /\ request' = [request EXCEPT ![q] = Idle]
  /\ UNCHANGED <<spec, created, stage, holder, sourceVars, storeVars, active, histories>>

\* The instance that serves the request dies.
Lose(q) ==
  /\ request[q].pc # "off"
  /\ request' = [request EXCEPT ![q] = Idle]
  /\ UNCHANGED <<jobVars, sourceVars, storeVars, active, histories>>
-----------------------------------------------------------------------------
(* The provider work of a stage, between the reads and writes of which others run *)

At(q, s, pc) == request[q].stage = s /\ request[q].pc = pc
Goto(q, pc) == request' = [request EXCEPT ![q].pc = pc]
Own(q) == spec[request[q].job].source

\* parse of a job with a new source: create it if it is not there.
CreateSource(q) ==
  /\ At(q, "parse", "begin")
  /\ spec[request[q].job].kind # "reindex"
  /\ source[Own(q)] = "absent"
  /\ source' = [source EXCEPT ![Own(q)] = "registered"]
  /\ Goto(q, "index")
  /\ UNCHANGED <<jobVars, stored, deletion, storeVars, active, histories>>

\* Then, in a transaction of its own, it becomes INDEXING; a READY source does not go back.
BeginIndexing(q) ==
  /\ At(q, "parse", "begin") \/ At(q, "parse", "index")
  /\ spec[request[q].job].kind # "reindex"
  /\ source[Own(q)] \in {"registered", "failed", "indexing"}
  /\ source' = [source EXCEPT ![Own(q)] = "indexing"]
  /\ Goto(q, "write")
  /\ UNCHANGED <<jobVars, stored, deletion, storeVars, active, histories>>

\* A file says the same whenever it is parsed; a website that is crawled again need not.
Parsed(q) == IF spec[request[q].job].kind = "website" THEN Editions ELSE {File}

\* documents.json is written over.  An update of the row (injection flags) fails when the
\* source is gone; saving its documents does not.
SaveDocuments(q) ==
  /\ At(q, "parse", "write")
  /\ \E e \in Parsed(q) :
       stored' = {d \in stored : d.source # Own(q)} \cup Contents(Own(q), e)
  /\ Goto(q, "commit")
  /\ UNCHANGED <<jobVars, source, deletion, storeVars, active, histories>>

\* parse of a reindexing job.
FindSource(q) ==
  /\ At(q, "parse", "begin")
  /\ spec[request[q].job].kind = "reindex"
  /\ source[Own(q)] # "absent"
  /\ Goto(q, "commit")
  /\ UNCHANGED <<jobVars, sourceVars, storeVars, active, histories>>

\* The sources a generation is built from: those that are READY, and that of the job.
Indexed(q) == {s \in Sources : \/ source[s] = "ready"
                               \/ s = Own(q) /\ source[s] # "absent"}

DocumentsOf(q) == {d \in stored : d.source \in Indexed(q)}

\* The documents of every one of them are read, as they are now.
Gather(q) ==
  /\ At(q, "snapshot", "begin")
  /\ Indexed(q) # {}
  /\ \A s \in Indexed(q) : Holds(stored, s)
  /\ request' = [request EXCEPT ![q].pc = "write", ![q].docs = DocumentsOf(q)]
  /\ missed' = IF Own(q) \in Indexed(q) THEN missed ELSE missed \cup {Own(q)}
  /\ UNCHANGED <<jobVars, sourceVars, storeVars, active, rewritten>>

\* The blob is written over, whatever stage the job has reached meanwhile.
Rewrites(q) ==
  LET j == request[q].job IN
  /\ stage[j] # "snapshot"
  /\ snapshot[j] # request[q].docs

WriteSnapshot(q) ==
  /\ At(q, "snapshot", "write")
  /\ snapshot' = [snapshot EXCEPT ![request[q].job] = request[q].docs]
  /\ Goto(q, "commit")
  /\ rewritten' = IF Rewrites(q) THEN rewritten \cup {request[q].job} ELSE rewritten
  /\ UNCHANGED <<jobVars, sourceVars, embedded, vectors, lexical, manifest, active, missed>>

\* Mutant: the documents are read again instead of the snapshot.
SnapshotOfNow(q) == DocumentsOf(q)

\* vector.json of the job, as it is now.
SnapshotOf(q) == snapshot[request[q].job]

\* embed and lexical begin by reading the snapshot.
Load(q) ==
  /\ At(q, "embed", "begin") \/ At(q, "lexical", "begin")
  /\ request' = [request EXCEPT ![q].pc = "write", ![q].docs = SnapshotOf(q)]
  /\ UNCHANGED <<jobVars, sourceVars, storeVars, active, histories>>

\* There are as many vectors as documents; nothing else is compared.
Fits(q) ==
  LET kept == embedded[request[q].job] IN
  kept # {} => Cardinality(kept) = Cardinality(request[q].docs)

\* The embeddings of a batch that are stored are used again.
Embed(q) ==
  LET j == request[q].job IN
  /\ At(q, "embed", "write")
  /\ Fits(q)
  /\ embedded' = IF embedded[j] = {} THEN [embedded EXCEPT ![j] = request[q].docs] ELSE embedded
  /\ Goto(q, "rest")
  /\ UNCHANGED <<jobVars, sourceVars, snapshot, vectors, lexical, manifest, active, histories>>

\* Records are upserted under the ids of the documents, and seen to be there.
Replace(old, new) ==
  {d \in old : \A n \in new : <<n.source, n.place>> # <<d.source, d.place>>} \cup new

Upsert(q) ==
  /\ At(q, "embed", "rest")
  /\ vectors' = [vectors EXCEPT ![request[q].job] = Replace(@, request[q].docs)]
  /\ Goto(q, "commit")
  /\ UNCHANGED <<jobVars, sourceVars, snapshot, embedded, lexical, manifest, active, histories>>

\* index.json first: a blob that exists must have the same content.
UploadIndex(q) ==
  /\ At(q, "lexical", "write")
  /\ lexical[request[q].job].docs \in {{}, request[q].docs}
  /\ lexical' = [lexical EXCEPT ![request[q].job].docs = request[q].docs]
  /\ Goto(q, "rest")
  /\ UNCHANGED <<jobVars, sourceVars, snapshot, embedded, vectors, manifest, active, histories>>

\* documents.json and, last, metadata.json.
UploadRest(q) ==
  /\ At(q, "lexical", "rest")
  /\ lexical' = [lexical EXCEPT ![request[q].job].whole = TRUE]
  /\ Goto(q, "commit")
  /\ UNCHANGED <<jobVars, sourceVars, snapshot, embedded, vectors, manifest, active, histories>>

\* publish: the generation record, with the hash of vector.json.
WriteManifest(q) ==
  /\ At(q, "publish", "begin")
  /\ manifest' = [manifest EXCEPT ![request[q].job] = SnapshotOf(q)]
  /\ Goto(q, "verify")
  /\ UNCHANGED <<jobVars, sourceVars, snapshot, embedded, vectors, lexical, active, histories>>

\* The lexical generation is loaded in full before it counts as activated.
VerifyLexical(q) ==
  /\ At(q, "publish", "verify")
  /\ lexical[request[q].job].whole
  /\ Goto(q, "point")
  /\ UNCHANGED <<jobVars, sourceVars, storeVars, active, histories>>

\* One transaction writes the pointer, whatever it points at.
PublishPointer(q) ==
  /\ At(q, "publish", "point")
  /\ active' = request[q].job
  /\ Goto(q, "ready")
  /\ UNCHANGED <<jobVars, sourceVars, storeVars, histories>>

\* The source of the job becomes READY, if it is there and INDEXING.
MakeReady(q) ==
  /\ At(q, "publish", "ready")
  /\ source[Own(q)] \in {"indexing", "ready"}
  /\ source' = [source EXCEPT ![Own(q)] = "ready"]
  /\ Goto(q, "commit")
  /\ UNCHANGED <<jobVars, stored, deletion, storeVars, active, histories>>
-----------------------------------------------------------------------------
(* DELETE /sources/{id}: two transactions and the blob store; and rag-retention apply *)

\* The newest jobs of the workspace.
Listed == {j \in Jobs : Cardinality({k \in Jobs : created[k] > created[j]}) < ListLimit}

\* No job that is listed is open.
CheckDeletion(s) ==
  /\ deletion[s] = "none"
  /\ source[s] # "absent"
  /\ \A j \in Listed : status[j] # "open"
  /\ deletion' = [deletion EXCEPT ![s] = "checked"]
  /\ UNCHANGED <<jobVars, source, stored, storeVars, active, request, histories>>

DeleteRow(s) ==
  /\ deletion[s] = "checked"
  /\ source[s] # "absent"
  /\ source' = [source EXCEPT ![s] = "absent"]
  /\ deletion' = [deletion EXCEPT ![s] = "removed"]
  /\ UNCHANGED <<jobVars, stored, storeVars, active, request, histories>>

DeleteStored(s) ==
  /\ deletion[s] = "removed"
  /\ stored' = {d \in stored : d.source # s}
  /\ deletion' = [deletion EXCEPT ![s] = "none"]
  /\ UNCHANGED <<jobVars, source, storeVars, active, request, histories>>

\* The retention pass removes a source that was not updated for long, which may be that of
\* a reindexing job; it looks at no jobs.
Expire(s) ==
  /\ deletion[s] # "removed"
  /\ source[s] # "absent"
  /\ source' = [source EXCEPT ![s] = "absent"]
  /\ deletion' = [deletion EXCEPT ![s] = "removed"]
  /\ UNCHANGED <<jobVars, stored, storeVars, active, request, histories>>

\* The blob store fails, which is logged, or the handler dies.
DeletionStops(s) ==
  /\ deletion[s] # "none"
  /\ deletion' = [deletion EXCEPT ![s] = "none"]
  /\ UNCHANGED <<jobVars, source, stored, storeVars, active, request, histories>>
-----------------------------------------------------------------------------
JobNext ==
  \E j \in JobIds :
    \/ \E s \in JobSpecs : Create(j, s)
    \/ j \in Cancelled /\ Cancel(j)
    \/ MarkFailed(j)
    \/ \E q \in Requests : Read(q, j)

Work(q) ==
  \/ CreateSource(q)
  \/ BeginIndexing(q)
  \/ SaveDocuments(q)
  \/ FindSource(q)
  \/ Gather(q)
  \/ WriteSnapshot(q)
  \/ Load(q)
  \/ Embed(q)
  \/ Upsert(q)
  \/ UploadIndex(q)
  \/ UploadRest(q)
  \/ WriteManifest(q)
  \/ VerifyLexical(q)
  \/ PublishPointer(q)
  \/ MakeReady(q)
  \/ Commit(q)

DeleteNext ==
  \E s \in Deletable :
    \/ CheckDeletion(s)
    \/ DeleteRow(s)
    \/ Expire(s)
    \/ DeleteStored(s)
    \/ DeletionStops(s)

Next ==
  \/ JobNext
  \/ \E q \in Requests : Work(q) \/ Raise(q) \/ Lose(q)
  \/ DeleteNext

Spec == Init /\ [][Next]_vars
-----------------------------------------------------------------------------
(* Properties *)

\* A generation is whole when readers can be pointed at it: its record names documents,
\* its vectors have been upserted and all its lexical blobs are there.
Whole(g) ==
  /\ manifest[g] # {}
  /\ vectors[g] # {}
  /\ lexical[g].whole

\* "publishes a single PostgreSQL generation pointer last": whatever is retried, late or
\* lost, the pointer only ever names generations that are whole, and they stay whole.
Readers == INSTANCE PublishedGeneration WITH
  Generations <- JobIds, prepared <- {g \in JobIds : Whole(g)}
PublishedWhole == Readers!Spec

\* The strengthening that makes the pointer safe: what a stage has to leave behind is there
\* once the job is past it, and once a request has done its part of it.
Gathered == {"embed", "lexical", "publish", "complete"}
Uploaded == {"lexical", "publish", "complete"}
Indexing == {"publish", "complete"}

StagesLeave ==
  \A j \in JobIds :
    /\ stage[j] \in Gathered => snapshot[j] # {}
    /\ stage[j] \in Uploaded => vectors[j] # {}
    /\ stage[j] \in Indexing => lexical[j].whole

Leaves(r) ==
  /\ r.stage \in Gathered => snapshot[r.job] # {}
  /\ r.stage \in Uploaded => vectors[r.job] # {}
  /\ r.stage \in Indexing => lexical[r.job].whole
  /\ r.stage \in {"snapshot", "embed", "lexical"} /\ r.pc \in {"write", "rest"} => r.docs # {}
  /\ r.stage = "publish" /\ r.pc # "begin" => manifest[r.job] # {}
  /\ r.stage = "complete" => r.pc = "begin"
  /\ r.pc = "commit" =>
       /\ r.stage = "snapshot" => snapshot[r.job] # {}
       /\ r.stage = "embed" => vectors[r.job] # {}
       /\ r.stage = "lexical" => lexical[r.job].whole

RequestsLeave == \A q \in Requests : request[q].pc # "off" => Leaves(request[q])

\* Jobs that have a row have a specification.
Created ==
  /\ \A j \in JobIds : status[j] # "absent" => spec[j] \in JobSpecs
  /\ \A q \in Requests : request[q].pc # "off" => spec[request[q].job] \in JobSpecs

Inv == TypeOK /\ Created /\ StagesLeave /\ RequestsLeave

\* A source is READY only if a whole generation was built from it: its own documents are in
\* the vectors and in the lexical index, unless a job of its gathered documents while it was
\* removed, and it has been registered again since.
ReadyIndexed ==
  \A s \in Sources :
    source[s] = "ready" /\ s \notin missed =>
      \E g \in JobIds : Whole(g) /\ Holds(vectors[g], s) /\ Holds(lexical[g].docs, s)

\* The embeddings, the vectors, the lexical index and the record of a generation that readers
\* may be pointed at are about the same documents, those of one snapshot, unless a late request
\* has replaced the snapshot by a different one.
SameDocuments ==
  \A g \in JobIds \ rewritten : Whole(g) =>
    /\ embedded[g] = lexical[g].docs
    /\ vectors[g] = lexical[g].docs
    /\ manifest[g] = lexical[g].docs
-----------------------------------------------------------------------------
(* Liveness *)

\* Requests end, at their timeout if not before; a job is resumed again and again, and
\* each step of a publication succeeds for some request if it is tried often enough.
\* Nothing is assumed of users who cancel or remove, of runs that give up, or of failures
\* between two tries.
Fairness ==
  /\ \A q \in Requests : WF_vars(Work(q) \/ Raise(q) \/ Lose(q))
  /\ \A j \in JobIds : SF_vars(\E q \in Requests : Read(q, j))
  /\ SF_vars(\E q \in Requests : WriteManifest(q))
  /\ SF_vars(\E q \in Requests : VerifyLexical(q))
  /\ SF_vars(\E q \in Requests : PublishPointer(q))
  /\ SF_vars(\E q \in Requests : MakeReady(q))
  /\ SF_vars(\E q \in Requests : request[q].stage = "publish" /\ Commit(q))

FairSpec == Spec /\ Fairness

\* A job that can no longer be cancelled finishes, unless its source is one that cannot
\* become READY: removed, left FAILED or only registered (again).
PublicationEndsIfIndexing ==
  \A j \in JobIds :
    stage[j] = "publish" ~>
      \/ stage[j] = "complete"
      \/ spec[j] # None /\ source[spec[j].source] \notin {"indexing", "ready"}
-----------------------------------------------------------------------------
(* What the code says of itself and does not keep *)

\* "A monotonic step-number fence makes duplicate deliveries harmless.": a job that has
\* completed moves the pointer no more.
DuplicatesHarmless ==
  [][\A j \in JobIds : status[j] = "complete" /\ active' = j => active = j]_vars

\* "Publication has begun; allow this job to finish.": the job does.
PublicationEnds == \A j \in JobIds : stage[j] = "publish" ~> stage[j] = "complete"
=============================================================================
