---------------------------- MODULE LocalIndexing ----------------------------
(* Ingestion on the spot: the routes of src/app/api/routes/sources.py that store a source,   *)
(* build a generation of the retrieval indexes and move its pointers within one request      *)
(* (app/ingestion, app/retrieval/indexing.py), with the registry and the stores they write.  *)
(*                                                                                          *)
(* A deployment keeps sources and pointers in one of three ways:                             *)
(*   "local"     registry in memory, documents, FAISS and BM25 indexes in files, one CURRENT  *)
(*               file per index;                                                             *)
(*   "pinecone"  the same with the vectors in Pinecone, whose control record is the pointer;  *)
(*   "hosted"    PostgreSQL holds the registry, the operations and one pointer for both.      *)
(*                                                                                          *)
(* A request is a list of steps that are left; other requests, failures and a restart of the  *)
(* process come between any two of them.  A generation is a number, 0 is no generation.       *)
EXTENDS Naturals, FiniteSets, Sequences

CONSTANTS Sources, SourceKind, Requests, Nobody,
          Deployments,      \* those of the run
          MaxGenerations,   \* bound on the generations built
          MaxRestarts,      \* bound on restarts
          Fragile           \* steps that may fail of themselves

Kinds == {"pdf", "docx", "csv", "website", "database"}

\* The backends the settings choose, which decide how pointers move and what a restart loses.
Backends ==
  [local    |-> [metadata |-> "memory", vectors |-> "faiss"],
   pinecone |-> [metadata |-> "memory", vectors |-> "pinecone"],
   hosted   |-> [metadata |-> "postgresql", vectors |-> "pinecone"]]

ASSUME IndexingAssumption ==
  /\ SourceKind \in [Sources -> Kinds]
  /\ Nobody \notin Requests
  /\ Deployments \subseteq DOMAIN Backends
  /\ MaxGenerations \in Nat /\ MaxRestarts \in Nat

VARIABLES
  deployment,
  rows,        \* the registry: the status of each source, or "none"
  files,       \* the directory of each source: the status in source.json, and documents
  generation,  \* generations: the sources indexed, what is stored, and the operation
  pointer,     \* the active generation of each index
  made,        \* how many generations have been begun
  request,
  restarts,
  unused,      \* history: sources whose identifier has not been drawn yet
  removed,     \* history: sources that an administrator removed
  mishaps,     \* history: what befell the ingestion of each source
  alone,       \* history: the request whose activation no other one has overlapped
  torn         \* history: an activation was overlapped or cut, and none has run alone since

stores == <<rows, files, generation, pointer, made>>
histories == <<unused, removed, mishaps, alone, torn>>
indexVars == <<deployment, stores, request, restarts, histories>>

Statuses == {"REGISTERED", "INDEXING", "READY", "FAILED"}
Indexes == {"vector", "lexical"}
Generations == 1 .. MaxGenerations

NoGeneration == [sources |-> {}, vector |-> "none", lexical |-> "none", operation |-> "none",
                 prepared |-> {}]
Idle == [kind |-> "none", source |-> "none", left |-> <<>>, view |-> {}, gen |-> 0, previous |-> 0,
         control |-> 0]

-----------------------------------------------------------------------------
(* The steps of each kind of request *)

\* The registry and the generations survive the process, and a coordinator publishes.
Persistent == Backends[deployment].metadata = "postgresql"

PrepareSteps == <<"list", "load", "vector", "lexical">>

ActivateSteps ==
  IF Persistent THEN <<"publish">>
  ELSE <<"previous", "lexicalPointer">> \o
       (IF Backends[deployment].vectors = "faiss" THEN <<"vectorPointer">>
        ELSE <<"control", "vectorPointer", "cleanup">>)

PdfSteps == <<"start", "describe", "documents">> \o PrepareSteps \o <<"promise", "ready">>
DocxSteps == <<"start", "describe", "documents">> \o PrepareSteps \o <<"promise", "ready">>
CsvSteps == <<"start", "describe", "documents">> \o PrepareSteps \o <<"promise", "ready">>
WebsiteSteps ==
  <<"start", "describe", "crawl", "documents">> \o PrepareSteps \o <<"promise", "ready">>

\* Registration reads the schema of the database; it stores no documents and builds no index.
DatabaseSteps == <<"start", "ready">>

IngestSteps(kind) ==
  CASE kind = "pdf" -> PdfSteps \o ActivateSteps
    [] kind = "docx" -> DocxSteps \o ActivateSteps
    [] kind = "csv" -> CsvSteps \o ActivateSteps
    [] kind = "website" -> WebsiteSteps \o ActivateSteps
    [] kind = "database" -> DatabaseSteps

RecordSteps == <<"fail", "saveFailed">>

-----------------------------------------------------------------------------
IndexInit ==
  /\ deployment \in Deployments
  /\ rows = [s \in Sources |-> "none"]
  /\ files = [s \in Sources |-> [status |-> "none", documents |-> FALSE]]
  /\ generation = [g \in Generations |-> NoGeneration]
  /\ pointer = [x \in Indexes |-> 0]
  /\ made = 0
  /\ request = [r \in Requests |-> Idle]
  /\ restarts = 0
  /\ unused = Sources
  /\ removed = {}
  /\ mishaps = [s \in Sources |-> {}]
  /\ alone = Nobody
  /\ torn = FALSE

At(r, step) == request[r].left # <<>> /\ Head(request[r].left) = step
Advanced(r) == [request[r] EXCEPT !.left = Tail(@)]
Advance(r) == request' = [request EXCEPT ![r] = IF Len(@.left) > 1 THEN Advanced(r) ELSE Idle]

\* Ingestion of a document marks its source failed; registration and indexing just raise.
RecordsNot(r) == FALSE
Records(r) == request[r].kind = "ingest" /\ SourceKind[request[r].source] # "database"
AfterError(r) ==
  IF Records(r) THEN [Idle EXCEPT !.kind = "ingest", !.source = request[r].source, !.left = RecordSteps]
                ELSE Idle
Raise(r) == request' = [request EXCEPT ![r] = AfterError(r)]

AllowedTransitions(status) ==
  CASE status = "REGISTERED" -> {"INDEXING", "FAILED"}
    [] status = "INDEXING" -> {"READY", "FAILED"}
    [] status = "READY" -> {"FAILED"}
    [] status = "FAILED" -> {"INDEXING"}
    [] status = "none" -> {}

Transition(s, status) ==
  /\ status \in AllowedTransitions(rows[s])
  /\ rows' = [rows EXCEPT ![s] = status]

Exists(s) == rows[s] # "none"

Befalls(S, what) == mishaps' = [s \in Sources |-> IF s \in S THEN mishaps[s] \cup {what} ELSE mishaps[s]]
-----------------------------------------------------------------------------
(* Requests *)

InFlight(r) == request[r].kind # "none"
Ingesting(s) == \E r \in Requests : request[r].kind = "ingest" /\ request[r].source = s

Begins(r, kind, s, steps) ==
  /\ ~InFlight(r) /\ made < MaxGenerations
  /\ made' = made + 1
  /\ request' = [request EXCEPT ![r] =
       [Idle EXCEPT !.kind = kind, !.source = s, !.left = steps, !.gen = made + 1]]

\* A source is created with a fresh identifier.
Register(r, s) ==
  /\ s \in unused /\ unused' = unused \ {s}
  /\ rows' = [rows EXCEPT ![s] = "REGISTERED"]
  /\ Begins(r, "ingest", s, IngestSteps(SourceKind[s]))
  /\ UNCHANGED <<deployment, files, generation, pointer, restarts, removed, mishaps, alone, torn>>

AskIndex(r, s) ==
  /\ Exists(s)
  /\ Begins(r, "index", s, PrepareSteps \o ActivateSteps)
  /\ UNCHANGED <<deployment, rows, files, generation, pointer, restarts, histories>>

\* The row goes first.  A removal during an ingestion disturbs it.
Remove(r, s) ==
  /\ ~InFlight(r) /\ Exists(s)
  /\ rows' = [rows EXCEPT ![s] = "none"]
  /\ request' = [request EXCEPT ![r] = [Idle EXCEPT !.kind = "remove", !.source = s, !.left = <<"erase">>]]
  /\ removed' = removed \cup {s}
  /\ Befalls(IF Ingesting(s) THEN {s} ELSE {}, "disturbed")
  /\ UNCHANGED <<deployment, files, generation, pointer, made, restarts, unused, alone, torn>>

EmptiedDocuments(s) == [status |-> files[s].status, documents |-> FALSE]
Emptied(s) == [status |-> "none", documents |-> FALSE]

\* rmtree ignores errors and may leave files; so may a deletion of blobs that fails half way.
Erase(r) ==
  LET s == request[r].source IN
  /\ At(r, "erase")
  /\ \/ /\ files' = [files EXCEPT ![s] = Emptied(s)]
        /\ UNCHANGED mishaps
     \/ /\ "erase" \in Fragile
        /\ \/ files' = [files EXCEPT ![s].documents = FALSE]
           \/ UNCHANGED files
        /\ Befalls({s}, "disturbed")
  /\ Advance(r)
  /\ UNCHANGED <<deployment, rows, generation, pointer, made, restarts, unused, removed, alone, torn>>

-----------------------------------------------------------------------------
(* Storing the source *)

Start(r) ==
  /\ At(r, "start")
  /\ Transition(request[r].source, "INDEXING")
  /\ Advance(r)
  /\ UNCHANGED <<deployment, files, generation, pointer, made, restarts, histories>>

Describe(r) ==
  /\ At(r, "describe")
  /\ files' = [files EXCEPT ![request[r].source].status = "INDEXING"]
  /\ Advance(r)
  /\ UNCHANGED <<deployment, rows, generation, pointer, made, restarts, histories>>

\* The title of the first page becomes the name of the row.
Crawl(r) ==
  /\ At(r, "crawl") /\ Exists(request[r].source)
  /\ Advance(r)
  /\ UNCHANGED <<deployment, stores, restarts, histories>>

SaveDocuments(r) ==
  /\ At(r, "documents")
  /\ files' = [files EXCEPT ![request[r].source].documents = TRUE]
  /\ Advance(r)
  /\ UNCHANGED <<deployment, rows, generation, pointer, made, restarts, histories>>

\* The copy that says READY is saved before the row is.
Promise(r) ==
  /\ At(r, "promise")
  /\ files' = [files EXCEPT ![request[r].source].status = "READY"]
  /\ Advance(r)
  /\ UNCHANGED <<deployment, rows, generation, pointer, made, restarts, histories>>

\* A request that has read its sources, lacks s, and has still to move the pointer.
Lacks(q, s) ==
  /\ request[q].view # {} /\ s \notin request[q].view
  /\ \E i \in DOMAIN request[q].left : request[q].left[i] \in {"vectorPointer", "publish"}

BecomeReady(r) ==
  LET s == request[r].source IN
  /\ At(r, "ready")
  /\ Transition(s, "READY")
  /\ Advance(r)
  /\ Befalls(IF \E q \in Requests \ {r} : Lacks(q, s) THEN {s} ELSE {}, "overtaken")
  /\ UNCHANGED <<deployment, files, generation, pointer, made, restarts, unused, removed, alone, torn>>

RecordFailure(r) ==
  /\ At(r, "fail")
  /\ Transition(request[r].source, "FAILED")
  /\ Advance(r)
  /\ UNCHANGED <<deployment, files, generation, pointer, made, restarts, histories>>

SaveFailed(r) ==
  /\ At(r, "saveFailed")
  /\ files' = [files EXCEPT ![request[r].source].status = "FAILED"]
  /\ Advance(r)
  /\ UNCHANGED <<deployment, rows, generation, pointer, made, restarts, histories>>

-----------------------------------------------------------------------------
(* Building a generation *)

\* Without a durable registry the files say what there is, rows notwithstanding.
Listed(s) == Exists(s) \/ (~Persistent /\ files[s].status # "none")
IsReady(s) ==
  IF ~Persistent /\ files[s].status # "none" THEN files[s].status = "READY" ELSE rows[s] = "READY"

List(r) ==
  LET s == request[r].source IN
  /\ At(r, "list") /\ Exists(s)
  /\ request' = [request EXCEPT ![r] = [Advanced(r) EXCEPT !.view = {x \in Sources : IsReady(x)} \cup {s}]]
  /\ UNCHANGED <<deployment, stores, restarts, histories>>

Loadable(r) == \A s \in request[r].view : files[s].documents

Load(r) ==
  LET g == request[r].gen IN
  /\ At(r, "load") /\ Loadable(r)
  /\ generation' = [generation EXCEPT ![g].sources = request[r].view,
                                      ![g].operation = IF Persistent THEN "preparing" ELSE "none"]
  /\ Advance(r)
  /\ UNCHANGED <<deployment, rows, files, pointer, made, restarts, histories>>

MarkPreparedAs(g, store) == [generation[g] EXCEPT ![store] = "whole", !.operation = store]

MarkPrepared(g, store) ==
  IF Persistent
  THEN [generation[g] EXCEPT ![store] = "whole", !.prepared = @ \cup {store}, !.operation = "ready"]
  ELSE [generation[g] EXCEPT ![store] = "whole"]

Write(r, store) ==
  /\ At(r, store)
  /\ generation' = [generation EXCEPT ![request[r].gen] = MarkPrepared(request[r].gen, store)]
  /\ Advance(r)
  /\ UNCHANGED <<deployment, rows, files, pointer, made, restarts, histories>>

WriteVectors(r) == Write(r, "vector")
WriteLexical(r) == Write(r, "lexical")

\* A write that fails leaves what it had written.
WriteFails(r, store) ==
  /\ At(r, store) /\ store \in Fragile
  /\ generation' = [generation EXCEPT ![request[r].gen] =
       [@ EXCEPT ![store] = "part", !.operation = IF Persistent THEN "failed" ELSE "none"]]
  /\ Raise(r)
  /\ UNCHANGED <<deployment, rows, files, pointer, made, restarts, histories>>
VectorsFail(r) == WriteFails(r, "vector")
LexicalFails(r) == WriteFails(r, "lexical")

-----------------------------------------------------------------------------
(* Moving the pointers *)

Activating(r) ==
  request[r].left # <<>> /\ Head(request[r].left) \in
    {"lexicalPointer", "control", "vectorPointer", "recover", "restore"}

Ends(r) == IF alone = r THEN alone' = Nobody ELSE UNCHANGED alone
EndsWhole(r) == Ends(r) /\ torn' = (torn /\ alone # r)

\* The generation the lexical index had is remembered for a roll back.
ReadPrevious(r) ==
  LET others == \E q \in Requests \ {r} : Activating(q) IN
  /\ At(r, "previous")
  /\ request' = [request EXCEPT ![r] = [Advanced(r) EXCEPT !.previous = pointer["lexical"]]]
  /\ alone' = IF others THEN Nobody ELSE r
  /\ torn' = (torn \/ others)
  /\ UNCHANGED <<deployment, stores, restarts, unused, removed, mishaps>>

MoveLexical(r) ==
  /\ At(r, "lexicalPointer") /\ generation[request[r].gen].lexical # "none"
  /\ pointer' = [pointer EXCEPT !["lexical"] = request[r].gen]
  /\ Advance(r)
  /\ UNCHANGED <<deployment, rows, files, generation, made, restarts, histories>>

ReadControl(r) ==
  /\ At(r, "control") /\ generation[request[r].gen].vector # "none"
  /\ request' = [request EXCEPT ![r] = [Advanced(r) EXCEPT !.control = pointer["vector"]]]
  /\ UNCHANGED <<deployment, stores, restarts, histories>>

MoveVector(r) ==
  /\ At(r, "vectorPointer") /\ generation[request[r].gen].vector # "none"
  /\ pointer' = [pointer EXCEPT !["vector"] = request[r].gen]
  /\ Advance(r)
  /\ EndsWhole(r)
  /\ UNCHANGED <<deployment, rows, files, generation, made, restarts, unused, removed, mishaps>>

StaleAll(r) == Generations \ {0, request[r].gen}
Stale(r) == {request[r].control} \ {0, request[r].gen}

\* The records of the generation that was active are deleted, or stay if that fails.
CleanUp(r) ==
  /\ At(r, "cleanup")
  /\ \E deleted \in SUBSET Stale(r) :
       generation' = [g \in Generations |->
         IF g \in deleted THEN [generation[g] EXCEPT !.vector = "gone"] ELSE generation[g]]
  /\ Advance(r)
  /\ UNCHANGED <<deployment, rows, files, pointer, made, restarts, histories>>

\* The upsert of the control record may take effect although its answer is an error.
VectorFails(r) ==
  /\ \/ At(r, "control") /\ UNCHANGED pointer
     \/ At(r, "vectorPointer") /\ UNCHANGED pointer
     \/ At(r, "vectorPointer") /\ Backends[deployment].vectors = "pinecone"
        /\ pointer' = [pointer EXCEPT !["vector"] = request[r].gen]
  /\ "vectorPointer" \in Fragile
  /\ request' = [request EXCEPT ![r].left = <<"recover">>]
  /\ UNCHANGED <<deployment, rows, files, generation, made, restarts, histories>>

MovedNever(r) == FALSE
Moved(r) == pointer["vector"] = request[r].gen

\* The vectors moved after all: the request succeeds.
Recovered(r) ==
  /\ At(r, "recover") /\ Moved(r)
  /\ request' = [request EXCEPT ![r] = Idle]
  /\ EndsWhole(r)
  /\ UNCHANGED <<deployment, stores, restarts, unused, removed, mishaps>>

\* They did not, or nobody can tell: the lexical index goes back.
GoBack(r) ==
  /\ At(r, "recover") /\ (~Moved(r) \/ "recover" \in Fragile)
  /\ request' = [request EXCEPT ![r].left = <<"restore">>]
  /\ torn' = (torn \/ Moved(r))
  /\ UNCHANGED <<deployment, stores, restarts, unused, removed, mishaps, alone>>

RestoreLexical(r) ==
  /\ At(r, "restore")
  /\ \/ pointer' = [pointer EXCEPT !["lexical"] = request[r].previous] /\ UNCHANGED torn
     \/ "restore" \in Fragile /\ torn' = TRUE /\ UNCHANGED pointer
  /\ Raise(r)
  /\ Ends(r)
  /\ UNCHANGED <<deployment, rows, files, generation, made, restarts, unused, removed, mishaps>>

Required == {"vector", "lexical"}

\* Both stores are asked whether they hold the generation; then the coordinator publishes it.
PineconeHolds(g) == generation[g].vector = "whole"
BlobsHold(g) == generation[g].lexical = "whole"

Publishable(g) == PineconeHolds(g) /\ BlobsHold(g) /\ Required \subseteq generation[g].prepared

Publish(r) ==
  LET g == request[r].gen IN
  /\ At(r, "publish") /\ Publishable(g)
  /\ pointer' = [x \in Indexes |-> g]
  /\ \/ /\ generation' = [generation EXCEPT ![g].operation = "complete"]
        /\ Advance(r)
     \/ /\ "publish" \in Fragile
        /\ generation' = [generation EXCEPT ![g].operation = "failed"]
        /\ Raise(r)
  /\ UNCHANGED <<deployment, rows, files, made, restarts, histories>>

PublishFails(r) ==
  /\ At(r, "publish") /\ ("publish" \in Fragile \/ ~Publishable(request[r].gen))
  /\ generation' = [generation EXCEPT ![request[r].gen].operation = "failed"]
  /\ Raise(r)
  /\ UNCHANGED <<deployment, rows, files, pointer, made, restarts, histories>>

-----------------------------------------------------------------------------
(* Errors and restarts *)

Plain == {"start", "describe", "crawl", "documents", "list", "load", "promise", "ready",
          "previous", "lexicalPointer"}

\* A step whose row is gone or has another status, or whose documents are missing, raises.
Refused(r) ==
  LET s == request[r].source IN
  \/ At(r, "start") /\ "INDEXING" \notin AllowedTransitions(rows[s])
  \/ At(r, "ready") /\ "READY" \notin AllowedTransitions(rows[s])
  \/ (At(r, "crawl") \/ At(r, "list")) /\ ~Exists(s)
  \/ At(r, "load") /\ ~Loadable(r)

StepFails(r) ==
  /\ Refused(r) \/ \E step \in Plain \cap Fragile : At(r, step)
  /\ Raise(r)
  /\ Ends(r)
  /\ UNCHANGED <<deployment, stores, restarts, unused, removed, mishaps, torn>>

\* "Failure-state persistence failed": the status stays what it was.
RecordFails(r) ==
  /\ \/ At(r, "fail") /\ "FAILED" \notin AllowedTransitions(rows[request[r].source])
     \/ At(r, "fail") /\ Persistent /\ "fail" \in Fragile
     \/ At(r, "saveFailed") /\ "saveFailed" \in Fragile
  /\ request' = [request EXCEPT ![r] = Idle]
  /\ Befalls({request[r].source}, "interrupted")
  /\ UNCHANGED <<deployment, stores, restarts, unused, removed, alone, torn>>

\* The process ends with whatever it was doing; a registry in memory is lost.
Restart ==
  LET stopped(kind) == {request[r].source : r \in {q \in Requests : request[q].kind = kind}} IN
  /\ restarts < MaxRestarts
  /\ restarts' = restarts + 1
  /\ request' = [r \in Requests |-> Idle]
  /\ rows' = IF Persistent THEN rows ELSE [s \in Sources |-> "none"]
  /\ mishaps' = [s \in Sources |-> mishaps[s]
       \cup (IF s \in stopped("ingest") THEN {"interrupted"} ELSE {})
       \cup (IF s \in stopped("remove") THEN {"disturbed"} ELSE {})]
  /\ torn' = (torn \/ \E r \in Requests : Activating(r))
  /\ alone' = Nobody
  /\ UNCHANGED <<deployment, files, generation, pointer, made, unused, removed>>

RequestNext(r) ==
  \/ \E s \in Sources : Register(r, s) \/ AskIndex(r, s) \/ Remove(r, s)
  \/ Erase(r)
  \/ Start(r) \/ Describe(r) \/ Crawl(r) \/ SaveDocuments(r)
  \/ List(r) \/ Load(r)
  \/ WriteVectors(r) \/ VectorsFail(r) \/ WriteLexical(r) \/ LexicalFails(r)
  \/ Promise(r) \/ BecomeReady(r)
  \/ ReadPrevious(r) \/ MoveLexical(r) \/ ReadControl(r) \/ MoveVector(r) \/ CleanUp(r)
  \/ VectorFails(r) \/ Recovered(r) \/ GoBack(r) \/ RestoreLexical(r)
  \/ Publish(r) \/ PublishFails(r)
  \/ StepFails(r) \/ RecordFailure(r) \/ SaveFailed(r) \/ RecordFails(r)

IndexNext == (\E r \in Requests : RequestNext(r)) \/ Restart

IndexSpec == IndexInit /\ [][IndexNext]_indexVars
-----------------------------------------------------------------------------
(* Properties *)

StoreStates == {"none", "part", "whole", "gone"}
StepNames ==
  {"start", "describe", "crawl", "documents", "list", "load", "vector", "lexical", "promise", "ready",
   "fail", "saveFailed", "publish", "previous", "lexicalPointer", "control", "vectorPointer", "cleanup",
   "recover", "restore", "erase"}

\* Every variable keeps its type.
IndexTypeOK ==
  /\ deployment \in Deployments
  /\ rows \in [Sources -> Statuses \cup {"none"}]
  /\ files \in [Sources -> [status : Statuses \cup {"none"}, documents : BOOLEAN]]
  /\ generation \in [Generations -> [sources : SUBSET Sources, vector : StoreStates,
       lexical : StoreStates, operation : {"none", "preparing", "ready", "complete", "failed"},
       prepared : SUBSET Indexes]]
  /\ pointer \in [Indexes -> 0 .. MaxGenerations]
  /\ made \in 0 .. MaxGenerations
  /\ request \in [Requests -> [kind : {"none", "ingest", "index", "remove"},
       source : Sources \cup {"none"}, left : Seq(StepNames), view : SUBSET Sources,
       gen : 0 .. MaxGenerations, previous : 0 .. MaxGenerations, control : 0 .. MaxGenerations]]
  /\ restarts \in 0 .. MaxRestarts
  /\ unused \subseteq Sources /\ removed \subseteq Sources
  /\ mishaps \in [Sources -> SUBSET {"overtaken", "interrupted", "disturbed"}]
  /\ alone \in Requests \cup {Nobody} /\ torn \in BOOLEAN

\* A pointer names a generation that is whole: no failed write, no roll back and no clean up of
\* another request leaves readers with a generation that is partly written or deleted.
PointersWhole ==
  \A x \in Indexes : pointer[x] # 0 => generation[pointer[x]][x] = "whole"

\* The two pointers move one after the other, and one is rolled back when the other fails.  At
\* rest they name one generation, unless activations overlapped, one was cut by a restart, or
\* one could not tell how far it had come; the next activation that runs alone repairs that.
PointersAgree ==
  ~torn /\ (\A r \in Requests : ~Activating(r)) => pointer["vector"] = pointer["lexical"]

\* A source that says READY is in the active generation, unless another request, which had read
\* its sources before, moved the pointer after it, or its own failure could not be recorded.
ReadyIndexedLocally ==
  \A s \in Sources :
    /\ rows[s] = "READY" /\ SourceKind[s] # "database" /\ ~Ingesting(s)
    /\ mishaps[s] \cap {"overtaken", "interrupted"} = {}
    => pointer["vector"] # 0 /\ s \in generation[pointer["vector"]].sources

Erasing(s) == \E r \in Requests : request[r].kind = "remove" /\ request[r].source = s

\* Queries see the sources that are registered, and those in the files where the registry is in
\* memory.  A removed source is not seen again, unless the removal disturbed its ingestion or
\* left files, and never where the registry is durable.
RemovedUnseen ==
  \A s \in removed :
    Listed(s) => ~Persistent /\ ("disturbed" \in mishaps[s] \/ Erasing(s))

-----------------------------------------------------------------------------
(* What the code says of itself and does not keep *)

\* "Build from persisted ready sources plus the source being ingested": the ready sources a
\* request lists have documents to load, as long as nothing was removed and nothing failed.
ReadyLoads ==
  \A r \in Requests : At(r, "load") /\ removed = {} => Loadable(r)
=============================================================================
