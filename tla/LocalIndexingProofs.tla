------------------------ MODULE LocalIndexingProofs ------------------------
(* Theorems about LocalIndexing, for any sources, requests, deployments and bounds, and for    *)
(* any choice of the steps that may fail.                                                      *)
EXTENDS LocalIndexing, SequenceTheorems, TLAPS

-----------------------------------------------------------------------------
(* What is left of a request *)

\* The step a request is at.
StepOf(r) == IF request[r].left = <<>> THEN "idle" ELSE Head(request[r].left)

\* Registration of a database takes two steps and builds nothing.
IsDatabase(r) == request[r].kind = "ingest" /\ SourceKind[request[r].source] = "database"
Indexing(r) == request[r].kind \in {"ingest", "index"} /\ ~IsDatabase(r)

Steps ==
  {"start", "describe", "crawl", "documents", "list", "load", "vector", "lexical", "promise", "ready",
   "fail", "saveFailed"} \cup
  (IF Persistent THEN {"publish"}
   ELSE {"previous", "lexicalPointer", "control", "vectorPointer", "cleanup", "recover", "restore"})

Follows(x, y) ==
  \/ x = "start" /\ y = "describe"
  \/ x = "describe" /\ y \in {"crawl", "documents"}
  \/ x = "crawl" /\ y = "documents"
  \/ x = "documents" /\ y = "list"
  \/ x = "list" /\ y = "load"
  \/ x = "load" /\ y = "vector"
  \/ x = "vector" /\ y = "lexical"
  \/ x = "lexical" /\ y \in {"promise", "previous", "publish"}
  \/ x = "promise" /\ y = "ready"
  \/ x = "ready" /\ y \in {"previous", "publish"}
  \/ x = "previous" /\ y = "lexicalPointer"
  \/ x = "lexicalPointer" /\ y \in {"control", "vectorPointer"}
  \/ x = "control" /\ y = "vectorPointer"
  \/ x = "vectorPointer" /\ y = "cleanup"
  \/ x = "fail" /\ y = "saveFailed"

Finals == {"publish", "vectorPointer", "cleanup", "recover", "restore", "saveFailed"}

\* A list of steps, each of which follows the one before, up to one that ends a request.
Program(L) ==
  /\ L \in Seq(Steps) /\ L # <<>>
  /\ \A i \in 1 .. Len(L) - 1 : Follows(L[i], L[i + 1])
  /\ L[Len(L)] \in Finals

\* The steps that only an ingestion takes, those after an error, and those that know the sources.
Failing == {"fail", "saveFailed"}
Storing == {"start", "describe", "crawl", "documents", "promise", "ready"} \cup Failing
Unread == {"start", "describe", "crawl", "documents", "list"} \cup Failing

Shape(r) ==
  /\ request[r].kind = "none" => request[r] = Idle
  /\ request[r].kind # "none" => request[r].left # <<>> /\ request[r].source \in Sources
  /\ request[r].kind = "remove" => request[r].left = <<"erase">> /\ request[r].gen = 0
  /\ IsDatabase(r) => request[r].left \in {<<"start", "ready">>, <<"ready">>}
  /\ Indexing(r) => Program(request[r].left)
  /\ ~Indexing(r) \/ StepOf(r) \in Unread => request[r].view = {}
  /\ ~Indexing(r) \/ StepOf(r) \in Failing => request[r].control = 0 /\ request[r].previous = 0
  /\ request[r].kind = "index" => \A i \in DOMAIN request[r].left : request[r].left[i] \notin Storing

Shapes == \A r \in Requests : Shape(r)

-----------------------------------------------------------------------------
(* Generations *)

VectorsThere ==
  {"lexical", "promise", "ready", "previous", "lexicalPointer", "control", "vectorPointer", "publish"}
LexicalThere ==
  {"promise", "ready", "previous", "lexicalPointer", "control", "vectorPointer", "cleanup", "recover",
   "restore", "publish"}
VectorsUnmoved == {"start", "describe", "crawl", "documents", "list", "load", "vector"} \cup VectorsThere
LexicalUnmoved == VectorsUnmoved \ {"control", "vectorPointer"}
Loaded == {"vector", "lexical", "promise", "ready", "previous", "lexicalPointer", "control",
           "vectorPointer", "cleanup", "recover", "restore", "publish"}

\* A generation is begun by one request, and nothing names one that has not been begun.
Numbered ==
  /\ \A r \in Requests :
       /\ request[r].gen <= made /\ request[r].previous <= made /\ request[r].control <= made
       /\ Indexing(r) => (StepOf(r) \in Failing <=> request[r].gen = 0)
  /\ \A r, q \in Requests : request[r].gen = request[q].gen /\ request[r].gen # 0 => r = q
  /\ \A x \in Indexes : pointer[x] <= made

\* What a request has written is there until its pointer moves, and nobody else names it before.
HasBuilt(r) ==
  LET g == request[r].gen IN
  /\ StepOf(r) \in VectorsThere => generation[g].vector = "whole"
  /\ StepOf(r) \in LexicalThere => generation[g].lexical = "whole"
  /\ StepOf(r) \in Loaded => generation[g].sources = request[r].view
  /\ StepOf(r) \in VectorsUnmoved => pointer["vector"] # g /\ \A q \in Requests : request[q].control # g
  /\ StepOf(r) \in LexicalUnmoved => pointer["lexical"] # g /\ \A q \in Requests : request[q].previous # g

\* What a request goes back to is whole, and what it deletes is not active.
Returns(r) ==
  /\ request[r].previous # 0 => generation[request[r].previous].lexical = "whole"
  /\ StepOf(r) = "cleanup" => request[r].control # pointer["vector"]

Building ==
  /\ Numbered
  /\ \A r \in Requests : Indexing(r) => HasBuilt(r)
  /\ \A r \in Requests : Returns(r)
  /\ PointersWhole

-----------------------------------------------------------------------------
(* Pointers *)

\* A request whose activation is alone is the only one that moves pointers.
Alone ==
  /\ alone # Nobody => Activating(alone)
  /\ alone # Nobody => \A q \in Requests \ {alone} : ~Activating(q)
  /\ ~torn => \A r \in Requests : Activating(r) => alone = r

\* How far its pointers are.
Halfway(r) ==
  LET step == StepOf(r) IN
  /\ step \in {"control", "vectorPointer", "recover"} => pointer["lexical"] = request[r].gen
  /\ ~torn =>
       /\ step = "lexicalPointer" => pointer["lexical"] = request[r].previous
       /\ step \in {"lexicalPointer", "control", "vectorPointer", "restore"} =>
            pointer["vector"] = request[r].previous
       /\ step = "recover" => pointer["vector"] \in {request[r].previous, request[r].gen}

Agreeing ==
  /\ Alone
  /\ \A r \in Requests : alone = r => Halfway(r)
  /\ PointersAgree

-----------------------------------------------------------------------------
(* Rows and files *)

\* A source is ingested once, and its row says how far.
Begun ==
  /\ \A s \in unused : rows[s] = "none" /\ ~Ingesting(s) /\ s \notin removed
  /\ \A r, q \in Requests :
       request[r].kind = "ingest" /\ request[q].kind = "ingest" /\ request[r].source = request[q].source
       => r = q

RowOf(r) ==
  LET s == request[r].source IN
  /\ StepOf(r) = "start" => rows[s] \in {"REGISTERED", "none"}
  /\ StepOf(r) \in {"describe", "crawl", "documents", "list", "load", "vector", "lexical", "promise", "ready"} =>
       rows[s] \in {"INDEXING", "none"}
  /\ StepOf(r) = "saveFailed" => rows[s] \in {"FAILED", "none"}
  /\ StepOf(r) = "ready" /\ ~IsDatabase(r) => files[s].status \in {"READY", "none"}

\* What is READY in the registry is READY in the files, if they are there.
FilesReady ==
  \A s \in Sources : rows[s] = "READY" /\ SourceKind[s] # "database" => files[s].status \in {"READY", "none"}

Registered ==
  /\ Begun
  /\ \A r \in Requests : request[r].kind = "ingest" => RowOf(r)
  /\ FilesReady

-----------------------------------------------------------------------------
(* Sources that are READY, and those that were removed *)

Clean(s) == mishaps[s] \cap {"overtaken", "interrupted"} = {}
Said(s) == rows[s] = "READY" /\ SourceKind[s] # "database" /\ Clean(s)
Pending(r) == \E i \in DOMAIN request[r].left : request[r].left[i] \in {"vectorPointer", "publish"}
Indexed(s) == pointer["vector"] # 0 /\ s \in generation[pointer["vector"]].sources

\* Where an ingestion that made its source READY has still to activate it, or to take it back.
Moving ==
  {"publish", "previous", "lexicalPointer", "control", "vectorPointer", "recover", "restore", "fail"}

Promised ==
  /\ \A r \in Requests : Indexing(r) /\ StepOf(r) \notin Unread => request[r].source \in request[r].view
  /\ \A s \in Sources : Said(s) =>
       \A r \in Requests : request[r].view # {} /\ Pending(r) => s \in request[r].view
  /\ \A s \in Sources : Said(s) =>
       \/ Indexed(s)
       \/ \E r \in Requests :
            request[r].kind = "ingest" /\ request[r].source = s /\ StepOf(r) \in Moving

Gone ==
  \A s \in removed :
    /\ rows[s] = "none"
    /\ "disturbed" \notin mishaps[s] => ~Ingesting(s)
    /\ "disturbed" \notin mishaps[s] /\ ~Erasing(s) => files[s].status = "none"

-----------------------------------------------------------------------------
(* Lists of steps *)

Chained(L) ==
  /\ L \in Seq(Steps) /\ L # <<>>
  /\ \A i \in 1 .. Len(L) - 1 : Follows(L[i], L[i + 1])

LEMMA Join ==
  ASSUME NEW A, NEW B, Chained(A), Chained(B), Follows(A[Len(A)], B[1])
  PROVE  Chained(A \o B) /\ (A \o B)[Len(A \o B)] = B[Len(B)] /\ (A \o B)[1] = A[1]
<1> DEFINE C == A \o B
<1>1. /\ A \in Seq(Steps) /\ B \in Seq(Steps)
      /\ Len(A) \in Nat \ {0} /\ Len(B) \in Nat \ {0}
  BY EmptySeq, LenProperties DEF Chained
<1>2. /\ C \in Seq(Steps) /\ Len(C) = Len(A) + Len(B)
      /\ \A i \in 1 .. Len(C) : C[i] = IF i <= Len(A) THEN A[i] ELSE B[i - Len(A)]
  BY <1>1, ConcatProperties
<1> HIDE DEF C
<1>3. C # <<>>
  BY <1>1, <1>2
<1>4. ASSUME NEW i \in 1 .. Len(C) - 1
      PROVE  Follows(C[i], C[i + 1])
  <2>1. CASE i < Len(A)
    <3>1. C[i] = A[i] /\ C[i + 1] = A[i + 1] /\ i \in 1 .. Len(A) - 1
      BY <1>1, <1>2, <2>1
    <3> QED
      BY <3>1 DEF Chained
  <2>2. CASE i = Len(A)
    <3>1. C[i] = A[Len(A)] /\ C[i + 1] = B[1]
      BY <1>1, <1>2, <2>2
    <3> QED
      BY <3>1
  <2>3. CASE i > Len(A)
    <3>1. /\ C[i] = B[i - Len(A)] /\ C[i + 1] = B[(i - Len(A)) + 1]
          /\ i - Len(A) \in 1 .. Len(B) - 1
      BY <1>1, <1>2, <2>3
    <3> QED
      BY <3>1 DEF Chained
  <2> QED
    BY <1>1, <1>2, <2>1, <2>2, <2>3
<1>5. C[Len(C)] = B[Len(B)] /\ C[1] = A[1]
  BY <1>1, <1>2
<1> QED
  BY <1>2, <1>3, <1>4, <1>5 DEF Chained, C

LEMMA PrepareChain == Chained(PrepareSteps) /\ PrepareSteps[1] = "list" /\ PrepareSteps[Len(PrepareSteps)] = "lexical"
  BY DEF Chained, PrepareSteps, Steps, Follows

LEMMA ActivateChain ==
  /\ Chained(ActivateSteps)
  /\ ActivateSteps[1] \in {"previous", "publish"}
  /\ ActivateSteps[Len(ActivateSteps)] \in Finals
<1>1. CASE Persistent
  <2>1. ActivateSteps = <<"publish">>
    BY <1>1 DEF ActivateSteps
  <2> QED
    BY <1>1, <2>1 DEF Chained, Steps, Follows, Finals
<1>2. CASE ~Persistent
  <2> DEFINE A == <<"previous", "lexicalPointer">>
             B == <<"vectorPointer">>
             C == <<"control", "vectorPointer", "cleanup">>
  <2>1. Chained(A) /\ A[1] = "previous" /\ A[Len(A)] = "lexicalPointer"
    BY <1>2 DEF Chained, Steps, Follows
  <2>2. Chained(B) /\ B[1] = "vectorPointer" /\ B[Len(B)] = "vectorPointer"
    BY <1>2 DEF Chained, Steps, Follows
  <2>3. Chained(C) /\ C[1] = "control" /\ C[Len(C)] = "cleanup"
    BY <1>2 DEF Chained, Steps, Follows
  <2>4. ActivateSteps = A \o B \/ ActivateSteps = A \o C
    BY <1>2 DEF ActivateSteps
  <2> HIDE DEF A, B, C
  <2>5. Follows(A[Len(A)], B[1]) /\ Follows(A[Len(A)], C[1])
    BY <2>1, <2>2, <2>3 DEF Follows
  <2>6. Chained(A \o B) /\ (A \o B)[1] = "previous" /\ (A \o B)[Len(A \o B)] = "vectorPointer"
    BY <2>1, <2>2, <2>5, Join
  <2>7. Chained(A \o C) /\ (A \o C)[1] = "previous" /\ (A \o C)[Len(A \o C)] = "cleanup"
    BY <2>1, <2>3, <2>5, Join
  <2> QED
    BY <2>4, <2>6, <2>7 DEF Finals
<1> QED
  BY <1>1, <1>2

\* A request to index, and an ingestion of anything but a database, run a program.
LEMMA IndexProgram == Program(PrepareSteps \o ActivateSteps) /\ (PrepareSteps \o ActivateSteps)[1] = "list"
<1>1. Follows(PrepareSteps[Len(PrepareSteps)], ActivateSteps[1])
  BY PrepareChain, ActivateChain DEF Follows
<1> QED
  BY <1>1, PrepareChain, ActivateChain, Join DEF Program, Chained

LEMMA StoreChain ==
  ASSUME NEW A, Chained(A), A[1] = "start", A[Len(A)] = "documents"
  PROVE  LET L == ((A \o PrepareSteps) \o <<"promise", "ready">>) \o ActivateSteps
         IN  Program(L) /\ L[1] = "start"
<1> DEFINE B == A \o PrepareSteps
           D == <<"promise", "ready">>
           C == B \o D
<1>1. Follows(A[Len(A)], PrepareSteps[1])
  BY PrepareChain DEF Follows
<1>2. Chained(B) /\ B[1] = "start" /\ B[Len(B)] = "lexical"
  BY <1>1, PrepareChain, Join
<1>3. Chained(D) /\ D[1] = "promise" /\ D[Len(D)] = "ready"
  BY DEF Chained, Steps, Follows
<1> HIDE DEF B, D
<1>4. Follows(B[Len(B)], D[1])
  BY <1>2, <1>3 DEF Follows
<1>5. Chained(C) /\ C[1] = "start" /\ C[Len(C)] = "ready"
  BY <1>2, <1>3, <1>4, Join
<1> HIDE DEF C
<1>6. Follows(C[Len(C)], ActivateSteps[1])
  BY <1>5, ActivateChain DEF Follows
<1>7. Chained(C \o ActivateSteps) /\ (C \o ActivateSteps)[1] = "start"
      /\ (C \o ActivateSteps)[Len(C \o ActivateSteps)] = ActivateSteps[Len(ActivateSteps)]
  BY <1>5, <1>6, ActivateChain, Join
<1>8. Program(C \o ActivateSteps)
  BY <1>7, ActivateChain DEF Program, Chained
<1> QED
  BY <1>7, <1>8 DEF B, C, D

LEMMA IngestProgram ==
  ASSUME NEW kind \in Kinds \ {"database"}
  PROVE  Program(IngestSteps(kind)) /\ IngestSteps(kind)[1] = "start"
<1> DEFINE A == <<"start", "describe", "documents">>
           W == <<"start", "describe", "crawl", "documents">>
<1>1. Chained(A) /\ A[1] = "start" /\ A[Len(A)] = "documents"
  BY DEF Chained, Steps, Follows
<1>2. Chained(W) /\ W[1] = "start" /\ W[Len(W)] = "documents"
  BY DEF Chained, Steps, Follows
<1>3. IngestSteps(kind) \in {((A \o PrepareSteps) \o <<"promise", "ready">>) \o ActivateSteps,
                           ((W \o PrepareSteps) \o <<"promise", "ready">>) \o ActivateSteps}
  BY DEF IngestSteps, Kinds, PdfSteps, DocxSteps, CsvSteps, WebsiteSteps
<1> HIDE DEF A, W
<1> QED
  BY <1>1, <1>2, <1>3, StoreChain

\* What is left of a program is a program.
LEMMA Onward ==
  ASSUME NEW L, Program(L)
  PROVE  /\ Head(L) = L[1] /\ Head(L) \in Steps
         /\ Len(L) \in Nat \ {0} /\ DOMAIN L = 1 .. Len(L)
         /\ Len(L) <= 1 => Head(L) \in Finals
         /\ Len(L) > 1 => Program(Tail(L)) /\ Follows(Head(L), Head(Tail(L)))
         /\ \A i \in DOMAIN Tail(L) : i + 1 \in DOMAIN L /\ Tail(L)[i] = L[i + 1]
<1>1. L \in Seq(Steps) /\ Len(L) \in Nat \ {0} /\ DOMAIN L = 1 .. Len(L)
  BY EmptySeq, LenProperties DEF Program
<1>2. Head(L) = L[1] /\ L[1] \in Steps
  BY <1>1
<1>3. Tail(L) \in Seq(Steps) /\ Len(Tail(L)) = Len(L) - 1 /\ \A i \in 1 .. Len(L) - 1 : Tail(L)[i] = L[i + 1]
  BY <1>1, HeadTailProperties DEF Program
<1>4. DOMAIN Tail(L) = 1 .. Len(L) - 1
  BY <1>3, LenProperties
<1>5. Len(L) <= 1 => Head(L) \in Finals
  BY <1>1, <1>2 DEF Program
<1>6. ASSUME Len(L) > 1
      PROVE  Program(Tail(L)) /\ Follows(Head(L), Head(Tail(L)))
  <2>1. Tail(L) # <<>> /\ Head(Tail(L)) = L[2]
    BY <1>1, <1>3, <1>6
  <2>2. \A i \in 1 .. Len(Tail(L)) - 1 : Follows(Tail(L)[i], Tail(L)[i + 1])
    <3>1. TAKE i \in 1 .. Len(Tail(L)) - 1
    <3>2. i \in 1 .. Len(L) - 1 /\ i + 1 \in 1 .. Len(L) - 1
      BY <1>1, <1>3, <3>1
    <3>3. Tail(L)[i] = L[i + 1] /\ Tail(L)[i + 1] = L[(i + 1) + 1]
      BY <1>3, <3>2
    <3> QED
      BY <3>2, <3>3 DEF Program
  <2>3. Tail(L)[Len(Tail(L))] = L[Len(L)]
    BY <1>1, <1>3, <1>6
  <2>4. Follows(L[1], L[2])
    <3>1. 1 \in 1 .. Len(L) - 1
      BY <1>1, <1>6
    <3> QED
      BY <3>1 DEF Program
  <2> QED
    BY <1>2, <1>3, <2>1, <2>2, <2>3, <2>4 DEF Program
<1>7. \A i \in DOMAIN Tail(L) : i + 1 \in DOMAIN L /\ Tail(L)[i] = L[i + 1]
  BY <1>1, <1>3, <1>4
<1> QED
  BY <1>1, <1>2, <1>5, <1>6, <1>7

-----------------------------------------------------------------------------
(* Types *)

RequestRecord ==
  [kind : {"none", "ingest", "index", "remove"}, source : Sources \cup {"none"}, left : Seq(StepNames),
   view : SUBSET Sources, gen : 0 .. MaxGenerations, previous : 0 .. MaxGenerations,
   control : 0 .. MaxGenerations]

LEMMA IdleType == Idle \in RequestRecord
  BY EmptySeq, IndexingAssumption DEF Idle, RequestRecord

LEMMA StepsAreNamed == \A L \in Seq(Steps) : L \in Seq(StepNames)
<1> TAKE L \in Seq(Steps)
<1>1. Len(L) \in Nat /\ L \in [1 .. Len(L) -> Steps] /\ Steps \subseteq StepNames
  BY LenProperties DEF Steps, StepNames
<1>2. L \in [1 .. Len(L) -> StepNames]
  BY <1>1
<1> QED
  BY <1>1, <1>2

LEMMA AtLeft ==
  ASSUME IndexTypeOK, NEW r \in Requests, NEW x, At(r, x)
  PROVE  /\ request[r] \in RequestRecord /\ request[r].left # <<>> /\ StepOf(r) = x
         /\ Tail(request[r].left) \in Seq(StepNames)
<1>1. request[r] \in RequestRecord
  BY DEF IndexTypeOK, RequestRecord
<1>2. request[r].left \in Seq(StepNames) /\ request[r].left # <<>>
  BY <1>1 DEF At, RequestRecord
<1>3. Tail(request[r].left) \in Seq(StepNames)
  BY <1>2, HeadTailProperties
<1> QED
  BY <1>1, <1>2, <1>3 DEF At, StepOf

LEMMA AdvanceType ==
  ASSUME IndexTypeOK, NEW r \in Requests, NEW x, At(r, x), Advance(r)
  PROVE  request' \in [Requests -> RequestRecord]
<1>1. request[r] \in RequestRecord /\ Tail(request[r].left) \in Seq(StepNames)
  BY AtLeft
<1>2. Advanced(r) \in RequestRecord
  BY <1>1 DEF Advanced, RequestRecord
<1>3. request \in [Requests -> RequestRecord]
  BY DEF IndexTypeOK, RequestRecord
<1> QED
  BY <1>2, <1>3, IdleType DEF Advance

LEMMA AfterErrorType ==
  ASSUME IndexTypeOK, NEW r \in Requests
  PROVE  AfterError(r) \in RequestRecord
<1>1. Idle.left \in Seq(StepNames) /\ RecordSteps \in Seq(StepNames)
  BY DEF Idle, RecordSteps, StepNames
<1>2. request[r].source \in Sources \cup {"none"}
  BY DEF IndexTypeOK
<1>3. [Idle EXCEPT !.kind = "ingest", !.source = request[r].source, !.left = RecordSteps] \in RequestRecord
  BY <1>1, <1>2, IdleType DEF Idle, RequestRecord
<1> QED
  BY <1>3, IdleType DEF AfterError

LEMMA RaiseType ==
  ASSUME IndexTypeOK, NEW r \in Requests, Raise(r)
  PROVE  request' \in [Requests -> RequestRecord]
<1>1. request \in [Requests -> RequestRecord]
  BY DEF IndexTypeOK, RequestRecord
<1> QED
  BY <1>1, AfterErrorType DEF Raise

LEMMA BeginsType ==
  ASSUME IndexTypeOK, NEW r \in Requests, NEW s \in Sources, NEW kind \in {"ingest", "index"},
         NEW L \in Seq(StepNames), Begins(r, kind, s, L)
  PROVE  request' \in [Requests -> RequestRecord] /\ made' \in 0 .. MaxGenerations
<1>1. request \in [Requests -> RequestRecord] /\ made \in 0 .. MaxGenerations /\ MaxGenerations \in Nat
  BY IndexingAssumption DEF IndexTypeOK, RequestRecord
<1>2. made + 1 \in 0 .. MaxGenerations
  BY <1>1 DEF Begins
<1>3. [Idle EXCEPT !.kind = kind, !.source = s, !.left = L, !.gen = made + 1] \in RequestRecord
  BY <1>2, IdleType DEF Idle, RequestRecord
<1> QED
  BY <1>1, <1>2, <1>3 DEF Begins

\* The lists that a request may begin with.
LEMMA StepLists ==
  /\ PrepareSteps \o ActivateSteps \in Seq(StepNames)
  /\ \A s \in Sources : IngestSteps(SourceKind[s]) \in Seq(StepNames)
<1>1. PrepareSteps \o ActivateSteps \in Seq(StepNames)
  BY IndexProgram, StepsAreNamed DEF Program
<1>2. ASSUME NEW s \in Sources
      PROVE  IngestSteps(SourceKind[s]) \in Seq(StepNames)
  <2>1. CASE SourceKind[s] = "database"
    BY <2>1 DEF IngestSteps, DatabaseSteps, StepNames
  <2>2. CASE SourceKind[s] # "database"
    BY <2>2, IngestProgram, StepsAreNamed, IndexingAssumption DEF Program
  <2> QED
    BY <2>1, <2>2
<1> QED
  BY <1>1, <1>2

\* The rest of the variables keep their types.
GenerationRecord ==
  [sources : SUBSET Sources, vector : StoreStates, lexical : StoreStates,
   operation : {"none", "preparing", "ready", "complete", "failed"}, prepared : SUBSET Indexes]

FileRecord == [status : Statuses \cup {"none"}, documents : BOOLEAN]

StoresTyped ==
  /\ rows \in [Sources -> Statuses \cup {"none"}]
  /\ files \in [Sources -> FileRecord]
  /\ generation \in [Generations -> GenerationRecord]
  /\ pointer \in [Indexes -> 0 .. MaxGenerations]

HistoriesTyped ==
  /\ unused \subseteq Sources /\ removed \subseteq Sources
  /\ mishaps \in [Sources -> SUBSET {"overtaken", "interrupted", "disturbed"}]
  /\ alone \in Requests \cup {Nobody} /\ torn \in BOOLEAN

LEMMA TypesTogether ==
  ASSUME deployment \in Deployments, StoresTyped, HistoriesTyped, made \in 0 .. MaxGenerations,
         request \in [Requests -> RequestRecord], restarts \in 0 .. MaxRestarts
  PROVE  IndexTypeOK
  BY DEF IndexTypeOK, StoresTyped, HistoriesTyped, RequestRecord, GenerationRecord, FileRecord

LEMMA TypesApart ==
  ASSUME IndexTypeOK
  PROVE  /\ deployment \in Deployments /\ StoresTyped /\ HistoriesTyped /\ made \in 0 .. MaxGenerations
         /\ request \in [Requests -> RequestRecord] /\ restarts \in 0 .. MaxRestarts
  BY DEF IndexTypeOK, StoresTyped, HistoriesTyped, RequestRecord, GenerationRecord, FileRecord

LEMMA RequestTypes ==
  ASSUME IndexTypeOK, NEW r \in Requests, Shape(r), RequestNext(r)
  PROVE  request' \in [Requests -> RequestRecord] /\ made' \in 0 .. MaxGenerations
<1> USE TypesApart
<1>1. ASSUME NEW s \in Sources, Register(r, s) \/ AskIndex(r, s)
      PROVE  request' \in [Requests -> RequestRecord] /\ made' \in 0 .. MaxGenerations
  BY <1>1, BeginsType, StepLists DEF Register, AskIndex
<1>2. ASSUME NEW s \in Sources, Remove(r, s)
      PROVE  request' \in [Requests -> RequestRecord] /\ made' \in 0 .. MaxGenerations
  <2>1. <<"erase">> \in Seq(StepNames)
    BY DEF StepNames
  <2>2. [Idle EXCEPT !.kind = "remove", !.source = s, !.left = <<"erase">>] \in RequestRecord
    BY <2>1, IdleType DEF Idle, RequestRecord
  <2> QED
    BY <1>2, <2>2 DEF Remove
<1>3. CASE \E x \in StepNames : At(r, x) /\ Advance(r) /\ made' = made
  BY <1>3, AdvanceType
<1>4. CASE Raise(r) /\ made' = made
  BY <1>4, RaiseType
<1>5. CASE request' = [request EXCEPT ![r] = Idle] /\ made' = made
  BY <1>5, IdleType
<1>6. ASSUME NEW x \in {"recover", "restore"}, request' = [request EXCEPT ![r].left = <<x>>], made' = made
      PROVE  request' \in [Requests -> RequestRecord] /\ made' \in 0 .. MaxGenerations
  <2>1. <<x>> \in Seq(StepNames)
    BY DEF StepNames
  <2>2. [request[r] EXCEPT !.left = <<x>>] \in RequestRecord
    BY <2>1 DEF RequestRecord
  <2> QED
    BY <1>6, <2>2
<1>7. CASE List(r) \/ ReadPrevious(r) \/ ReadControl(r)
  <2>1. Tail(request[r].left) \in Seq(StepNames) /\ request[r].source \in Sources \cup {"none"}
    BY <1>7, AtLeft DEF List, ReadPrevious, ReadControl, RequestRecord
  <2>2. Advanced(r) \in RequestRecord
    BY <2>1 DEF Advanced, RequestRecord
  <2>3. pointer["lexical"] \in 0 .. MaxGenerations /\ pointer["vector"] \in 0 .. MaxGenerations
    BY DEF StoresTyped, Indexes
  <2>4. CASE List(r)
    <3> DEFINE V == {x \in Sources : IsReady(x)} \cup {request[r].source}
    <3>1. request[r].source \in Sources
      BY <2>1, <2>4 DEF List, At, Shape, Idle
    <3>2. [Advanced(r) EXCEPT !.view = V] \in RequestRecord
      BY <2>2, <3>1 DEF RequestRecord
    <3> QED
      BY <2>4, <3>2 DEF List, stores
  <2>5. CASE ReadPrevious(r)
    <3>1. [Advanced(r) EXCEPT !.previous = pointer["lexical"]] \in RequestRecord
      BY <2>2, <2>3 DEF RequestRecord
    <3> QED
      BY <2>5, <3>1 DEF ReadPrevious, stores
  <2>6. CASE ReadControl(r)
    <3>1. [Advanced(r) EXCEPT !.control = pointer["vector"]] \in RequestRecord
      BY <2>2, <2>3 DEF RequestRecord
    <3> QED
      BY <2>6, <3>1 DEF ReadControl, stores
  <2> QED
    BY <1>7, <2>4, <2>5, <2>6
<1>8. CASE Erase(r) \/ Start(r) \/ Describe(r) \/ Crawl(r) \/ SaveDocuments(r) \/ Load(r)
           \/ WriteVectors(r) \/ WriteLexical(r) \/ Promise(r) \/ BecomeReady(r)
  BY <1>3, <1>8 DEF Erase, Start, Describe, Crawl, SaveDocuments, Load, WriteVectors, WriteLexical, Write,
     Promise, BecomeReady, stores, StepNames
<1>9. CASE MoveLexical(r) \/ MoveVector(r) \/ CleanUp(r) \/ RecordFailure(r) \/ SaveFailed(r)
  BY <1>3, <1>9 DEF MoveLexical, MoveVector, CleanUp, RecordFailure, SaveFailed, StepNames
<1>10. CASE Publish(r)
  BY <1>3, <1>4, <1>10 DEF Publish, StepNames
<1>11. CASE VectorsFail(r) \/ LexicalFails(r) \/ RestoreLexical(r) \/ PublishFails(r) \/ StepFails(r)
  BY <1>4, <1>11 DEF VectorsFail, LexicalFails, WriteFails, RestoreLexical, PublishFails, StepFails, stores
<1>12. CASE VectorFails(r) \/ GoBack(r)
  BY <1>6, <1>12 DEF VectorFails, GoBack, stores
<1>13. CASE Recovered(r) \/ RecordFails(r)
  BY <1>5, <1>13 DEF Recovered, RecordFails, stores
<1> QED
  BY <1>1, <1>2, <1>7, <1>8, <1>9, <1>10, <1>11, <1>12, <1>13 DEF RequestNext

LEMMA StoreTypes ==
  ASSUME IndexTypeOK, NEW r \in Requests, RequestNext(r)
  PROVE  StoresTyped'
<1>0. StoresTyped /\ request[r] \in RequestRecord
  BY TypesApart
<1> USE DEF StoresTyped
<1>1. ASSUME NEW s \in Sources, Register(r, s) \/ AskIndex(r, s) \/ Remove(r, s)
      PROVE  StoresTyped'
  BY <1>0, <1>1 DEF Register, AskIndex, Remove, Statuses
<1>2. ASSUME UNCHANGED <<files, generation, pointer>>,
             NEW s \in Sources \cup {"none"}, NEW status \in Statuses, Transition(s, status)
      PROVE  StoresTyped'
  BY <1>0, <1>2 DEF Transition
<1>3. ASSUME UNCHANGED <<rows, generation, pointer>>,
             NEW s \in Sources \cup {"none"}, NEW status \in Statuses,
             \/ files' = [files EXCEPT ![s] = Emptied(s)]
             \/ files' = [files EXCEPT ![s].documents = FALSE]
             \/ files' = [files EXCEPT ![s].documents = TRUE]
             \/ files' = [files EXCEPT ![s].status = status]
      PROVE  StoresTyped'
  <2>1. Emptied(s) \in FileRecord
    BY DEF Emptied, FileRecord
  <2>2. \A f \in FileRecord, d \in BOOLEAN : [f EXCEPT !.documents = d] \in FileRecord
    BY DEF FileRecord
  <2>3. \A f \in FileRecord : [f EXCEPT !.status = status] \in FileRecord
    BY DEF FileRecord
  <2>4. CASE files' = [files EXCEPT ![s] = Emptied(s)]
    BY <1>0, <1>3, <2>1, <2>4
  <2>5. ASSUME NEW d \in BOOLEAN, files' = [files EXCEPT ![s].documents = d]
        PROVE  StoresTyped'
    BY <1>0, <1>3, <2>2, <2>5
  <2>6. CASE files' = [files EXCEPT ![s].status = status]
    BY <1>0, <1>3, <2>3, <2>6
  <2> QED
    BY <1>3, <2>4, <2>5, <2>6
<1>4. CASE UNCHANGED <<rows, files, generation>> /\
           \E x \in Indexes, g \in 0 .. MaxGenerations : pointer' = [pointer EXCEPT ![x] = g]
  BY <1>0, <1>4
<1>5. CASE UNCHANGED <<rows, files, generation, pointer>>
  BY <1>0, <1>5
<1>6. request[r].source \in Sources \cup {"none"} /\ request[r].gen \in 0 .. MaxGenerations
      /\ request[r].previous \in 0 .. MaxGenerations /\ request[r].view \subseteq Sources
  BY <1>0 DEF RequestRecord
<1>7. CASE Erase(r)
  <2>1. "READY" \in Statuses
    BY DEF Statuses
  <2>2. UNCHANGED <<rows, generation, pointer>>
    BY <1>7 DEF Erase
  <2>3. \/ files' = [files EXCEPT ![request[r].source] = Emptied(request[r].source)]
        \/ files' = [files EXCEPT ![request[r].source].documents = FALSE]
        \/ files' = files
    BY <1>7 DEF Erase
  <2> QED
    BY <1>3, <1>5, <1>6, <2>1, <2>2, <2>3
<1>8. CASE Start(r) \/ BecomeReady(r) \/ RecordFailure(r)
  BY <1>2, <1>6, <1>8 DEF Start, BecomeReady, RecordFailure, Statuses
<1>9. CASE Describe(r) \/ SaveDocuments(r) \/ Promise(r) \/ SaveFailed(r)
  BY <1>3, <1>6, <1>9 DEF Describe, SaveDocuments, Promise, SaveFailed, Statuses
<1>10. CASE Crawl(r) \/ List(r) \/ ReadPrevious(r) \/ ReadControl(r) \/ Recovered(r) \/ GoBack(r)
            \/ StepFails(r) \/ RecordFails(r)
  BY <1>5, <1>10 DEF Crawl, List, ReadPrevious, ReadControl, Recovered, GoBack, StepFails, RecordFails, stores
<1>11. CASE MoveLexical(r) \/ MoveVector(r) \/ RestoreLexical(r) \/ VectorFails(r)
  BY <1>4, <1>5, <1>6, <1>11 DEF MoveLexical, MoveVector, RestoreLexical, VectorFails, Indexes
<1>12. ASSUME UNCHANGED <<rows, files>>, pointer' \in [Indexes -> 0 .. MaxGenerations],
              NEW g, NEW new, g \in Generations => new \in GenerationRecord,
              generation' = [generation EXCEPT ![g] = new]
       PROVE  StoresTyped'
  BY <1>0, <1>12
<1>13. CASE Load(r)
  <2> DEFINE g == request[r].gen
             new == [generation[g] EXCEPT !.sources = request[r].view,
                       !.operation = IF Persistent THEN "preparing" ELSE "none"]
  <2>1. g \in Generations => new \in GenerationRecord
    BY <1>0, <1>6 DEF GenerationRecord
  <2>2. generation' = [generation EXCEPT ![g] = new]
    BY <1>13 DEF Load
  <2> QED
    BY <1>0, <1>12, <1>13, <2>1, <2>2 DEF Load
<1>14. ASSUME NEW x \in Indexes, Write(r, x)
       PROVE  StoresTyped'
  <2> DEFINE g == request[r].gen
  <2>1. ASSUME g \in Generations, x = "vector" PROVE MarkPrepared(g, x) \in GenerationRecord
    <3>1. generation[g] \in GenerationRecord
      BY <1>0, <2>1
    <3> QED
      BY <2>1, <3>1 DEF MarkPrepared, Indexes, GenerationRecord, StoreStates
  <2>2. ASSUME g \in Generations, x = "lexical" PROVE MarkPrepared(g, x) \in GenerationRecord
    <3>1. generation[g] \in GenerationRecord
      BY <1>0, <2>2
    <3> QED
      BY <2>2, <3>1 DEF MarkPrepared, Indexes, GenerationRecord, StoreStates
  <2> QED
    BY <1>0, <1>12, <1>14, <2>1, <2>2 DEF Write, Indexes
<1>15. ASSUME NEW x \in Indexes, WriteFails(r, x)
       PROVE  StoresTyped'
  <2> DEFINE g == request[r].gen
             new == [generation[g] EXCEPT ![x] = "part", !.operation = IF Persistent THEN "failed" ELSE "none"]
  <2>1. CASE x = "vector"
    <3>1. g \in Generations => new \in GenerationRecord
      <4>1. ASSUME NEW old \in GenerationRecord
            PROVE  [old EXCEPT !.vector = "part", !.operation = IF Persistent THEN "failed" ELSE "none"]
                     \in GenerationRecord
        BY DEF GenerationRecord, StoreStates
      <4>2. g \in Generations => generation[g] \in GenerationRecord
        BY <1>0
      <4> QED
        BY <2>1, <4>1, <4>2
    <3>2. generation' = [generation EXCEPT ![g] = new]
      BY <1>15 DEF WriteFails
    <3>3. UNCHANGED <<rows, files, pointer>>
      BY <1>15 DEF WriteFails
    <3> HIDE DEF g, new
    <3>4. generation' \in [Generations -> GenerationRecord]
      BY <1>0, <3>1, <3>2
    <3> QED
      BY <1>0, <3>3, <3>4
  <2>2. CASE x = "lexical"
    <3>1. g \in Generations => new \in GenerationRecord
      <4>1. ASSUME NEW old \in GenerationRecord
            PROVE  [old EXCEPT !.lexical = "part", !.operation = IF Persistent THEN "failed" ELSE "none"]
                     \in GenerationRecord
        BY DEF GenerationRecord, StoreStates
      <4>2. g \in Generations => generation[g] \in GenerationRecord
        BY <1>0
      <4> QED
        BY <2>2, <4>1, <4>2
    <3>2. generation' = [generation EXCEPT ![g] = new]
      BY <1>15 DEF WriteFails
    <3>3. UNCHANGED <<rows, files, pointer>>
      BY <1>15 DEF WriteFails
    <3> HIDE DEF g, new
    <3>4. generation' \in [Generations -> GenerationRecord]
      BY <1>0, <3>1, <3>2
    <3> QED
      BY <1>0, <3>3, <3>4
  <2> QED
    BY <2>1, <2>2 DEF Indexes
<1>16. CASE WriteVectors(r) \/ VectorsFail(r) \/ WriteLexical(r) \/ LexicalFails(r)
  BY <1>14, <1>15, <1>16 DEF WriteVectors, VectorsFail, WriteLexical, LexicalFails, Indexes
<1>17. CASE CleanUp(r)
  <2>1. \A g \in Generations : [generation[g] EXCEPT !.vector = "gone"] \in GenerationRecord
    BY <1>0 DEF GenerationRecord, StoreStates
  <2>2. generation' \in [Generations -> GenerationRecord]
    BY <1>0, <1>17, <2>1 DEF CleanUp
  <2> QED
    BY <1>0, <1>17, <2>2 DEF CleanUp
<1>18. CASE Publish(r) \/ PublishFails(r)
  <2> DEFINE g == request[r].gen
  <2>1. g \in Generations => \A x \in {"complete", "failed"} : [generation[g] EXCEPT !.operation = x] \in GenerationRecord
    BY <1>0 DEF GenerationRecord
  <2>2. PICK x \in {"complete", "failed"} : generation' = [generation EXCEPT ![g] = [generation[g] EXCEPT !.operation = x]]
    BY <1>18 DEF Publish, PublishFails
  <2>3. pointer' \in [Indexes -> 0 .. MaxGenerations]
    BY <1>0, <1>6, <1>18 DEF Publish, PublishFails
  <2>4. UNCHANGED <<rows, files>>
    BY <1>18 DEF Publish, PublishFails
  <2> QED
    BY <1>12, <2>1, <2>2, <2>3, <2>4
<1> QED
  BY <1>1, <1>7, <1>8, <1>9, <1>10, <1>11, <1>13, <1>16, <1>17, <1>18 DEF RequestNext

LEMMA HistoryTypes ==
  ASSUME IndexTypeOK, NEW r \in Requests, RequestNext(r)
  PROVE  HistoriesTyped'
<1>0. HistoriesTyped /\ Nobody \notin Requests
  BY TypesApart, IndexingAssumption
<1> USE DEF HistoriesTyped, histories
<1>1. ASSUME NEW s \in Sources, Register(r, s) \/ AskIndex(r, s) \/ Remove(r, s)
      PROVE  HistoriesTyped'
  BY <1>0, <1>1 DEF Register, AskIndex, Remove, Befalls
<1>2. CASE Erase(r) \/ Start(r) \/ Describe(r) \/ Crawl(r) \/ SaveDocuments(r) \/ List(r) \/ Load(r)
           \/ Promise(r)
  BY <1>0, <1>2 DEF Erase, Start, Describe, Crawl, SaveDocuments, List, Load, Promise, Befalls
<1>3. CASE WriteVectors(r) \/ VectorsFail(r) \/ WriteLexical(r) \/ LexicalFails(r)
  BY <1>0, <1>3 DEF WriteVectors, VectorsFail, WriteLexical, LexicalFails, Write, WriteFails
<1>4. CASE BecomeReady(r) \/ RecordFailure(r) \/ SaveFailed(r) \/ RecordFails(r)
  BY <1>0, <1>4 DEF BecomeReady, RecordFailure, SaveFailed, RecordFails, Befalls
<1>5. CASE ReadPrevious(r) \/ MoveLexical(r) \/ ReadControl(r) \/ CleanUp(r) \/ VectorFails(r)
  BY <1>0, <1>5 DEF ReadPrevious, MoveLexical, ReadControl, CleanUp, VectorFails
<1>6. CASE MoveVector(r) \/ Recovered(r) \/ GoBack(r) \/ RestoreLexical(r)
  BY <1>0, <1>6 DEF MoveVector, Recovered, GoBack, RestoreLexical, EndsWhole, Ends
<1>7. CASE Publish(r) \/ PublishFails(r) \/ StepFails(r)
  BY <1>0, <1>7 DEF Publish, PublishFails, StepFails, Ends
<1> QED
  BY <1>1, <1>2, <1>3, <1>4, <1>5, <1>6, <1>7 DEF RequestNext

-----------------------------------------------------------------------------
(* Where a request is, and where it goes *)

LEMMA Where ==
  ASSUME IndexTypeOK, NEW r \in Requests, Shape(r), NEW x, At(r, x)
  PROVE  /\ StepOf(r) = x /\ request[r].kind # "none" /\ request[r].source \in Sources
         /\ request[r].kind = "remove" <=> x = "erase"
         /\ Indexing(r) => x \in Steps /\ Program(request[r].left) /\ x = request[r].left[1]
         /\ IsDatabase(r) => x \in {"start", "ready"}
         /\ x \notin {"start", "ready", "erase"} => Indexing(r)
         /\ x \in Storing => request[r].kind = "ingest"
<1>1. request[r].kind \in {"none", "ingest", "index", "remove"}
  BY DEF IndexTypeOK
<1>2. request[r].kind # "none" /\ request[r].left # <<>> /\ StepOf(r) = x /\ x = Head(request[r].left)
  BY DEF Shape, At, Idle, StepOf
<1>3. request[r].kind = "remove" => x = "erase"
  BY <1>2 DEF Shape
<1>4. IsDatabase(r) => x \in {"start", "ready"}
  BY <1>2 DEF Shape
<1>5. Indexing(r) => x \in Steps /\ x = request[r].left[1] /\ 1 \in DOMAIN request[r].left
  BY <1>2, Onward DEF Shape
<1>6. "erase" \notin Steps
  BY DEF Steps
<1>7. request[r].kind = "remove" \/ IsDatabase(r) \/ Indexing(r)
  BY <1>1, <1>2 DEF Indexing
<1>8. request[r].kind = "index" => Indexing(r) /\ x \notin Storing
  BY <1>5 DEF Shape, Indexing, IsDatabase
<1>9. request[r].source \in Sources
  BY <1>2 DEF Shape
<1>10. x \in Storing => x # "erase"
  BY DEF Storing, Failing
<1>11. request[r].kind = "remove" <=> x = "erase"
  BY <1>3, <1>4, <1>5, <1>6, <1>7
<1>12. x \in Storing => request[r].kind = "ingest"
  BY <1>1, <1>2, <1>3, <1>8, <1>10
<1>13. Indexing(r) => Program(request[r].left)
  BY DEF Shape
<1> QED
  BY <1>2, <1>4, <1>5, <1>7, <1>9, <1>11, <1>12, <1>13

\* A step that is not the last takes a request to the next one.
GoesOn(r) ==
  /\ request'[r].left = Tail(request[r].left) /\ Len(request[r].left) > 1
  /\ request'[r].kind = request[r].kind /\ request'[r].source = request[r].source
  /\ request'[r].gen = request[r].gen

LEMMA WentOn ==
  ASSUME IndexTypeOK, NEW r \in Requests, Shape(r), NEW x, At(r, x), GoesOn(r), deployment' = deployment
  PROVE  /\ Indexing(r) <=> Indexing(r)'
         /\ IsDatabase(r) <=> IsDatabase(r)'
         /\ request'[r].left # <<>>
         /\ Indexing(r) => Program(request[r].left)' /\ Follows(x, StepOf(r)')
         /\ ~Indexing(r) => x = "start" /\ IsDatabase(r) /\ request'[r].left = <<"ready">> /\ StepOf(r)' = "ready"
         /\ Pending(r)' => Pending(r)
         /\ request[r].kind # "remove"
<1>1. (Indexing(r) <=> Indexing(r)') /\ (IsDatabase(r) <=> IsDatabase(r)')
  BY DEF GoesOn, Indexing, IsDatabase
<1>2. request[r].kind \in {"ingest", "index"} /\ (Indexing(r) \/ IsDatabase(r))
  <2>1. request[r].kind \in {"none", "ingest", "index", "remove"} /\ request[r].kind # "none"
    BY Where DEF IndexTypeOK
  <2>2. ASSUME request[r].kind = "remove"
        PROVE  FALSE
    <3>1. request[r].left = <<"erase">>
      BY <2>2 DEF Shape
    <3>2. Len(request[r].left) = 1
      BY <3>1
    <3> QED
      BY <3>2 DEF GoesOn
  <2> QED
    BY <2>1, <2>2 DEF Indexing
<1>3. CASE Indexing(r)
  <2>1. Program(request[r].left) /\ x = Head(request[r].left)
    BY <1>3 DEF Shape, At
  <2>2. /\ Program(Tail(request[r].left)) /\ Follows(x, Head(Tail(request[r].left)))
        /\ \A i \in DOMAIN Tail(request[r].left) :
             i + 1 \in DOMAIN request[r].left /\ Tail(request[r].left)[i] = request[r].left[i + 1]
    BY <2>1, Onward DEF GoesOn
  <2>3. request'[r].left = Tail(request[r].left)
    BY DEF GoesOn
  <2>4. Program(request[r].left)'
    BY <2>2, <2>3 DEF Program, Steps, Persistent
  <2>5. Follows(x, StepOf(r)')
    BY <2>2, <2>3 DEF StepOf, Program
  <2>6. Pending(r)' => Pending(r)
    BY <2>2, <2>3 DEF Pending
  <2> QED
    BY <1>1, <1>2, <1>3, <2>2, <2>3, <2>4, <2>5, <2>6 DEF Program
<1>4. CASE IsDatabase(r)
  <2>1. request[r].left = <<"start", "ready">>
    <3>1. request[r].left \in {<<"start", "ready">>, <<"ready">>}
      BY <1>4 DEF Shape
    <3>2. ASSUME request[r].left = <<"ready">>
          PROVE  FALSE
      <4>1. Len(request[r].left) = 1
        BY <3>2
      <4> QED
        BY <4>1 DEF GoesOn
    <3> QED
      BY <3>1, <3>2
  <2>2. request'[r].left = <<"ready">> /\ x = "start"
    BY <2>1 DEF GoesOn, At
  <2>3. StepOf(r)' = "ready"
    BY <2>2 DEF StepOf
  <2>4. ~Pending(r)'
    BY <2>2 DEF Pending
  <2> QED
    BY <1>1, <1>2, <1>4, <2>2, <2>3, <2>4 DEF Indexing
<1> QED
  BY <1>2, <1>3, <1>4

LEMMA ShapeOfNext ==
  ASSUME IndexTypeOK, NEW r \in Requests, Shape(r), NEW x, At(r, x), GoesOn(r), deployment' = deployment,
         request'[r].view = request[r].view \/ x = "list",
         request'[r].control = request[r].control \/ x = "control",
         request'[r].previous = request[r].previous \/ x = "previous"
  PROVE  Shape(r)'
<1>1. /\ request[r].kind # "none" /\ request[r].source \in Sources
      /\ x \notin {"start", "ready", "erase"} => Indexing(r)
      /\ StepOf(r) = x
  BY Where
<1>2. /\ Indexing(r) <=> Indexing(r)'
      /\ IsDatabase(r) <=> IsDatabase(r)'
      /\ request'[r].left # <<>>
      /\ Indexing(r) => Program(request[r].left)' /\ Follows(x, StepOf(r)')
      /\ ~Indexing(r) => x = "start" /\ IsDatabase(r) /\ request'[r].left = <<"ready">> /\ StepOf(r)' = "ready"
      /\ request[r].kind # "remove"
  BY WentOn
<1>3. ~Indexing(r)' \/ StepOf(r)' \in Unread => request'[r].view = {}
  <2>1. CASE Indexing(r)
    <3>1. StepOf(r)' \in Unread => x \in Unread /\ x # "list"
      BY <1>2, <2>1 DEF Follows, Unread, Failing
    <3> QED
      BY <1>1, <1>2, <2>1, <3>1 DEF Shape
  <2>2. CASE ~Indexing(r)
    BY <1>2, <2>2 DEF Shape
  <2> QED
    BY <2>1, <2>2
<1>4. ~Indexing(r)' \/ StepOf(r)' \in Failing => request'[r].control = 0 /\ request'[r].previous = 0
  <2>1. CASE Indexing(r)
    <3>1. StepOf(r)' \in Failing => x \in Failing /\ x # "control" /\ x # "previous"
      BY <1>2, <2>1 DEF Follows, Failing
    <3> QED
      BY <1>1, <1>2, <2>1, <3>1 DEF Shape
  <2>2. CASE ~Indexing(r)
    BY <1>2, <2>2 DEF Shape
  <2> QED
    BY <2>1, <2>2
<1>5. request[r].kind = "index" => \A i \in DOMAIN request'[r].left : request'[r].left[i] \notin Storing
  <2>1. ASSUME request[r].kind = "index", NEW i \in DOMAIN request'[r].left
        PROVE  request'[r].left[i] \notin Storing
    <3>1. Indexing(r)
      BY <2>1 DEF Indexing, IsDatabase
    <3>2. i + 1 \in DOMAIN request[r].left /\ request'[r].left[i] = request[r].left[i + 1]
      BY <2>1, <3>1, Onward DEF Shape, GoesOn
    <3> QED
      BY <2>1, <3>2 DEF Shape
  <2> QED
    BY <2>1
<1>6. /\ request'[r].kind = request[r].kind /\ request'[r].source = request[r].source
      /\ request'[r].left # <<>>
  BY <1>2 DEF GoesOn
<1>7. IsDatabase(r)' => request'[r].left = <<"ready">>
  BY <1>2 DEF Indexing
<1> QED
  BY <1>1, <1>2, <1>3, <1>4, <1>5, <1>6, <1>7 DEF Shape

LEMMA ShapeOfIdle ==
  ASSUME NEW r \in Requests, request'[r] = Idle
  PROVE  Shape(r)' /\ ~Indexing(r)' /\ StepOf(r)' = "idle" /\ ~Pending(r)'
  BY DEF Idle, Shape, Indexing, IsDatabase, StepOf, Pending, Unread

\* After an error an ingestion records it, and every other request ends.
LEMMA ShapeOfError ==
  ASSUME IndexTypeOK, NEW r \in Requests, Shape(r), request[r].kind # "none", Raise(r), deployment' = deployment
  PROVE  /\ Shape(r)' /\ ~Pending(r)' /\ request'[r].view = {} /\ request'[r].gen = 0
         /\ request'[r].control = 0 /\ request'[r].previous = 0
         /\ \/ request'[r] = Idle /\ ~Records(r)
            \/ /\ Records(r) /\ Indexing(r)' /\ StepOf(r)' = "fail"
               /\ request'[r].kind = "ingest" /\ request'[r].source = request[r].source
<1>1. request'[r] = AfterError(r)
  BY DEF Raise, IndexTypeOK
<1>2. CASE ~Records(r)
  BY <1>1, <1>2, ShapeOfIdle DEF AfterError, Idle
<1>3. CASE Records(r)
  <2>1. request'[r] = [Idle EXCEPT !.kind = "ingest", !.source = request[r].source, !.left = RecordSteps]
    BY <1>1, <1>3 DEF AfterError
  <2>2. /\ request'[r].kind = "ingest" /\ request'[r].source = request[r].source
        /\ request'[r].left = <<"fail", "saveFailed">> /\ request'[r].view = {} /\ request'[r].gen = 0
        /\ request'[r].control = 0 /\ request'[r].previous = 0
    BY <2>1 DEF Idle, RecordSteps
  <2>3. ~IsDatabase(r)' /\ Indexing(r)'
    BY <1>3, <2>2 DEF Records, IsDatabase, Indexing
  <2>4. Program(request[r].left)'
    BY <2>2 DEF Program, Steps, Follows, Finals
  <2>5. StepOf(r)' = "fail" /\ ~Pending(r)'
    BY <2>2 DEF StepOf, Pending
  <2>6. request[r].source \in Sources
    BY DEF Shape
  <2>7. Shape(r)'
    BY <2>2, <2>3, <2>4, <2>6 DEF Shape
  <2> QED
    BY <1>3, <2>2, <2>3, <2>5, <2>7
<1> QED
  BY <1>2, <1>3

Others(r) == \A q \in Requests \ {r} : request'[q] = request[q]

LEMMA AdvanceGoes ==
  ASSUME IndexTypeOK, NEW r \in Requests, Shape(r), NEW x, At(r, x), Advance(r)
  PROVE  /\ Others(r)
         /\ \/ /\ GoesOn(r) /\ request'[r].view = request[r].view
               /\ request'[r].control = request[r].control /\ request'[r].previous = request[r].previous
            \/ request'[r] = Idle /\ (x \in Finals \cup {"erase"} \/ (x = "ready" /\ IsDatabase(r)))
<1>1. /\ request' = [request EXCEPT ![r] = IF Len(request[r].left) > 1 THEN Advanced(r) ELSE Idle]
      /\ request \in [Requests -> RequestRecord]
  BY TypesApart DEF Advance
<1>2. Others(r)
  BY <1>1 DEF Others
<1>3. CASE Len(request[r].left) > 1
  <2>1. request'[r] = Advanced(r)
    BY <1>1, <1>3
  <2> QED
    BY <1>1, <1>2, <1>3, <2>1 DEF Advanced, GoesOn, RequestRecord
<1>4. CASE ~(Len(request[r].left) > 1)
  <2>1. request'[r] = Idle
    BY <1>1, <1>4
  <2>2. Indexing(r) => x \in Finals
    <3>1. Indexing(r) => Program(request[r].left) /\ x = Head(request[r].left)
      BY Where DEF At
    <3>2. Indexing(r) => Len(request[r].left) \in Nat /\ (Len(request[r].left) <= 1 => x \in Finals)
      BY <3>1, Onward
    <3> QED
      BY <1>4, <3>2
  <2>3. IsDatabase(r) => x = "ready"
    <3>1. ASSUME request[r].left = <<"start", "ready">>
          PROVE  FALSE
      <4>1. Len(request[r].left) = 2
        BY <3>1
      <4> QED
        BY <1>4, <4>1
    <3>2. IsDatabase(r) => request[r].left = <<"ready">>
      BY <3>1 DEF Shape
    <3> QED
      BY <3>2 DEF At
  <2>4. request[r].kind \in {"ingest", "index", "remove"}
    BY Where DEF IndexTypeOK
  <2>5. request[r].kind = "remove" => x = "erase"
    BY Where
  <2> QED
    BY <1>2, <2>1, <2>2, <2>3, <2>4, <2>5 DEF Indexing
<1> QED
  BY <1>3, <1>4

LEMMA ShapeAdvanced ==
  ASSUME IndexTypeOK, NEW r \in Requests, Shape(r), NEW x, At(r, x), Advance(r), deployment' = deployment
  PROVE  Others(r) /\ Shape(r)'
  BY AdvanceGoes, ShapeOfNext, ShapeOfIdle

LEMMA Single ==
  ASSUME NEW y \in Steps, y \in Finals
  PROVE  Program(<<y>>)
<1>1. <<y>> \in Seq(Steps) /\ <<y>> # <<>> /\ Len(<<y>>) = 1 /\ <<y>>[1] = y
  OBVIOUS
<1>2. \A i \in 1 .. Len(<<y>>) - 1 : FALSE
  BY <1>1
<1> QED
  BY <1>1, <1>2 DEF Program

\* A failure to move the vectors turns a request to what it does then.
LEMMA ShapeOfDetour ==
  ASSUME IndexTypeOK, NEW r \in Requests, Shape(r), NEW x \in {"control", "vectorPointer", "recover"}, At(r, x),
         NEW y \in {"recover", "restore"}, request' = [request EXCEPT ![r].left = <<y>>], deployment' = deployment
  PROVE  /\ Others(r) /\ Shape(r)' /\ Indexing(r) /\ Indexing(r)' /\ ~Persistent
         /\ StepOf(r)' = y /\ ~Pending(r)'
         /\ request'[r].kind = request[r].kind /\ request'[r].source = request[r].source
         /\ request'[r].view = request[r].view /\ request'[r].gen = request[r].gen
         /\ request'[r].control = request[r].control /\ request'[r].previous = request[r].previous
<1>1. Indexing(r) /\ x \in Steps /\ request[r].kind # "none" /\ request[r].source \in Sources
      /\ request[r].kind # "remove" /\ StepOf(r) = x
  BY Where
<1>2. ~Persistent
  BY <1>1 DEF Steps
<1>3. request \in [Requests -> RequestRecord]
  BY TypesApart
<1>4. /\ Others(r)
      /\ request'[r].kind = request[r].kind /\ request'[r].source = request[r].source
      /\ request'[r].view = request[r].view /\ request'[r].gen = request[r].gen
      /\ request'[r].control = request[r].control /\ request'[r].previous = request[r].previous
      /\ request'[r].left = <<y>>
  BY <1>3 DEF Others, RequestRecord
<1>5. Program(request[r].left)'
  <2>1. y \in Steps /\ y \in Finals /\ Steps' = Steps
    BY <1>2 DEF Steps, Finals, Persistent
  <2>2. Program(<<y>>)
    BY <2>1, Single
  <2> QED
    BY <1>4, <2>1, <2>2 DEF Program
<1>6. Indexing(r)' /\ ~IsDatabase(r)' /\ StepOf(r)' = y /\ ~Pending(r)'
  BY <1>1, <1>4 DEF Indexing, IsDatabase, StepOf, Pending
<1>7. StepOf(r)' \notin Unread /\ \A i \in DOMAIN request'[r].left : request'[r].left[i] \notin Storing
  BY <1>4, <1>6 DEF Unread, Storing, Failing
<1>8. Shape(r)'
  BY <1>1, <1>4, <1>5, <1>6, <1>7 DEF Shape, Unread
<1> QED
  BY <1>1, <1>2, <1>4, <1>6, <1>8

LEMMA IndexLists ==
  ASSUME NEW i \in DOMAIN (PrepareSteps \o ActivateSteps)
  PROVE  (PrepareSteps \o ActivateSteps)[i] \notin Storing
<1> DEFINE S == StepNames \ Storing
<1>1. PrepareSteps \in Seq(S)
  BY DEF PrepareSteps, StepNames, Storing, Failing
<1>2. ActivateSteps \in Seq(S)
  <2>1. <<"publish">> \in Seq(S)
    BY DEF StepNames, Storing, Failing
  <2>2. <<"previous", "lexicalPointer">> \in Seq(S) /\ <<"vectorPointer">> \in Seq(S)
    BY DEF StepNames, Storing, Failing
  <2>3. <<"control", "vectorPointer", "cleanup">> \in Seq(S)
    BY DEF StepNames, Storing, Failing
  <2> HIDE DEF S
  <2>4. /\ <<"previous", "lexicalPointer">> \o <<"vectorPointer">> \in Seq(S)
        /\ <<"previous", "lexicalPointer">> \o <<"control", "vectorPointer", "cleanup">> \in Seq(S)
    BY <2>2, <2>3, ConcatProperties
  <2> QED
    BY <2>1, <2>4 DEF ActivateSteps
<1> HIDE DEF S
<1>3. PrepareSteps \o ActivateSteps \in Seq(S)
  BY <1>1, <1>2, ConcatProperties
<1>4. (PrepareSteps \o ActivateSteps)[i] \in S
  BY <1>3, LenProperties
<1> QED
  BY <1>4 DEF S

LEMMA ShapeOfBegin ==
  ASSUME IndexTypeOK, NEW r \in Requests, NEW s \in Sources, Register(r, s) \/ AskIndex(r, s)
  PROVE  /\ Others(r) /\ Shape(r)' /\ deployment' = deployment
         /\ request'[r].source = s /\ request'[r].view = {} /\ request'[r].gen = made + 1
         /\ request'[r].control = 0 /\ request'[r].previous = 0
         /\ made' = made + 1 /\ made + 1 \in Generations /\ request[r].kind = "none"
         /\ Register(r, s) => request'[r].kind = "ingest" /\ StepOf(r)' = "start"
         /\ AskIndex(r, s) => request'[r].kind = "index" /\ Indexing(r)' /\ StepOf(r)' = "list"
<1>1. request \in [Requests -> RequestRecord] /\ made \in 0 .. MaxGenerations /\ MaxGenerations \in Nat
  BY TypesApart, IndexingAssumption
<1> DEFINE begun(kind, L) == [Idle EXCEPT !.kind = kind, !.source = s, !.left = L, !.gen = made + 1]
<1>2. ASSUME NEW kind, NEW L, Begins(r, kind, s, L)
      PROVE  /\ Others(r) /\ request'[r] = begun(kind, L)
             /\ made' = made + 1 /\ made + 1 \in Generations /\ request[r].kind = "none"
  BY <1>1, <1>2 DEF Begins, Others, Generations, InFlight
<1>3. ASSUME NEW kind, NEW L
      PROVE  /\ begun(kind, L).kind = kind /\ begun(kind, L).source = s /\ begun(kind, L).left = L
             /\ begun(kind, L).view = {} /\ begun(kind, L).gen = made + 1
             /\ begun(kind, L).control = 0 /\ begun(kind, L).previous = 0
  BY DEF Idle
<1> HIDE DEF begun
<1>0. ~(Register(r, s) /\ AskIndex(r, s))
  <2>1. Register(r, s) => request'[r].kind = "ingest"
    BY <1>2, <1>3 DEF Register
  <2>2. AskIndex(r, s) => request'[r].kind = "index"
    BY <1>2, <1>3 DEF AskIndex
  <2> QED
    BY <2>1, <2>2
<1>4. CASE Register(r, s)
  <2> DEFINE L == IngestSteps(SourceKind[s])
  <2>1. /\ Others(r) /\ deployment' = deployment /\ made' = made + 1 /\ made + 1 \in Generations
        /\ request'[r] = begun("ingest", L) /\ request[r].kind = "none"
    BY <1>2, <1>4 DEF Register
  <2> HIDE DEF L
  <2>2. /\ request'[r].kind = "ingest" /\ request'[r].source = s /\ request'[r].left = L
        /\ request'[r].view = {} /\ request'[r].gen = made + 1
        /\ request'[r].control = 0 /\ request'[r].previous = 0
    BY <1>3, <2>1
  <2>3. CASE SourceKind[s] = "database"
    <3>1. L = <<"start", "ready">>
      BY <2>3 DEF L, IngestSteps, DatabaseSteps
    <3>2. IsDatabase(r)' /\ ~Indexing(r)' /\ StepOf(r)' = "start" /\ request'[r].left # <<>>
      BY <2>2, <2>3, <3>1 DEF IsDatabase, Indexing, StepOf
    <3>3. Shape(r)'
      BY <2>2, <3>1, <3>2 DEF Shape
    <3> QED
      BY <1>0, <1>4, <2>1, <2>2, <3>2, <3>3
  <2>4. CASE SourceKind[s] # "database"
    <3>1. Program(L) /\ L[1] = "start"
      BY <2>4, IngestProgram, IndexingAssumption DEF L
    <3>2. Program(request[r].left)' /\ StepOf(r)' = "start" /\ request'[r].left # <<>>
      BY <2>1, <2>2, <3>1, Onward DEF Program, Steps, Persistent, StepOf
    <3>3. ~IsDatabase(r)' /\ Indexing(r)' /\ StepOf(r)' \in Unread
      BY <2>2, <2>4, <3>2 DEF IsDatabase, Indexing, Unread
    <3>4. Shape(r)'
      BY <2>2, <3>2, <3>3 DEF Shape
    <3> QED
      BY <1>0, <1>4, <2>1, <2>2, <3>2, <3>4
  <2> QED
    BY <2>3, <2>4
<1>5. CASE AskIndex(r, s)
  <2> DEFINE L == PrepareSteps \o ActivateSteps
  <2>1. /\ Others(r) /\ deployment' = deployment /\ made' = made + 1 /\ made + 1 \in Generations
        /\ request'[r] = begun("index", L) /\ request[r].kind = "none"
    BY <1>2, <1>5 DEF AskIndex
  <2>2. Program(L) /\ L[1] = "list" /\ \A i \in DOMAIN L : L[i] \notin Storing
    BY IndexProgram, IndexLists
  <2> HIDE DEF L
  <2>3. /\ request'[r].kind = "index" /\ request'[r].source = s /\ request'[r].left = L
        /\ request'[r].view = {} /\ request'[r].gen = made + 1
        /\ request'[r].control = 0 /\ request'[r].previous = 0
    BY <1>3, <2>1
  <2>4. Program(request[r].left)' /\ StepOf(r)' = "list" /\ request'[r].left # <<>>
    BY <2>1, <2>2, <2>3, Onward DEF Program, Steps, Persistent, StepOf
  <2>5. ~IsDatabase(r)' /\ Indexing(r)'
    BY <2>3 DEF IsDatabase, Indexing
  <2>6. Shape(r)'
    BY <2>2, <2>3, <2>4, <2>5 DEF Shape
  <2> QED
    BY <1>0, <1>5, <2>1, <2>3, <2>4, <2>5, <2>6
<1> QED
  BY <1>4, <1>5

-----------------------------------------------------------------------------
(* What a step of a request does *)

\* A request takes the next step, and may have read something.
Onwards(r, x) ==
  /\ At(r, x) /\ GoesOn(r)
  /\ request'[r].view = request[r].view \/ x = "list"
  /\ \/ request'[r].control = request[r].control
     \/ x = "control" /\ request'[r].control = pointer["vector"]
  /\ \/ request'[r].previous = request[r].previous
     \/ x = "previous" /\ request'[r].previous = pointer["lexical"]

Detours(r) ==
  \E x \in {"control", "vectorPointer", "recover"}, y \in {"recover", "restore"} :
    At(r, x) /\ request' = [request EXCEPT ![r].left = <<y>>]

\* An end, after the last step or after what cannot be recorded.
Finishes(r) ==
  /\ request'[r] = Idle
  /\ StepOf(r) \in Finals \cup {"erase", "fail"} \/ (StepOf(r) = "ready" /\ IsDatabase(r))

Begin(r, s) == Register(r, s) \/ AskIndex(r, s)

Continues(r) ==
  /\ made' = made /\ request[r].kind # "none"
  /\ (\E x \in StepNames : Onwards(r, x)) \/ Finishes(r) \/ Raise(r) \/ Detours(r)

\* Every action begins a request, removes a source, or continues a request.
LEMMA Turn ==
  ASSUME IndexTypeOK, NEW r \in Requests, Shape(r), RequestNext(r)
  PROVE  /\ deployment' = deployment /\ Others(r) /\ Shape(r)'
         /\ (\E s \in Sources : Begin(r, s) \/ Remove(r, s)) \/ Continues(r)
<1> DEFINE Result == /\ deployment' = deployment /\ Others(r) /\ Shape(r)' /\ Continues(r)
<1>0. request \in [Requests -> RequestRecord]
  BY TypesApart
<1>1. ASSUME NEW s \in Sources, Begin(r, s)
      PROVE  deployment' = deployment /\ Others(r) /\ Shape(r)'
  BY <1>1, ShapeOfBegin DEF Begin
<1>2. ASSUME NEW s \in Sources, Remove(r, s)
      PROVE  deployment' = deployment /\ Others(r) /\ Shape(r)'
  <2>1. request'[r] = [Idle EXCEPT !.kind = "remove", !.source = s, !.left = <<"erase">>]
        /\ Others(r) /\ deployment' = deployment
    BY <1>0, <1>2 DEF Remove, Others
  <2>2. /\ request'[r].kind = "remove" /\ request'[r].source = s /\ request'[r].left = <<"erase">>
        /\ request'[r].view = {} /\ request'[r].gen = 0
        /\ request'[r].control = 0 /\ request'[r].previous = 0
    BY <2>1 DEF Idle
  <2> QED
    BY <2>1, <2>2 DEF Shape, Indexing, IsDatabase
<1>3. ASSUME NEW x \in StepNames, At(r, x)
      PROVE  request[r].kind # "none" /\ StepOf(r) = x /\ x # "idle"
  BY <1>3, Where DEF StepNames
<1>4. ASSUME NEW x \in StepNames, At(r, x), Advance(r), deployment' = deployment, made' = made
      PROVE  Result
  <2>1. CASE /\ GoesOn(r) /\ request'[r].view = request[r].view
             /\ request'[r].control = request[r].control /\ request'[r].previous = request[r].previous
    BY <1>3, <1>4, <2>1, ShapeAdvanced DEF Onwards, Continues
  <2>2. CASE request'[r] = Idle /\ (x \in Finals \cup {"erase"} \/ (x = "ready" /\ IsDatabase(r)))
    BY <1>3, <1>4, <2>2, ShapeAdvanced DEF Finishes, Continues
  <2> QED
    BY <1>4, <2>1, <2>2, AdvanceGoes
<1>5. ASSUME NEW x \in StepNames, At(r, x), Raise(r), deployment' = deployment, made' = made
      PROVE  Result
  <2>1. Shape(r)'
    BY <1>3, <1>5, ShapeOfError
  <2>2. Others(r)
    BY <1>0, <1>5 DEF Raise, Others
  <2> QED
    BY <1>3, <1>5, <2>1, <2>2 DEF Continues
<1>6. ASSUME NEW x \in Finals \cup {"fail"}, At(r, x), request' = [request EXCEPT ![r] = Idle],
             deployment' = deployment, made' = made
      PROVE  Result
  <2>1. request'[r] = Idle /\ Others(r)
    BY <1>0, <1>6 DEF Others
  <2>2. x \in StepNames
    BY DEF Finals, StepNames
  <2> QED
    BY <1>3, <1>6, <2>1, <2>2, ShapeOfIdle DEF Finishes, Continues
<1>7. CASE VectorFails(r) \/ GoBack(r)
  <2>1. PICK x \in {"control", "vectorPointer", "recover"}, y \in {"recover", "restore"} :
          At(r, x) /\ request' = [request EXCEPT ![r].left = <<y>>]
    BY <1>7 DEF VectorFails, GoBack
  <2>2. deployment' = deployment /\ made' = made
    BY <1>7 DEF VectorFails, GoBack, stores
  <2>3. Others(r) /\ Shape(r)'
    BY <2>1, <2>2, ShapeOfDetour
  <2>4. x \in StepNames
    BY DEF StepNames
  <2> QED
    BY <1>3, <2>1, <2>2, <2>3, <2>4 DEF Detours, Continues
<1>8. CASE List(r) \/ ReadPrevious(r) \/ ReadControl(r)
  <2>1. PICK x \in {"list", "previous", "control"} :
          /\ At(r, x) /\ deployment' = deployment /\ made' = made
          /\ \/ x = "list" /\ request' = [request EXCEPT ![r] =
                  [Advanced(r) EXCEPT !.view = {y \in Sources : IsReady(y)} \cup {request[r].source}]]
             \/ x = "previous" /\ request' = [request EXCEPT ![r] = [Advanced(r) EXCEPT !.previous = pointer["lexical"]]]
             \/ x = "control" /\ request' = [request EXCEPT ![r] = [Advanced(r) EXCEPT !.control = pointer["vector"]]]
    BY <1>8 DEF List, ReadPrevious, ReadControl, stores
  <2>2. x \in StepNames /\ x \notin Finals
    BY <2>1 DEF StepNames, Finals
  <2>3. Len(request[r].left) > 1
    <3>1. Indexing(r) /\ Program(request[r].left) /\ x = Head(request[r].left)
      BY <2>1, <2>2, Where DEF At
    <3> QED
      BY <2>2, <3>1, Onward
  <2>4. Others(r)
    BY <1>0, <2>1 DEF Others
  <2>5. Advanced(r) = [request[r] EXCEPT !.left = Tail(@)]
    BY DEF Advanced
  <2>6. Onwards(r, x)
    <3> DEFINE a == Advanced(r)
    <3>1. /\ a.kind = request[r].kind /\ a.source = request[r].source /\ a.gen = request[r].gen
          /\ a.left = Tail(request[r].left) /\ a.view = request[r].view
          /\ a.control = request[r].control /\ a.previous = request[r].previous
      BY <1>0, <2>5 DEF RequestRecord
    <3>2. a \in RequestRecord
      BY <1>0, <2>1, <2>5, AtLeft DEF RequestRecord
    <3> HIDE DEF a
    <3>3. ASSUME NEW V, x = "list", request' = [request EXCEPT ![r] = [a EXCEPT !.view = V]]
          PROVE  Onwards(r, x)
      <4>1. request'[r] = [a EXCEPT !.view = V]
        BY <1>0, <3>3
      <4>2. /\ request'[r].kind = request[r].kind /\ request'[r].source = request[r].source
            /\ request'[r].gen = request[r].gen /\ request'[r].left = Tail(request[r].left)
            /\ request'[r].control = request[r].control
            /\ request'[r].previous = request[r].previous
        BY <3>1, <3>2, <4>1 DEF RequestRecord
      <4> QED
        BY <2>1, <2>3, <3>3, <4>2 DEF Onwards, GoesOn
    <3>4. ASSUME x = "previous", request' = [request EXCEPT ![r] = [a EXCEPT !.previous = pointer["lexical"]]]
          PROVE  Onwards(r, x)
      <4>1. request'[r] = [a EXCEPT !.previous = pointer["lexical"]]
        BY <1>0, <3>4
      <4>2. /\ request'[r].kind = request[r].kind /\ request'[r].source = request[r].source
            /\ request'[r].gen = request[r].gen /\ request'[r].left = Tail(request[r].left)
            /\ request'[r].view = request[r].view
            /\ request'[r].control = request[r].control
            /\ request'[r].previous = pointer["lexical"]
        BY <3>1, <3>2, <4>1 DEF RequestRecord
      <4> QED
        BY <2>1, <2>3, <3>4, <4>2 DEF Onwards, GoesOn
    <3>5. ASSUME x = "control", request' = [request EXCEPT ![r] = [a EXCEPT !.control = pointer["vector"]]]
          PROVE  Onwards(r, x)
      <4>1. request'[r] = [a EXCEPT !.control = pointer["vector"]]
        BY <1>0, <3>5
      <4>2. /\ request'[r].kind = request[r].kind /\ request'[r].source = request[r].source
            /\ request'[r].gen = request[r].gen /\ request'[r].left = Tail(request[r].left)
            /\ request'[r].view = request[r].view
            /\ request'[r].control = pointer["vector"]
            /\ request'[r].previous = request[r].previous
        BY <3>1, <3>2, <4>1 DEF RequestRecord
      <4> QED
        BY <2>1, <2>3, <3>5, <4>2 DEF Onwards, GoesOn
    <3> QED
      BY <2>1, <3>3, <3>4, <3>5 DEF a
  <2>7. Shape(r)'
    BY <2>1, <2>6, ShapeOfNext DEF Onwards
  <2> QED
    BY <1>3, <2>1, <2>2, <2>4, <2>6, <2>7 DEF Continues
<1> HIDE DEF Result
<1>9. ASSUME Erase(r) \/ Start(r) \/ Describe(r) \/ Crawl(r) \/ SaveDocuments(r) \/ Load(r)
              \/ WriteVectors(r) \/ WriteLexical(r) \/ Promise(r) \/ BecomeReady(r)
      PROVE  Result
  BY <1>4, <1>9 DEF Erase, Start, Describe, Crawl, SaveDocuments, Load, WriteVectors, WriteLexical, Write,
     Promise, BecomeReady, stores, StepNames
<1>10. ASSUME MoveLexical(r) \/ MoveVector(r) \/ CleanUp(r) \/ RecordFailure(r) \/ SaveFailed(r)
       PROVE  Result
  BY <1>4, <1>10 DEF MoveLexical, MoveVector, CleanUp, RecordFailure, SaveFailed, StepNames
<1>11. ASSUME Publish(r)
       PROVE  Result
  BY <1>4, <1>5, <1>11 DEF Publish, StepNames
<1>12. ASSUME VectorsFail(r) \/ LexicalFails(r) \/ RestoreLexical(r) \/ PublishFails(r)
       PROVE  Result
  BY <1>5, <1>12 DEF VectorsFail, LexicalFails, WriteFails, RestoreLexical, PublishFails, StepNames
<1>13. ASSUME StepFails(r)
       PROVE  Result
  <2>1. PICK x \in StepNames : At(r, x)
    BY <1>13 DEF StepFails, Refused, Plain, StepNames
  <2> QED
    BY <1>5, <1>13, <2>1 DEF StepFails, stores
<1>14. ASSUME Recovered(r) \/ RecordFails(r)
       PROVE  Result
  BY <1>6, <1>14 DEF Recovered, RecordFails, Finals, stores
<1> QED
  BY <1>1, <1>2, <1>7, <1>8, <1>9, <1>10, <1>11, <1>12, <1>13, <1>14 DEF RequestNext, Begin, Result

\* The other requests stay where they are.
LEMMA Stays ==
  ASSUME NEW r \in Requests, Others(r), deployment' = deployment, NEW q \in Requests \ {r}
  PROVE  /\ request'[q] = request[q]
         /\ Shape(q) <=> Shape(q)'
         /\ Indexing(q) <=> Indexing(q)'
         /\ IsDatabase(q) <=> IsDatabase(q)'
         /\ StepOf(q)' = StepOf(q)
         /\ Pending(q) <=> Pending(q)'
         /\ Activating(q) <=> Activating(q)'
<1>1. request'[q] = request[q]
  BY DEF Others
<1>2. /\ Indexing(q) <=> Indexing(q)'
      /\ IsDatabase(q) <=> IsDatabase(q)'
      /\ StepOf(q)' = StepOf(q)
      /\ Pending(q) <=> Pending(q)'
      /\ Activating(q) <=> Activating(q)'
  BY <1>1 DEF Indexing, IsDatabase, StepOf, Pending, Activating
<1>3. Program(request[q].left) <=> Program(request[q].left)'
  BY <1>1 DEF Program, Steps, Persistent
<1>4. Shape(q) <=> Shape(q)'
  BY <1>1, <1>2, <1>3 DEF Shape
<1> QED
  BY <1>1, <1>2, <1>4

LEMMA RestartIdle ==
  ASSUME IndexTypeOK, Restart
  PROVE  /\ \A r \in Requests : request'[r] = Idle /\ Shape(r)' /\ ~Indexing(r)' /\ StepOf(r)' = "idle"
         /\ \A r \in Requests : ~Pending(r)' /\ ~Activating(r)'
         /\ \A s \in Sources : ~Ingesting(s)' /\ ~Erasing(s)'
         /\ IndexTypeOK'
<1>1. \A r \in Requests : request'[r] = Idle
  BY DEF Restart
<1>2. \A r \in Requests : Shape(r)' /\ ~Indexing(r)' /\ StepOf(r)' = "idle" /\ ~Pending(r)'
  BY <1>1, ShapeOfIdle
<1>3. \A r \in Requests : ~Activating(r)' /\ request'[r].kind = "none"
  BY <1>1 DEF Activating, Idle
<1>4. \A s \in Sources : ~Ingesting(s)' /\ ~Erasing(s)'
  BY <1>3 DEF Ingesting, Erasing
<1>5. request' \in [Requests -> RequestRecord]
  BY IdleType DEF Restart
<1>6. /\ deployment' \in Deployments /\ made' \in 0 .. MaxGenerations /\ restarts' \in 0 .. MaxRestarts
      /\ StoresTyped' /\ unused' \subseteq Sources /\ removed' \subseteq Sources
      /\ alone' \in Requests \cup {Nobody}
  BY TypesApart, IndexingAssumption DEF Restart, StoresTyped, HistoriesTyped
<1>7. mishaps' \in [Sources -> SUBSET {"overtaken", "interrupted", "disturbed"}]
  <2>1. PICK I, D : mishaps' = [s \in Sources |-> (mishaps[s] \cup (IF s \in I THEN {"interrupted"} ELSE {}))
                                                  \cup (IF s \in D THEN {"disturbed"} ELSE {})]
    BY DEF Restart
  <2>2. mishaps \in [Sources -> SUBSET {"overtaken", "interrupted", "disturbed"}]
    BY TypesApart DEF HistoriesTyped
  <2>3. \A s \in Sources : (mishaps[s] \cup (IF s \in I THEN {"interrupted"} ELSE {}))
                            \cup (IF s \in D THEN {"disturbed"} ELSE {})
                          \in SUBSET {"overtaken", "interrupted", "disturbed"}
    BY <2>2
  <2> QED
    BY <2>1, <2>3
<1>8. torn' \in BOOLEAN
  BY TypesApart DEF Restart, HistoriesTyped
<1>9. IndexTypeOK'
  BY <1>5, <1>6, <1>7, <1>8 DEF IndexTypeOK, StoresTyped, HistoriesTyped, RequestRecord, GenerationRecord, FileRecord
<1> QED
  BY <1>1, <1>2, <1>3, <1>4, <1>9

Well == IndexTypeOK /\ Shapes

LEMMA WellInit == IndexInit => Well
<1> SUFFICES ASSUME IndexInit
             PROVE  Well
  OBVIOUS
<1>1. request \in [Requests -> RequestRecord] /\ \A r \in Requests : request[r] = Idle
  BY IdleType DEF IndexInit
<1>2. \A g \in Generations : NoGeneration \in GenerationRecord
  BY DEF NoGeneration, GenerationRecord, StoreStates
<1>3. StoresTyped
  <2>1. rows \in [Sources -> Statuses \cup {"none"}] /\ files \in [Sources -> FileRecord]
    BY DEF IndexInit, FileRecord
  <2>2. generation \in [Generations -> GenerationRecord]
    BY <1>2 DEF IndexInit
  <2>3. pointer \in [Indexes -> 0 .. MaxGenerations]
    BY IndexingAssumption DEF IndexInit
  <2> QED
    BY <2>1, <2>2, <2>3 DEF StoresTyped
<1>4. deployment \in Deployments /\ made \in 0 .. MaxGenerations /\ restarts \in 0 .. MaxRestarts
  BY IndexingAssumption DEF IndexInit
<1>6. mishaps \in [Sources -> SUBSET {"overtaken", "interrupted", "disturbed"}]
  BY DEF IndexInit
<1>7. HistoriesTyped
  BY <1>6 DEF IndexInit, HistoriesTyped
<1>5. Shapes
  BY <1>1 DEF Shapes, Shape, Idle, Indexing, IsDatabase, Unread
<1> QED
  BY <1>1, <1>3, <1>4, <1>5, <1>7, TypesTogether DEF Well

LEMMA WellStep == Well /\ [IndexNext]_indexVars => Well'
<1> SUFFICES ASSUME Well, [IndexNext]_indexVars
             PROVE  Well'
  OBVIOUS
<1> USE DEF Well, Shapes
<1>1. ASSUME NEW r \in Requests, RequestNext(r)
      PROVE  Well'
  <2>1. /\ deployment' = deployment /\ Others(r) /\ Shape(r)'
    BY <1>1, Turn
  <2>2. request' \in [Requests -> RequestRecord] /\ made' \in 0 .. MaxGenerations
    BY <1>1, RequestTypes
  <2>3. StoresTyped' /\ HistoriesTyped'
    BY <1>1, StoreTypes, HistoryTypes
  <2>4. restarts' = restarts
    <3>1. CASE \E s \in Sources : Register(r, s) \/ AskIndex(r, s) \/ Remove(r, s)
      BY <3>1 DEF Register, AskIndex, Remove
    <3>2. CASE Erase(r) \/ Start(r) \/ Describe(r) \/ Crawl(r) \/ SaveDocuments(r) \/ List(r) \/ Load(r)
               \/ Promise(r) \/ BecomeReady(r) \/ RecordFailure(r) \/ SaveFailed(r) \/ RecordFails(r)
      BY <3>2 DEF Erase, Start, Describe, Crawl, SaveDocuments, List, Load, Promise, BecomeReady, RecordFailure,
         SaveFailed, RecordFails
    <3>3. CASE WriteVectors(r) \/ VectorsFail(r) \/ WriteLexical(r) \/ LexicalFails(r)
      BY <3>3 DEF WriteVectors, VectorsFail, WriteLexical, LexicalFails, Write, WriteFails
    <3>4. CASE ReadPrevious(r) \/ MoveLexical(r) \/ ReadControl(r) \/ MoveVector(r) \/ CleanUp(r) \/ VectorFails(r)
               \/ Recovered(r) \/ GoBack(r) \/ RestoreLexical(r) \/ Publish(r) \/ PublishFails(r) \/ StepFails(r)
      BY <3>4 DEF ReadPrevious, MoveLexical, ReadControl, MoveVector, CleanUp, VectorFails, Recovered, GoBack,
         RestoreLexical, Publish, PublishFails, StepFails
    <3> QED
      BY <1>1, <3>1, <3>2, <3>3, <3>4 DEF RequestNext
  <2>5. IndexTypeOK'
    <3>1. deployment' \in Deployments /\ restarts' \in 0 .. MaxRestarts
      BY <2>1, <2>4, TypesApart
    <3> QED
      BY <2>2, <2>3, <3>1 DEF IndexTypeOK, StoresTyped, HistoriesTyped, RequestRecord, GenerationRecord, FileRecord
  <2>6. \A q \in Requests : Shape(q)'
    BY <2>1, Stays
  <2> QED
    BY <2>5, <2>6
<1>2. CASE Restart
  BY <1>2, RestartIdle
<1>3. CASE UNCHANGED indexVars
  <2>1. UNCHANGED <<deployment, rows, files, generation, pointer, made, request, restarts, unused, removed, mishaps, alone, torn>>
    BY <1>3 DEF indexVars, stores, histories
  <2>2. IndexTypeOK'
    BY <2>1 DEF IndexTypeOK
  <2>3. \A q \in Requests : Shape(q)'
    BY <2>1 DEF Shape, Program, Steps, Persistent, Indexing, IsDatabase, StepOf
  <2> QED
    BY <2>2, <2>3
<1> QED
  BY <1>1, <1>2, <1>3 DEF IndexNext

-----------------------------------------------------------------------------
(* What a step does to generations and pointers *)

PointerMoves(r) ==
  LET step == StepOf(r) IN
  /\ \/ pointer'["vector"] = pointer["vector"]
     \/ step \in {"vectorPointer", "publish"} /\ pointer'["vector"] = request[r].gen
  /\ \/ pointer'["lexical"] = pointer["lexical"]
     \/ step \in {"lexicalPointer", "publish"} /\ pointer'["lexical"] = request[r].gen
     \/ step = "restore" /\ pointer'["lexical"] = request[r].previous

GenerationMoves(r) ==
  LET step == StepOf(r)
      own == request[r].gen
  IN
  \A g \in Generations :
    /\ generation'[g].sources = generation[g].sources \/ (g = own /\ step = "load")
    /\ generation'[g].lexical = generation[g].lexical \/ (g = own /\ step = "lexical")
    /\ \/ generation'[g].vector = generation[g].vector
       \/ g = own /\ step = "vector"
       \/ g = request[r].control /\ g # own /\ step = "cleanup"

\* A step that goes on has done its part.
PartDone(r) ==
  LET g == request[r].gen IN
  g \in Generations =>
    /\ Onwards(r, "load") => generation'[g].sources = request[r].view
    /\ Onwards(r, "vector") => generation'[g].vector = "whole"
    /\ Onwards(r, "lexical") => generation'[g].lexical = "whole"
    /\ Onwards(r, "lexicalPointer") => pointer'["lexical"] = g
    /\ Onwards(r, "vectorPointer") => pointer'["vector"] = g

Doing == {"load", "vector", "lexical", "lexicalPointer", "vectorPointer"}

LEMMA RaisedNot ==
  ASSUME IndexTypeOK, NEW r \in Requests, Shape(r), Raise(r), request[r].gen \in Generations
  PROVE  ~GoesOn(r)
<1>1. request'[r] = AfterError(r)
  BY DEF Raise, IndexTypeOK
<1>2. request'[r].gen = 0
  BY <1>1 DEF AfterError, Idle
<1> QED
  BY <1>2 DEF GoesOn, Generations

LEMMA Indices ==
  ASSUME IndexTypeOK
  PROVE  /\ pointer \in [Indexes -> 0 .. MaxGenerations] /\ generation \in [Generations -> GenerationRecord]
         /\ "vector" \in Indexes /\ "lexical" \in Indexes
         /\ \A r \in Requests : request[r] \in RequestRecord
  BY TypesApart DEF StoresTyped, Indexes

LEMMA StepMoves ==
  ASSUME IndexTypeOK, NEW r \in Requests, Shape(r), RequestNext(r)
  PROVE  PointerMoves(r) /\ GenerationMoves(r) /\ PartDone(r)
<1> USE Indices
<1>0. \A x : At(r, x) => StepOf(r) = x
  BY DEF At, StepOf
<1> USE DEF Doing
<1>1. ASSUME UNCHANGED <<pointer, generation>>, StepOf(r) \notin Doing \/ Raise(r)
      PROVE  PointerMoves(r) /\ GenerationMoves(r) /\ PartDone(r)
  BY <1>0, <1>1, RaisedNot DEF PointerMoves, GenerationMoves, PartDone, Onwards
<1>2. ASSUME UNCHANGED generation, StepOf(r) \notin {"load", "vector", "lexical"}, PointerMoves(r),
             Onwards(r, "lexicalPointer") => pointer'["lexical"] = request[r].gen,
             Onwards(r, "vectorPointer") => pointer'["vector"] = request[r].gen
      PROVE  PointerMoves(r) /\ GenerationMoves(r) /\ PartDone(r)
  BY <1>0, <1>2 DEF GenerationMoves, PartDone, Onwards
<1>3. ASSUME UNCHANGED pointer, GenerationMoves(r), PartDone(r)
      PROVE  PointerMoves(r) /\ GenerationMoves(r) /\ PartDone(r)
  BY <1>3 DEF PointerMoves
<1>4. CASE \E s \in Sources : Register(r, s) \/ AskIndex(r, s) \/ Remove(r, s)
  <2>1. request[r].kind = "none" /\ UNCHANGED <<pointer, generation>>
    BY <1>4 DEF Register, AskIndex, Remove, Begins, InFlight
  <2>2. StepOf(r) = "idle"
    BY <2>1 DEF Shape, Idle, StepOf
  <2> QED
    BY <1>1, <2>1, <2>2
<1>5. CASE Erase(r) \/ Start(r) \/ Describe(r) \/ Crawl(r) \/ SaveDocuments(r) \/ List(r)
           \/ Promise(r) \/ BecomeReady(r) \/ RecordFailure(r) \/ SaveFailed(r) \/ RecordFails(r)
  <2>1. UNCHANGED <<pointer, generation>>
    BY <1>5 DEF Erase, Start, Describe, Crawl, SaveDocuments, List, Promise, BecomeReady, RecordFailure,
       SaveFailed, RecordFails, stores
  <2>2. StepOf(r) \notin Doing
    BY <1>0, <1>5 DEF Erase, Start, Describe, Crawl, SaveDocuments, List, Promise, BecomeReady, RecordFailure,
       SaveFailed, RecordFails
  <2> QED
    BY <1>1, <2>1, <2>2
<1>6. CASE ReadPrevious(r) \/ ReadControl(r) \/ Recovered(r) \/ GoBack(r)
  <2>1. UNCHANGED <<pointer, generation>>
    BY <1>6 DEF ReadPrevious, ReadControl, Recovered, GoBack, stores
  <2>2. StepOf(r) \notin Doing
    BY <1>0, <1>6 DEF ReadPrevious, ReadControl, Recovered, GoBack
  <2> QED
    BY <1>1, <2>1, <2>2
<1>7. CASE StepFails(r)
  BY <1>1, <1>7 DEF StepFails, stores
<1>8. CASE MoveLexical(r) \/ MoveVector(r) \/ VectorFails(r) \/ RestoreLexical(r)
  <2>1. UNCHANGED generation
    BY <1>8 DEF MoveLexical, MoveVector, VectorFails, RestoreLexical
  <2>2. StepOf(r) \notin {"load", "vector", "lexical"}
    BY <1>0, <1>8 DEF MoveLexical, MoveVector, VectorFails, RestoreLexical
  <2>3. PointerMoves(r)
    BY <1>0, <1>8 DEF MoveLexical, MoveVector, VectorFails, RestoreLexical, PointerMoves
  <2>4. Onwards(r, "lexicalPointer") => pointer'["lexical"] = request[r].gen
    <3>1. Onwards(r, "lexicalPointer") => StepOf(r) = "lexicalPointer"
      BY <1>0 DEF Onwards
    <3>2. StepOf(r) = "lexicalPointer" => MoveLexical(r)
      BY <1>0, <1>8 DEF MoveVector, VectorFails, RestoreLexical
    <3> QED
      BY <3>1, <3>2 DEF MoveLexical
  <2>5. Onwards(r, "vectorPointer") => pointer'["vector"] = request[r].gen
    <3>1. Onwards(r, "vectorPointer") => StepOf(r) = "vectorPointer"
      BY <1>0 DEF Onwards
    <3>2. StepOf(r) = "vectorPointer" => MoveVector(r) \/ VectorFails(r)
      BY <1>0, <1>8 DEF MoveLexical, RestoreLexical
    <3>3. ASSUME VectorFails(r), Onwards(r, "vectorPointer")
          PROVE  FALSE
      <4>1. request'[r].left = <<"recover">> /\ deployment' = deployment
        BY <3>3, TypesApart DEF VectorFails
      <4>2. StepOf(r)' = "recover"
        BY <4>1 DEF StepOf
      <4>3. Indexing(r)
        BY <3>3, Where DEF Onwards
      <4>4. Follows("vectorPointer", StepOf(r)')
        BY <3>3, <4>1, <4>3, WentOn DEF Onwards
      <4> QED
        BY <4>2, <4>4 DEF Follows
    <3> QED
      BY <3>1, <3>2, <3>3 DEF MoveVector
  <2> QED
    BY <1>2, <2>1, <2>2, <2>3, <2>4, <2>5
<1>9. CASE Load(r)
  <2>1. UNCHANGED pointer /\ StepOf(r) = "load"
    BY <1>0, <1>9 DEF Load
  <2>2. GenerationMoves(r) /\ (request[r].gen \in Generations => generation'[request[r].gen].sources = request[r].view)
    BY <1>9, <2>1 DEF Load, GenerationMoves, GenerationRecord
  <2> QED
    BY <1>0, <1>3, <2>1, <2>2 DEF PartDone, Onwards
<1>10. ASSUME NEW x \in {"vector", "lexical"}, Write(r, x)
       PROVE  PointerMoves(r) /\ GenerationMoves(r) /\ PartDone(r)
  <2>1. UNCHANGED pointer /\ StepOf(r) = x
        /\ generation' = [generation EXCEPT ![request[r].gen] = MarkPrepared(request[r].gen, x)]
    BY <1>0, <1>10 DEF Write
  <2>2. CASE x = "vector"
    <3>1. GenerationMoves(r) /\ (request[r].gen \in Generations => generation'[request[r].gen].vector = "whole")
      BY <2>1, <2>2 DEF MarkPrepared, GenerationMoves, GenerationRecord
    <3> QED
      BY <1>0, <1>3, <2>1, <2>2, <3>1 DEF PartDone, Onwards
  <2>3. CASE x = "lexical"
    <3>1. GenerationMoves(r) /\ (request[r].gen \in Generations => generation'[request[r].gen].lexical = "whole")
      BY <2>1, <2>3 DEF MarkPrepared, GenerationMoves, GenerationRecord
    <3> QED
      BY <1>0, <1>3, <2>1, <2>3, <3>1 DEF PartDone, Onwards
  <2> QED
    BY <2>2, <2>3
<1>11. ASSUME NEW x \in {"vector", "lexical"}, WriteFails(r, x)
       PROVE  PointerMoves(r) /\ GenerationMoves(r) /\ PartDone(r)
  <2>1. UNCHANGED pointer /\ StepOf(r) = x /\ Raise(r)
        /\ generation' = [generation EXCEPT ![request[r].gen] =
             [generation[request[r].gen] EXCEPT ![x] = "part", !.operation = IF Persistent THEN "failed" ELSE "none"]]
    BY <1>0, <1>11 DEF WriteFails
  <2>2. GenerationMoves(r)
    <3>1. CASE x = "vector"
      <4>1. ASSUME NEW g \in Generations
            PROVE  /\ generation'[g].sources = generation[g].sources
                   /\ g # request[r].gen => generation'[g] = generation[g]
                   /\ generation'[g].lexical = generation[g].lexical
        BY <2>1, <3>1 DEF GenerationRecord
      <4> QED
        BY <2>1, <3>1, <4>1 DEF GenerationMoves
    <3>2. CASE x = "lexical"
      <4>1. ASSUME NEW g \in Generations
            PROVE  /\ generation'[g].sources = generation[g].sources
                   /\ g # request[r].gen => generation'[g] = generation[g]
                   /\ generation'[g].vector = generation[g].vector
        BY <2>1, <3>2 DEF GenerationRecord
      <4> QED
        BY <2>1, <3>2, <4>1 DEF GenerationMoves
    <3> QED
      BY <3>1, <3>2
  <2>3. PartDone(r)
    BY <2>1, RaisedNot DEF PartDone, Onwards
  <2> QED
    BY <1>3, <2>1, <2>2, <2>3
<1>12. CASE CleanUp(r)
  <2>1. UNCHANGED pointer /\ StepOf(r) = "cleanup"
    BY <1>0, <1>12 DEF CleanUp
  <2>2. PICK deleted \in SUBSET Stale(r) : generation' = [g \in Generations |->
          IF g \in deleted THEN [generation[g] EXCEPT !.vector = "gone"] ELSE generation[g]]
    BY <1>12 DEF CleanUp
  <2>3. \A g \in deleted : g = request[r].control /\ g # request[r].gen
    BY <2>2 DEF Stale
  <2>4. GenerationMoves(r)
    BY <2>1, <2>2, <2>3 DEF GenerationMoves, GenerationRecord
  <2>5. PartDone(r)
    BY <1>0, <2>1 DEF PartDone, Onwards
  <2> QED
    BY <1>3, <2>1, <2>4, <2>5
<1>13. CASE Publish(r) \/ PublishFails(r)
  <2>1. StepOf(r) = "publish" /\ (pointer' = pointer \/ pointer' = [x \in Indexes |-> request[r].gen])
    BY <1>0, <1>13 DEF Publish, PublishFails
  <2>2. PICK o : generation' = [generation EXCEPT ![request[r].gen].operation = o]
    BY <1>13 DEF Publish, PublishFails
  <2>3. GenerationMoves(r)
    BY <2>1, <2>2 DEF GenerationMoves, GenerationRecord
  <2>4. PointerMoves(r)
    BY <2>1 DEF PointerMoves
  <2>5. PartDone(r)
    BY <1>0, <2>1 DEF PartDone, Onwards
  <2> QED
    BY <2>3, <2>4, <2>5
<1>14. CASE WriteVectors(r) \/ VectorsFail(r) \/ WriteLexical(r) \/ LexicalFails(r)
  BY <1>10, <1>11, <1>14 DEF WriteVectors, VectorsFail, WriteLexical, LexicalFails
<1> QED
  BY <1>4, <1>5, <1>6, <1>7, <1>8, <1>9, <1>12, <1>13, <1>14 DEF RequestNext

-----------------------------------------------------------------------------
(* What becomes of a request *)

Starts(r) ==
  /\ request[r].kind = "none" /\ StepOf(r)' \in {"start", "list"}
  /\ request'[r].gen = made + 1 /\ made' = made + 1
  /\ request'[r].view = {} /\ request'[r].control = 0 /\ request'[r].previous = 0

Proceeds(r) ==
  /\ Onwards(r, StepOf(r)) /\ made' = made
  /\ Indexing(r) <=> Indexing(r)'
  /\ Indexing(r) => Follows(StepOf(r), StepOf(r)')

GivesUp(r) ==
  /\ made' = made
  /\ request'[r].gen = 0 /\ request'[r].view = {} /\ request'[r].control = 0 /\ request'[r].previous = 0
  /\ Indexing(r)' => StepOf(r)' = "fail"
  /\ request'[r].kind = "ingest" =>
       request[r].kind = "ingest" /\ request'[r].source = request[r].source /\ StepOf(r)' = "fail" /\ Indexing(r)'

Turns(r) ==
  /\ made' = made /\ Indexing(r) /\ Indexing(r)'
  /\ StepOf(r) \in {"control", "vectorPointer", "recover"} /\ StepOf(r)' \in {"recover", "restore"}
  /\ request'[r].kind = request[r].kind /\ request'[r].source = request[r].source
  /\ request'[r].view = request[r].view /\ request'[r].gen = request[r].gen
  /\ request'[r].control = request[r].control /\ request'[r].previous = request[r].previous
  /\ ~Pending(r)'

LEMMA Becomes ==
  ASSUME IndexTypeOK, NEW r \in Requests, Shape(r), RequestNext(r)
  PROVE  Starts(r) \/ Proceeds(r) \/ GivesUp(r) \/ Turns(r)
<1>1. ASSUME NEW s \in Sources, Begin(r, s)
      PROVE  Starts(r)
  BY <1>1, ShapeOfBegin DEF Begin, Starts
<1>2. ASSUME NEW s \in Sources, Remove(r, s)
      PROVE  GivesUp(r)
  <2>1. request'[r] = [Idle EXCEPT !.kind = "remove", !.source = s, !.left = <<"erase">>] /\ made' = made
    BY <1>2, TypesApart DEF Remove
  <2>2. /\ request'[r].kind = "remove" /\ request'[r].view = {} /\ request'[r].gen = 0
        /\ request'[r].control = 0 /\ request'[r].previous = 0
    BY <2>1 DEF Idle
  <2> QED
    BY <2>1, <2>2 DEF GivesUp, Indexing
<1>3. ASSUME Continues(r)
      PROVE  Proceeds(r) \/ GivesUp(r) \/ Turns(r)
  <2>0. deployment' = deployment
    BY Turn
  <2>1. ASSUME NEW x \in StepNames, Onwards(r, x)
        PROVE  Proceeds(r)
    <3>1. StepOf(r) = x
      BY <2>1, Where DEF Onwards
    <3>2. (Indexing(r) <=> Indexing(r)') /\ (Indexing(r) => Follows(x, StepOf(r)'))
      BY <2>0, <2>1, WentOn DEF Onwards
    <3> QED
      BY <1>3, <2>1, <3>1, <3>2 DEF Proceeds, Continues
  <2>2. CASE Finishes(r)
    <3>1. request'[r] = Idle /\ made' = made
      BY <1>3, <2>2 DEF Finishes, Continues
    <3> QED
      BY <3>1, ShapeOfIdle DEF GivesUp, Idle
  <2>3. CASE Raise(r)
    BY <1>3, <2>0, <2>3, ShapeOfError, ShapeOfIdle DEF GivesUp, Continues, Records, Idle
  <2>4. CASE Detours(r)
    <3>1. PICK x \in {"control", "vectorPointer", "recover"}, y \in {"recover", "restore"} :
            At(r, x) /\ request' = [request EXCEPT ![r].left = <<y>>]
      BY <2>4 DEF Detours
    <3>2. StepOf(r) = x
      BY <3>1, Where
    <3> QED
      BY <1>3, <2>0, <3>1, <3>2, ShapeOfDetour DEF Turns, Continues
  <2> QED
    BY <1>3, <2>1, <2>2, <2>3, <2>4 DEF Continues
<1> QED
  BY <1>1, <1>2, <1>3, Turn

-----------------------------------------------------------------------------
(* Generations are whole where they are named *)

LEMMA Sizes ==
  ASSUME IndexTypeOK
  PROVE  /\ made \in Nat /\ made <= MaxGenerations /\ MaxGenerations \in Nat
         /\ \A r \in Requests : request[r].gen \in Nat /\ request[r].control \in Nat /\ request[r].previous \in Nat
         /\ pointer["vector"] \in Nat /\ pointer["lexical"] \in Nat
  BY TypesApart, IndexingAssumption DEF RequestRecord, StoresTyped, Indexes

\* The numbers that requests and pointers hold are those of generations, or 0.
LEMMA SavedNumbers ==
  ASSUME IndexTypeOK
  PROVE  /\ MaxGenerations \in Nat
         /\ \A r \in Requests : request[r].previous \in 0 .. MaxGenerations
         /\ pointer["lexical"] \in 0 .. MaxGenerations
<1>1. \A r \in Requests : request[r] \in RequestRecord
  BY Indices
<1>2. pointer \in [Indexes -> 0 .. MaxGenerations] /\ "lexical" \in Indexes
  BY Indices
<1>3. \A r \in Requests : request[r].previous \in 0 .. MaxGenerations
  BY <1>1 DEF RequestRecord
<1>4. pointer["lexical"] \in 0 .. MaxGenerations
  BY <1>2
<1> QED
  BY <1>3, <1>4, Sizes

LEMMA NumbersGrow ==
  ASSUME IndexTypeOK, NEW r \in Requests, Shape(r), RequestNext(r), Numbered
  PROVE  /\ made' \in {made, made + 1}
         /\ request'[r].gen \in {0, request[r].gen} \/ (request'[r].gen = made + 1 /\ made' = made + 1)
         /\ request'[r].control \in {0, request[r].control, pointer["vector"]}
         /\ request'[r].previous \in {0, request[r].previous, pointer["lexical"]}
         /\ Indexing(r)' => (StepOf(r)' \in Failing <=> request'[r].gen = 0)
<1>1. CASE Starts(r)
  BY <1>1, Sizes DEF Starts, Failing
<1>2. CASE Proceeds(r)
  <2>1. Indexing(r)' => (StepOf(r)' \in Failing <=> StepOf(r) \in Failing)
    BY <1>2 DEF Proceeds, Follows, Failing
  <2> QED
    BY <1>2, <2>1 DEF Proceeds, Onwards, GoesOn, Numbered
<1>3. CASE GivesUp(r)
  BY <1>3 DEF GivesUp, Failing
<1>4. CASE Turns(r)
  BY <1>4 DEF Turns, Failing, Numbered
<1> QED
  BY <1>1, <1>2, <1>3, <1>4, Becomes

LEMMA NumberedStep ==
  ASSUME Well, NEW r \in Requests, RequestNext(r), Numbered
  PROVE  Numbered'
<1> USE DEF Well, Shapes
<1>1. Others(r) /\ deployment' = deployment
  BY Turn
<1>2. /\ made' \in {made, made + 1}
      /\ request'[r].gen \in {0, request[r].gen} \/ (request'[r].gen = made + 1 /\ made' = made + 1)
      /\ request'[r].control \in {0, request[r].control, pointer["vector"]}
      /\ request'[r].previous \in {0, request[r].previous, pointer["lexical"]}
      /\ Indexing(r)' => (StepOf(r)' \in Failing <=> request'[r].gen = 0)
  BY NumbersGrow
<1>3. PointerMoves(r)
  BY StepMoves
<1>4. ASSUME NEW q \in Requests
      PROVE  /\ request'[q].gen <= made' /\ request'[q].previous <= made' /\ request'[q].control <= made'
             /\ Indexing(q)' => (StepOf(q)' \in Failing <=> request'[q].gen = 0)
  <2>1. CASE q = r
    BY <1>2, <2>1, Sizes DEF Numbered, Indexes
  <2>2. CASE q # r
    <3>1. request'[q] = request[q] /\ (Indexing(q) <=> Indexing(q)') /\ StepOf(q)' = StepOf(q)
      BY <1>1, <2>2, Stays
    <3> QED
      BY <1>2, <3>1, Sizes DEF Numbered
  <2> QED
    BY <2>1, <2>2
<1>5. ASSUME NEW p \in Requests, NEW q \in Requests, request'[p].gen = request'[q].gen, request'[p].gen # 0
      PROVE  p = q
  <2>1. \A o \in Requests \ {r} : request'[o] = request[o]
    BY <1>1 DEF Others
  <2>2. \A o \in Requests : request[o].gen # made + 1
    BY Sizes DEF Numbered
  <2> QED
    BY <1>2, <1>5, <2>1, <2>2 DEF Numbered
<1>6. pointer'["vector"] <= made' /\ pointer'["lexical"] <= made'
  BY <1>2, <1>3, Sizes DEF PointerMoves, Numbered, Indexes
<1> QED
  BY <1>4, <1>5, <1>6 DEF Numbered, Indexes

\* A generation that a request of its own is still working on.
LEMMA OwnGeneration ==
  ASSUME IndexTypeOK, Numbered, NEW r \in Requests, Indexing(r), StepOf(r) \notin Failing
  PROVE  request[r].gen \in Generations /\ request[r].gen # 0
  BY Sizes DEF Numbered, Generations

Sets == VectorsThere \cup LexicalThere \cup Loaded \cup VectorsUnmoved \cup LexicalUnmoved

LEMMA SetsAreWork == Sets \cap Failing = {} /\ "idle" \notin Sets /\ "erase" \notin Sets
  BY DEF Sets, VectorsThere, LexicalThere, Loaded, VectorsUnmoved, LexicalUnmoved, Failing

\* What a request moves and writes has its own number, or nobody else's.
LEMMA Footprint ==
  ASSUME Well, Building, NEW r \in Requests, RequestNext(r),
         NEW q \in Requests, q # r, Indexing(q), StepOf(q) \notin Failing
  PROVE  LET g == request[q].gen IN
         /\ generation'[g].sources = generation[g].sources
         /\ generation'[g].lexical = generation[g].lexical
         /\ StepOf(q) \in VectorsUnmoved =>
              /\ generation'[g].vector = generation[g].vector
              /\ pointer'["vector"] # g /\ request'[r].control # g
         /\ StepOf(q) \in LexicalUnmoved => pointer'["lexical"] # g /\ request'[r].previous # g
<1> DEFINE g == request[q].gen
<1> USE DEF Well, Shapes
<1>1. g \in Generations /\ g # 0 /\ g # request[r].gen
  BY OwnGeneration DEF Building, Numbered
<1>2. PointerMoves(r) /\ GenerationMoves(r)
  BY StepMoves
<1>3. /\ request'[r].control \in {0, request[r].control, pointer["vector"]}
      /\ request'[r].previous \in {0, request[r].previous, pointer["lexical"]}
  BY NumbersGrow DEF Building
<1>4. HasBuilt(q)
  BY DEF Building
<1>5. /\ generation'[g].sources = generation[g].sources
      /\ generation'[g].lexical = generation[g].lexical
      /\ generation'[g].vector = generation[g].vector \/ g = request[r].control
  BY <1>1, <1>2 DEF GenerationMoves
<1>6. ASSUME StepOf(q) \in VectorsUnmoved
      PROVE  generation'[g].vector = generation[g].vector /\ pointer'["vector"] # g /\ request'[r].control # g
  BY <1>1, <1>2, <1>3, <1>4, <1>5, <1>6 DEF HasBuilt, PointerMoves
<1>7. ASSUME StepOf(q) \in LexicalUnmoved
      PROVE  pointer'["lexical"] # g /\ request'[r].previous # g
  BY <1>1, <1>2, <1>3, <1>4, <1>7 DEF HasBuilt, PointerMoves
<1> QED
  BY <1>5, <1>6, <1>7

LEMMA OthersBuild ==
  ASSUME Well, Building, NEW r \in Requests, RequestNext(r), NEW q \in Requests, q # r, Indexing(q)'
  PROVE  HasBuilt(q)'
<1> USE DEF Well, Shapes
<1>1. /\ request'[q] = request[q] /\ (Indexing(q) <=> Indexing(q)') /\ StepOf(q)' = StepOf(q)
      /\ \A p \in Requests \ {r} : request'[p] = request[p]
  BY Turn, Stays DEF Others
<1>2. CASE StepOf(q) \in Failing
  BY <1>1, <1>2, SetsAreWork DEF HasBuilt, Sets
<1>3. CASE StepOf(q) \notin Failing
  <2>1. HasBuilt(q)
    BY <1>1 DEF Building
  <2>2. LET g == request[q].gen IN
        /\ generation'[g].sources = generation[g].sources
        /\ generation'[g].lexical = generation[g].lexical
        /\ StepOf(q) \in VectorsUnmoved =>
             /\ generation'[g].vector = generation[g].vector
             /\ pointer'["vector"] # g /\ request'[r].control # g
        /\ StepOf(q) \in LexicalUnmoved => pointer'["lexical"] # g /\ request'[r].previous # g
    BY <1>1, <1>3, Footprint
  <2>3. VectorsThere \subseteq VectorsUnmoved
    BY DEF VectorsUnmoved
  <2> QED
    BY <1>1, <2>1, <2>2, <2>3 DEF HasBuilt
<1> QED
  BY <1>2, <1>3

LEMMA OneBuilds ==
  ASSUME Well, Building, NEW r \in Requests, RequestNext(r), Indexing(r)'
  PROVE  HasBuilt(r)'
<1> USE DEF Well, Shapes
<1>1. /\ \A p \in Requests \ {r} : request'[p] = request[p]
      /\ PointerMoves(r) /\ GenerationMoves(r) /\ PartDone(r)
  BY Turn, StepMoves DEF Others
<1>2. CASE Starts(r)
  <2>1. request'[r].gen = made + 1 /\ StepOf(r)' \in {"start", "list"} /\ request[r].kind = "none"
        /\ request'[r].control = 0 /\ request'[r].previous = 0
    BY <1>2 DEF Starts
  <2>2. StepOf(r) = "idle"
    BY <2>1 DEF Shape, Idle, StepOf
  <2>3. pointer'["vector"] # made + 1 /\ pointer'["lexical"] # made + 1
    BY <1>1, <2>2, Sizes DEF PointerMoves, Building, Numbered, Indexes
  <2>4. \A p \in Requests : request'[p].control # made + 1 /\ request'[p].previous # made + 1
    BY <1>1, <2>1, Sizes DEF Building, Numbered
  <2> QED
    BY <2>1, <2>3, <2>4 DEF HasBuilt, VectorsThere, LexicalThere, Loaded
<1>3. CASE GivesUp(r)
  BY <1>3 DEF GivesUp, HasBuilt, VectorsThere, LexicalThere, Loaded, VectorsUnmoved, LexicalUnmoved
<1>4. CASE Turns(r)
  <2>1. /\ HasBuilt(r) /\ request'[r].gen = request[r].gen /\ request'[r].view = request[r].view
        /\ StepOf(r) \in {"control", "vectorPointer", "recover"} /\ StepOf(r)' \in {"recover", "restore"}
        /\ request[r].gen \in Generations
    BY <1>4, OwnGeneration DEF Turns, Building, Failing
  <2>2. /\ generation'[request[r].gen].lexical = generation[request[r].gen].lexical
        /\ generation'[request[r].gen].sources = generation[request[r].gen].sources
    BY <1>1, <2>1 DEF GenerationMoves
  <2> QED
    BY <2>1, <2>2 DEF HasBuilt, VectorsThere, LexicalThere, Loaded, VectorsUnmoved, LexicalUnmoved
<1>5. CASE Proceeds(r)
  <2> DEFINE g == request[r].gen
             x == StepOf(r)
             y == StepOf(r)'
  <2>1. /\ Indexing(r) /\ Follows(x, y) /\ HasBuilt(r) /\ Onwards(r, x)
        /\ request'[r].gen = g
    BY <1>5 DEF Proceeds, Building, Onwards, GoesOn
  <2>2. CASE x \in Failing
    <3>1. y \in Failing
      BY <2>1, <2>2 DEF Follows, Failing
    <3> QED
      BY <3>1, SetsAreWork DEF HasBuilt, Sets
  <2>3. CASE x \notin Failing
    <3>1. g \in Generations /\ g # 0
      BY <2>1, <2>3, OwnGeneration DEF Building
    <3>2. ASSUME y \in VectorsThere
          PROVE  generation'[g].vector = "whole"
      <4>1. CASE x = "vector"
        BY <1>1, <2>1, <3>1, <4>1 DEF PartDone
      <4>2. CASE x # "vector"
        <5>1. x \in VectorsThere /\ x \in VectorsUnmoved /\ x # "cleanup"
          BY <2>1, <3>2, <4>2 DEF Follows, VectorsThere, VectorsUnmoved
        <5> QED
          BY <1>1, <2>1, <3>1, <4>2, <5>1 DEF HasBuilt, GenerationMoves
      <4> QED
        BY <4>1, <4>2
    <3>3. ASSUME y \in LexicalThere
          PROVE  generation'[g].lexical = "whole"
      <4>1. CASE x = "lexical"
        BY <1>1, <2>1, <3>1, <4>1 DEF PartDone
      <4>2. CASE x # "lexical"
        <5>1. x \in LexicalThere
          BY <2>1, <3>3, <4>2 DEF Follows, LexicalThere
        <5> QED
          BY <1>1, <2>1, <3>1, <4>2, <5>1 DEF HasBuilt, GenerationMoves
      <4> QED
        BY <4>1, <4>2
    <3>4. ASSUME y \in Loaded
          PROVE  generation'[g].sources = request'[r].view
      <4>1. x # "list" /\ request'[r].view = request[r].view
        BY <2>1, <3>4 DEF Follows, Loaded, Onwards
      <4>2. CASE x = "load"
        BY <1>1, <2>1, <3>1, <4>1, <4>2 DEF PartDone
      <4>3. CASE x # "load"
        <5>1. x \in Loaded
          BY <2>1, <3>4, <4>3 DEF Follows, Loaded
        <5> QED
          BY <1>1, <2>1, <3>1, <4>1, <4>3, <5>1 DEF HasBuilt, GenerationMoves
      <4> QED
        BY <4>2, <4>3
    <3>5. ASSUME y \in VectorsUnmoved
          PROVE  pointer'["vector"] # g /\ \A p \in Requests : request'[p].control # g
      <4>1. x \in VectorsUnmoved /\ x # "vectorPointer" /\ x # "publish"
        BY <2>1, <3>5 DEF Follows, VectorsUnmoved, VectorsThere
      <4>2. pointer'["vector"] = pointer["vector"]
        BY <1>1, <4>1 DEF PointerMoves
      <4>3. request'[r].control \in {request[r].control, pointer["vector"]}
        BY <2>1 DEF Onwards
      <4> QED
        BY <1>1, <2>1, <4>1, <4>2, <4>3 DEF HasBuilt
    <3>6. ASSUME y \in LexicalUnmoved
          PROVE  pointer'["lexical"] # g /\ \A p \in Requests : request'[p].previous # g
      <4>1. x \in LexicalUnmoved /\ x # "lexicalPointer" /\ x # "publish" /\ x # "restore"
        BY <2>1, <3>6 DEF Follows, LexicalUnmoved, VectorsUnmoved, VectorsThere
      <4>2. pointer'["lexical"] = pointer["lexical"]
        BY <1>1, <4>1 DEF PointerMoves
      <4>3. request'[r].previous \in {request[r].previous, pointer["lexical"]}
        BY <2>1 DEF Onwards
      <4> QED
        BY <1>1, <2>1, <4>1, <4>2, <4>3 DEF HasBuilt
    <3> QED
      BY <2>1, <3>2, <3>3, <3>4, <3>5, <3>6 DEF HasBuilt
  <2> QED
    BY <2>2, <2>3
<1> QED
  BY <1>2, <1>3, <1>4, <1>5, Becomes

\* A request that is past its first step, and not being erased, builds a generation.
LEMMA Works ==
  ASSUME IndexTypeOK, NEW r \in Requests, Shape(r), StepOf(r) \notin {"idle", "start", "ready", "erase"}
  PROVE  Indexing(r)
<1>1. request[r].left # <<>> /\ At(r, StepOf(r))
  BY DEF StepOf, At
<1> QED
  BY <1>1, Where

LEMMA WorksNext ==
  ASSUME NEW r \in Requests, Shape(r)', request'[r] \in RequestRecord,
         StepOf(r)' \notin {"idle", "start", "ready", "erase"}
  PROVE  Indexing(r)'
<1>1. request'[r].kind \in {"none", "ingest", "index", "remove"}
  BY DEF RequestRecord
<1>2. request'[r].kind # "none"
  BY DEF Shape, Idle, StepOf
<1>3. request'[r].kind # "remove"
  <2>1. request'[r].left = <<"erase">> => StepOf(r)' = "erase"
    BY DEF StepOf
  <2> QED
    BY <2>1 DEF Shape
<1>4. ~IsDatabase(r)'
  <2>1. request'[r].left = <<"start", "ready">> => StepOf(r)' = "start"
    BY DEF StepOf
  <2>2. request'[r].left = <<"ready">> => StepOf(r)' = "ready"
    BY DEF StepOf
  <2> QED
    BY <2>1, <2>2 DEF Shape
<1> QED
  BY <1>1, <1>2, <1>3, <1>4 DEF Indexing

\* The pointers name what their requests built.
LEMMA WholeStep ==
  ASSUME Well, Building, NEW r \in Requests, RequestNext(r)
  PROVE  PointersWhole'
<1> USE DEF Well, Shapes
<1> USE Indices, Sizes
<1>1. PointerMoves(r) /\ GenerationMoves(r)
  BY StepMoves
<1>2. ASSUME StepOf(r) \in {"load", "vector", "lexical", "lexicalPointer", "vectorPointer", "publish", "cleanup", "restore"}
      PROVE  Indexing(r) /\ HasBuilt(r) /\ request[r].gen \in Generations
  <2>1. Indexing(r)
    BY <1>2, Works
  <2> QED
    BY <1>2, <2>1, OwnGeneration DEF Building, Failing
<1>3. \A g \in 1 .. MaxGenerations : g \in Generations
  BY DEF Generations
<1>4. ASSUME pointer'["vector"] # 0
      PROVE  generation'[pointer'["vector"]].vector = "whole"
  <2>1. CASE pointer'["vector"] = pointer["vector"]
    <3>1. pointer["vector"] \in Generations /\ generation[pointer["vector"]].vector = "whole"
      BY <1>3, <1>4, <2>1 DEF Building, PointersWhole
    <3>2. StepOf(r) = "vector" => pointer["vector"] # request[r].gen
      BY <1>2 DEF HasBuilt, VectorsUnmoved
    <3>3. StepOf(r) = "cleanup" => pointer["vector"] # request[r].control
      BY DEF Building, Returns
    <3> QED
      BY <1>1, <2>1, <3>1, <3>2, <3>3 DEF GenerationMoves
  <2>2. CASE StepOf(r) \in {"vectorPointer", "publish"} /\ pointer'["vector"] = request[r].gen
    <3>1. generation[request[r].gen].vector = "whole" /\ request[r].gen \in Generations
      BY <1>2, <2>2 DEF HasBuilt, VectorsThere
    <3> QED
      BY <1>1, <2>2, <3>1 DEF GenerationMoves
  <2> QED
    BY <1>1, <2>1, <2>2 DEF PointerMoves
<1>5. ASSUME pointer'["lexical"] # 0
      PROVE  generation'[pointer'["lexical"]].lexical = "whole"
  <2>1. CASE pointer'["lexical"] = pointer["lexical"]
    <3>1. pointer["lexical"] \in Generations /\ generation[pointer["lexical"]].lexical = "whole"
      BY <1>3, <1>5, <2>1 DEF Building, PointersWhole
    <3>2. StepOf(r) = "lexical" => pointer["lexical"] # request[r].gen
      BY <1>2 DEF HasBuilt, LexicalUnmoved, VectorsUnmoved, VectorsThere
    <3> QED
      BY <1>1, <2>1, <3>1, <3>2 DEF GenerationMoves
  <2>2. CASE StepOf(r) \in {"lexicalPointer", "publish"} /\ pointer'["lexical"] = request[r].gen
    <3>1. generation[request[r].gen].lexical = "whole" /\ request[r].gen \in Generations
      BY <1>2, <2>2 DEF HasBuilt, LexicalThere
    <3> QED
      BY <1>1, <2>2, <3>1 DEF GenerationMoves
  <2>3. CASE StepOf(r) = "restore" /\ pointer'["lexical"] = request[r].previous
    <3>1. generation[request[r].previous].lexical = "whole" /\ request[r].previous \in Generations
      <4>1. request[r].previous \in 1 .. MaxGenerations
        BY <1>5, <2>3 DEF RequestRecord
      <4> QED
        BY <1>3, <1>5, <2>3, <4>1 DEF Building, Returns
    <3> QED
      BY <1>1, <2>3, <3>1 DEF GenerationMoves
  <2> QED
    BY <1>1, <2>1, <2>2, <2>3 DEF PointerMoves
<1> QED
  BY <1>4, <1>5 DEF PointersWhole, Indexes

\* What a request goes back to stays, and what it deletes is not active.
LEMMA ReturnsStep ==
  ASSUME Well, Building, NEW r \in Requests, RequestNext(r), NEW q \in Requests
  PROVE  Returns(q)'
<1> USE DEF Well, Shapes
<1> USE Indices, Sizes
<1>1. PointerMoves(r) /\ GenerationMoves(r) /\ PartDone(r) /\ Others(r) /\ deployment' = deployment /\ Shape(r)'
  BY StepMoves, Turn
<1>2. ASSUME StepOf(r) \in {"lexical", "vectorPointer", "publish"}
      PROVE  Indexing(r) /\ HasBuilt(r) /\ request[r].gen \in Generations
  <2>1. Indexing(r)
    BY <1>2, Works
  <2> QED
    BY <1>2, <2>1, OwnGeneration DEF Building, Failing
<1>3. \A p \in Requests : request'[p].previous \in {0, request[p].previous, pointer["lexical"]}
  BY <1>1, NumbersGrow DEF Others, Building
<1>4. ASSUME request'[q].previous # 0
      PROVE  generation'[request'[q].previous].lexical = "whole"
  <2> DEFINE p == request'[q].previous
  <2>1. p \in Generations
    <3>1. request[q].previous \in 0 .. MaxGenerations /\ pointer["lexical"] \in 0 .. MaxGenerations
      BY SavedNumbers
    <3>2. p \in {0, request[q].previous, pointer["lexical"]} /\ p # 0
      BY <1>3, <1>4
    <3> HIDE DEF p
    <3> QED
      BY <3>1, <3>2, SavedNumbers DEF Generations
  <2>2. generation[p].lexical = "whole"
    BY <1>3, <1>4, <2>1 DEF Building, Returns, PointersWhole, Indexes
  <2>3. StepOf(r) = "lexical" => p # request[r].gen
    <3>1. StepOf(r) = "lexical" => /\ pointer["lexical"] # request[r].gen
                                   /\ request[q].previous # request[r].gen
                                   /\ request[r].gen # 0
      BY <1>2 DEF HasBuilt, LexicalUnmoved, VectorsUnmoved, VectorsThere, Generations
    <3> QED
      BY <1>3, <3>1
  <2> QED
    BY <1>1, <2>1, <2>2, <2>3 DEF GenerationMoves
<1>5. ASSUME StepOf(q)' = "cleanup"
      PROVE  request'[q].control # pointer'["vector"]
  <2>1. CASE q = r
    <3>1. Indexing(r)'
      <4>1. request'[r] \in RequestRecord
        BY RequestTypes
      <4> QED
        BY <1>1, <1>5, <2>1, <4>1, WorksNext
    <3>2. Proceeds(r)
      BY <1>5, <2>1, <3>1, Becomes DEF Starts, GivesUp, Turns
    <3>3. StepOf(r) = "vectorPointer"
      BY <1>5, <2>1, <3>1, <3>2 DEF Proceeds, Follows
    <3>4. HasBuilt(r) /\ request[r].gen \in Generations
      BY <1>2, <3>3
    <3>5. request'[r].control = request[r].control /\ Onwards(r, "vectorPointer")
      BY <3>2, <3>3 DEF Proceeds, Onwards
    <3>6. request[r].control # request[r].gen
      BY <3>3, <3>4 DEF HasBuilt, VectorsUnmoved, VectorsThere
    <3> QED
      BY <1>1, <2>1, <3>4, <3>5, <3>6 DEF PartDone
  <2>2. CASE q # r
    <3>1. request'[q] = request[q] /\ StepOf(q)' = StepOf(q)
      BY <1>1, <2>2, Stays
    <3>2. request[q].control # pointer["vector"]
      BY <1>5, <3>1 DEF Building, Returns
    <3>3. StepOf(r) \in {"vectorPointer", "publish"} => request[q].control # request[r].gen
      BY <1>2 DEF HasBuilt, VectorsUnmoved, VectorsThere
    <3> QED
      BY <1>1, <3>1, <3>2, <3>3 DEF PointerMoves
  <2> QED
    BY <2>1, <2>2
<1> QED
  BY <1>4, <1>5 DEF Returns

LEMMA BuildingInit == IndexInit => Building
<1> SUFFICES ASSUME IndexInit
             PROVE  Building
  OBVIOUS
<1>1. \A r \in Requests : request[r] = Idle
  BY DEF IndexInit
<1>2. /\ \A r \in Requests : ~Indexing(r) /\ StepOf(r) = "idle" /\ request[r].gen = 0 /\ request[r].previous = 0
                             /\ request[r].control = 0
      /\ made = 0 /\ \A x \in Indexes : pointer[x] = 0
  BY <1>1 DEF IndexInit, Indexing, IsDatabase, StepOf, Idle
<1> QED
  BY <1>2 DEF Building, Numbered, Returns, PointersWhole

LEMMA BuildingStep == Well /\ Building /\ [IndexNext]_indexVars => Building'
<1> SUFFICES ASSUME Well, Building, [IndexNext]_indexVars
             PROVE  Building'
  OBVIOUS
<1>1. ASSUME NEW r \in Requests, RequestNext(r)
      PROVE  Building'
  <2>1. Numbered' /\ PointersWhole'
    BY <1>1, NumberedStep, WholeStep DEF Building
  <2>2. \A q \in Requests : Indexing(q)' => HasBuilt(q)'
    BY <1>1, OneBuilds, OthersBuild
  <2>3. \A q \in Requests : Returns(q)'
    BY <1>1, ReturnsStep
  <2> QED
    BY <2>1, <2>2, <2>3 DEF Building
<1>2. CASE Restart
  <2>1. /\ \A r \in Requests : request'[r] = Idle /\ ~Indexing(r)' /\ StepOf(r)' = "idle"
        /\ made' = made /\ pointer' = pointer /\ generation' = generation
    BY <1>2, RestartIdle DEF Restart, Well
  <2>2. \A r \in Requests : request'[r].gen = 0 /\ request'[r].previous = 0 /\ request'[r].control = 0
    BY <2>1 DEF Idle
  <2>3. Numbered'
    BY <2>1, <2>2, Sizes DEF Numbered, Building, Well, Indexes
  <2>4. PointersWhole'
    BY <2>1 DEF Building, PointersWhole
  <2> QED
    BY <2>1, <2>2, <2>3, <2>4 DEF Building, Returns
<1>3. CASE UNCHANGED indexVars
  <2>1. UNCHANGED <<deployment, generation, pointer, made, request>>
    BY <1>3 DEF indexVars, stores
  <2>2. Numbered' /\ PointersWhole'
    BY <2>1 DEF Building, Numbered, PointersWhole, Indexing, IsDatabase, StepOf
  <2>3. \A r \in Requests : (Indexing(r)' => HasBuilt(r)') /\ Returns(r)'
    BY <2>1 DEF Building, HasBuilt, Returns, Indexing, IsDatabase, StepOf
  <2> QED
    BY <2>2, <2>3 DEF Building
<1> QED
  BY <1>1, <1>2, <1>3 DEF IndexNext

-----------------------------------------------------------------------------
(* Activations *)

Active == {"lexicalPointer", "control", "vectorPointer", "recover", "restore"}

LEMMA ActiveSteps == \A r \in Requests : (Activating(r) <=> StepOf(r) \in Active)
  BY DEF Activating, StepOf, Active

LEMMA ActiveNext == \A r \in Requests : (Activating(r)' <=> StepOf(r)' \in Active)
  BY DEF Activating, StepOf, Active

\* A hosted deployment has a coordinator, and activates nothing of its own.
LEMMA NoneActive ==
  ASSUME IndexTypeOK, NEW r \in Requests, Shape(r), Activating(r)
  PROVE  ~Persistent /\ Indexing(r) /\ At(r, StepOf(r)) /\ StepOf(r) \in Active
<1>1. StepOf(r) \in Active
  BY ActiveSteps
<1>2. At(r, StepOf(r)) /\ Indexing(r)
  BY <1>1, Works DEF Active, At, StepOf
<1>3. StepOf(r) \in Steps
  BY <1>2, Where
<1> QED
  BY <1>1, <1>2, <1>3 DEF Steps, Active

Calm(r) ==
  /\ ~Activating(r) /\ ~Activating(r)' /\ alone' = alone /\ torn' = torn
  /\ pointer' = pointer \/ (Persistent /\ pointer'["vector"] = pointer'["lexical"])

Enters(r) ==
  LET others == \E q \in Requests \ {r} : Activating(q) IN
  /\ ~Activating(r) /\ StepOf(r)' = "lexicalPointer" /\ request'[r].previous = pointer["lexical"]
  /\ pointer' = pointer /\ alone' = (IF others THEN Nobody ELSE r) /\ torn' = (torn \/ others)

Inner(r) ==
  LET x == StepOf(r)
      y == StepOf(r)'
  IN
  /\ alone' = alone /\ (torn => torn')
  /\ request'[r].gen = request[r].gen /\ request'[r].previous = request[r].previous
  /\ \/ /\ x = "lexicalPointer" /\ y \in {"control", "vectorPointer"}
        /\ pointer'["lexical"] = request[r].gen /\ pointer'["vector"] = pointer["vector"]
     \/ x = "control" /\ y = "vectorPointer" /\ pointer' = pointer
     \/ /\ x \in {"control", "vectorPointer"} /\ y = "recover"
        /\ pointer'["lexical"] = pointer["lexical"] /\ pointer'["vector"] \in {pointer["vector"], request[r].gen}
     \/ x = "recover" /\ y = "restore" /\ pointer' = pointer /\ (~torn' => ~Moved(r))

Leaves(r) ==
  LET x == StepOf(r) IN
  /\ ~Activating(r)' /\ Ends(r)
  /\ \/ x = "lexicalPointer" /\ pointer' = pointer /\ torn' = torn
     \/ /\ x = "vectorPointer" /\ torn' = (torn /\ alone # r)
        /\ pointer'["vector"] = request[r].gen /\ pointer'["lexical"] = pointer["lexical"]
     \/ x = "recover" /\ torn' = (torn /\ alone # r) /\ pointer' = pointer /\ Moved(r)
     \/ /\ x = "restore" /\ (torn => torn')
        /\ pointer'["vector"] = pointer["vector"] /\ (~torn' => pointer'["lexical"] = request[r].previous)

\* Only the step that remembers the lexical index begins an activation.
LEMMA StaysCalm ==
  ASSUME Well, NEW r \in Requests, RequestNext(r), StepOf(r) \notin Active \cup {"previous"}
  PROVE  ~Activating(r)'
<1> USE DEF Well, Shapes
<1> SUFFICES ASSUME StepOf(r)' \in Active
             PROVE  FALSE
  BY ActiveNext
<1>1. Indexing(r)'
  <2>1. request'[r] \in RequestRecord /\ Shape(r)'
    BY RequestTypes, Turn
  <2> QED
    BY <2>1, WorksNext DEF Active
<1>2. CASE Starts(r)
  BY <1>2 DEF Starts, Active
<1>3. CASE Proceeds(r)
  BY <1>1, <1>3 DEF Proceeds, Follows, Active
<1>4. CASE GivesUp(r)
  BY <1>1, <1>4 DEF GivesUp, Active
<1>5. CASE Turns(r)
  BY <1>5 DEF Turns, Active
<1> QED
  BY <1>2, <1>3, <1>4, <1>5, Becomes

LEMMA RaiseCalm ==
  ASSUME Well, NEW r \in Requests, RequestNext(r), NEW x, At(r, x), Raise(r)
  PROVE  ~Activating(r)'
<1> USE DEF Well, Shapes
<1>1. request[r].kind # "none" /\ deployment' = deployment
  BY Where, Turn
<1>2. StepOf(r)' \in {"idle", "fail"}
  BY <1>1, ShapeOfError, ShapeOfIdle
<1> QED
  BY <1>2, ActiveNext DEF Active

LEMMA Activity ==
  ASSUME Well, Alone, NEW r \in Requests, RequestNext(r)
  PROVE  Calm(r) \/ Enters(r) \/ Inner(r) \/ Leaves(r)
<1> USE DEF Well, Shapes
<1> USE Indices
<1> DEFINE Result == Calm(r) \/ Enters(r) \/ Inner(r) \/ Leaves(r)
<1>0. \A x : At(r, x) => StepOf(r) = x
  BY DEF At, StepOf
<1>1. deployment' = deployment /\ (Activating(r) <=> StepOf(r) \in Active)
  BY Turn, ActiveSteps
<1>2. ASSUME UNCHANGED <<pointer, alone, torn>>, StepOf(r) \notin Active \cup {"previous"}
      PROVE  Result
  BY <1>1, <1>2, StaysCalm DEF Calm
<1>3. ASSUME UNCHANGED <<pointer, alone, torn>>, Raise(r), NEW x, At(r, x), x \notin Active
      PROVE  Result
  BY <1>0, <1>1, <1>3, RaiseCalm DEF Calm
<1>4. CASE \E s \in Sources : Register(r, s) \/ AskIndex(r, s) \/ Remove(r, s)
  <2>1. request[r].kind = "none" /\ UNCHANGED <<pointer, alone, torn>>
    BY <1>4 DEF Register, AskIndex, Remove, Begins, InFlight, histories
  <2>2. StepOf(r) = "idle"
    BY <2>1 DEF Shape, Idle, StepOf
  <2> QED
    BY <1>2, <2>1, <2>2 DEF Active
<1>5. CASE Erase(r) \/ Start(r) \/ Describe(r) \/ Crawl(r) \/ SaveDocuments(r) \/ List(r) \/ Load(r)
           \/ Promise(r) \/ BecomeReady(r) \/ RecordFailure(r) \/ SaveFailed(r) \/ RecordFails(r)
  <2>1. UNCHANGED <<pointer, alone, torn>>
    BY <1>5 DEF Erase, Start, Describe, Crawl, SaveDocuments, List, Load, Promise, BecomeReady, RecordFailure,
       SaveFailed, RecordFails, stores, histories
  <2>2. StepOf(r) \notin Active \cup {"previous"}
    BY <1>0, <1>5 DEF Erase, Start, Describe, Crawl, SaveDocuments, List, Load, Promise, BecomeReady,
       RecordFailure, SaveFailed, RecordFails, Active
  <2> QED
    BY <1>2, <2>1, <2>2
<1>6. CASE WriteVectors(r) \/ VectorsFail(r) \/ WriteLexical(r) \/ LexicalFails(r) \/ CleanUp(r)
  <2>1. UNCHANGED <<pointer, alone, torn>>
    BY <1>6 DEF WriteVectors, VectorsFail, WriteLexical, LexicalFails, CleanUp, Write, WriteFails, histories
  <2>2. StepOf(r) \notin Active \cup {"previous"}
    BY <1>0, <1>6 DEF WriteVectors, VectorsFail, WriteLexical, LexicalFails, CleanUp, Write, WriteFails, Active
  <2> QED
    BY <1>2, <2>1, <2>2
<1>7. CASE Publish(r) \/ PublishFails(r)
  <2>1. UNCHANGED <<alone, torn>> /\ StepOf(r) = "publish"
        /\ (pointer' = pointer \/ pointer' = [x \in Indexes |-> request[r].gen])
    BY <1>0, <1>7 DEF Publish, PublishFails, histories
  <2>2. Persistent
    <3>1. Indexing(r)
      BY <2>1, Works
    <3>2. "publish" \in Steps
      <4>1. At(r, "publish")
        BY <1>7 DEF Publish, PublishFails
      <4> QED
        BY <3>1, <4>1, Where
    <3> QED
      BY <3>2 DEF Steps
  <2>3. ~Activating(r) /\ ~Activating(r)'
    BY <1>1, <2>1, StaysCalm DEF Active
  <2> QED
    BY <2>1, <2>2, <2>3 DEF Calm
<1>8. CASE ReadPrevious(r)
  <2>1. At(r, "previous") /\ UNCHANGED pointer /\ request'[r].gen = request[r].gen
        /\ request'[r].previous = pointer["lexical"] /\ request'[r].kind = request[r].kind
        /\ request'[r].source = request[r].source /\ request'[r].left = Tail(request[r].left)
    <3>1. request'[r] = [Advanced(r) EXCEPT !.previous = pointer["lexical"]] /\ At(r, "previous")
      BY <1>8, TypesApart DEF ReadPrevious
    <3>2. /\ Advanced(r) \in RequestRecord /\ Advanced(r).gen = request[r].gen
          /\ Advanced(r).kind = request[r].kind
          /\ Advanced(r).source = request[r].source /\ Advanced(r).left = Tail(request[r].left)
      BY <3>1, AtLeft DEF Advanced, RequestRecord
    <3>3. \A a \in RequestRecord, v \in Nat :
            LET b == [a EXCEPT !.previous = v] IN
            b.previous = v /\ b.gen = a.gen /\ b.kind = a.kind /\ b.source = a.source /\ b.left = a.left
      BY DEF RequestRecord
    <3>4. UNCHANGED pointer
      BY <1>8 DEF ReadPrevious, stores
    <3>5. pointer["lexical"] \in Nat
      BY <1>0, TypesApart DEF StoresTyped, Indexes
    <3> QED
      BY <3>1, <3>2, <3>3, <3>4, <3>5
  <2>2. GoesOn(r)
    <3>1. Program(request[r].left) /\ Head(request[r].left) = "previous"
      BY <2>1, Where DEF At
    <3>2. Len(request[r].left) > 1
      BY <3>1, Onward DEF Finals
    <3> QED
      BY <2>1, <3>2 DEF GoesOn
  <2>3. StepOf(r)' = "lexicalPointer" /\ StepOf(r) = "previous"
    BY <1>1, <2>1, <2>2, Where, WentOn DEF Follows
  <2>4. ~Activating(r)
    BY <1>1, <2>3 DEF Active
  <2>5. LET others == \E q \in Requests \ {r} : Activating(q) IN
        alone' = (IF others THEN Nobody ELSE r) /\ torn' = (torn \/ others)
    BY <1>8 DEF ReadPrevious
  <2> QED
    BY <2>1, <2>3, <2>4, <2>5 DEF Enters
<1>9. CASE MoveLexical(r)
  <2>1. At(r, "lexicalPointer") /\ Advance(r) /\ UNCHANGED <<alone, torn>>
        /\ pointer'["lexical"] = request[r].gen /\ pointer'["vector"] = pointer["vector"]
    BY <1>9 DEF MoveLexical, histories
  <2>2. GoesOn(r) /\ request'[r].previous = request[r].previous
    BY <2>1, AdvanceGoes DEF Finals
  <2>3. StepOf(r)' \in {"control", "vectorPointer"} /\ StepOf(r) = "lexicalPointer"
    BY <1>1, <2>1, <2>2, Where, WentOn DEF Follows
  <2> QED
    BY <2>1, <2>2, <2>3 DEF Inner, GoesOn
<1>10. CASE ReadControl(r)
  <2>1. At(r, "control") /\ UNCHANGED <<pointer, alone, torn>> /\ request'[r].gen = request[r].gen
        /\ request'[r].previous = request[r].previous /\ request'[r].kind = request[r].kind
        /\ request'[r].source = request[r].source /\ request'[r].left = Tail(request[r].left)
    <3>1. request'[r] = [Advanced(r) EXCEPT !.control = pointer["vector"]] /\ At(r, "control")
      BY <1>10, TypesApart DEF ReadControl
    <3>2. /\ Advanced(r) \in RequestRecord /\ Advanced(r).gen = request[r].gen
          /\ Advanced(r).previous = request[r].previous /\ Advanced(r).kind = request[r].kind
          /\ Advanced(r).source = request[r].source /\ Advanced(r).left = Tail(request[r].left)
      BY <3>1, AtLeft DEF Advanced, RequestRecord
    <3>3. UNCHANGED pointer /\ UNCHANGED alone /\ UNCHANGED torn
      BY <1>10 DEF ReadControl, stores, histories
    <3> QED
      BY <3>1, <3>2, <3>3 DEF RequestRecord
  <2>2. GoesOn(r)
    <3>1. Program(request[r].left) /\ Head(request[r].left) = "control"
      BY <2>1, Where DEF At
    <3>2. Len(request[r].left) > 1
      BY <3>1, Onward DEF Finals
    <3> QED
      BY <2>1, <3>2 DEF GoesOn
  <2>3. StepOf(r)' = "vectorPointer" /\ StepOf(r) = "control"
    BY <1>1, <2>1, <2>2, Where, WentOn DEF Follows
  <2> QED
    BY <2>1, <2>3 DEF Inner
<1>11. CASE VectorFails(r)
  <2>1. PICK x \in {"control", "vectorPointer"} : At(r, x)
    BY <1>11 DEF VectorFails
  <2>2. request' = [request EXCEPT ![r].left = <<"recover">>] /\ UNCHANGED <<alone, torn>>
        /\ pointer'["lexical"] = pointer["lexical"] /\ pointer'["vector"] \in {pointer["vector"], request[r].gen}
    BY <1>11 DEF VectorFails, histories
  <2>3. StepOf(r)' = "recover" /\ request'[r].gen = request[r].gen /\ request'[r].previous = request[r].previous
    BY <1>1, <2>1, <2>2, ShapeOfDetour
  <2> QED
    BY <1>0, <2>1, <2>2, <2>3 DEF Inner
<1>12. CASE GoBack(r)
  <2>1. /\ At(r, "recover") /\ request' = [request EXCEPT ![r].left = <<"restore">>]
        /\ UNCHANGED <<pointer, alone>> /\ torn' = (torn \/ Moved(r))
    BY <1>12 DEF GoBack, stores
  <2>2. StepOf(r)' = "restore" /\ request'[r].gen = request[r].gen /\ request'[r].previous = request[r].previous
    BY <1>1, <2>1, ShapeOfDetour
  <2> QED
    BY <1>0, <2>1, <2>2 DEF Inner
<1>13. CASE MoveVector(r)
  <2>1. /\ At(r, "vectorPointer") /\ Advance(r) /\ EndsWhole(r)
        /\ pointer'["vector"] = request[r].gen /\ pointer'["lexical"] = pointer["lexical"]
    BY <1>13 DEF MoveVector
  <2>2. ~Activating(r)'
    <3>1. request'[r] = Idle \/ GoesOn(r)
      BY <2>1, AdvanceGoes
    <3>2. GoesOn(r) => Follows("vectorPointer", StepOf(r)')
      BY <1>1, <2>1, Where, WentOn
    <3>3. StepOf(r)' \in {"idle", "cleanup"}
      BY <3>1, <3>2, ShapeOfIdle DEF Follows
    <3> QED
      BY <3>3, ActiveNext DEF Active
  <2> QED
    BY <1>0, <2>1, <2>2 DEF Leaves, EndsWhole
<1>14. CASE Recovered(r)
  <2>1. At(r, "recover") /\ Moved(r) /\ request'[r] = Idle /\ EndsWhole(r) /\ UNCHANGED pointer
    BY <1>14, TypesApart DEF Recovered, stores
  <2>2. ~Activating(r)'
    BY <2>1, ShapeOfIdle, ActiveNext DEF Active
  <2> QED
    BY <1>0, <2>1, <2>2 DEF Leaves, EndsWhole
<1>15. CASE RestoreLexical(r)
  <2>1. /\ At(r, "restore") /\ Raise(r) /\ Ends(r) /\ pointer'["vector"] = pointer["vector"]
        /\ (torn => torn') /\ (~torn' => pointer'["lexical"] = request[r].previous)
    BY <1>15 DEF RestoreLexical
  <2>2. ~Activating(r)'
    BY <2>1, RaiseCalm
  <2>3. StepOf(r) = "restore"
    BY <1>0, <2>1
  <2> QED
    BY <2>1, <2>2, <2>3 DEF Leaves
<1>16. CASE StepFails(r)
  <2>1. PICK x \in Plain : At(r, x)
    BY <1>16 DEF StepFails, Refused, Plain
  <2>2. Raise(r) /\ Ends(r) /\ UNCHANGED <<pointer, torn>>
    BY <1>16 DEF StepFails, stores
  <2>3. ~Activating(r)'
    BY <2>1, <2>2, RaiseCalm
  <2>4. CASE x = "lexicalPointer"
    BY <1>0, <2>1, <2>2, <2>3, <2>4 DEF Leaves
  <2>5. CASE x # "lexicalPointer"
    <3>1. ~Activating(r)
      BY <1>0, <1>1, <2>1, <2>5 DEF Plain, Active
    <3>2. alone # r
      BY <3>1, IndexingAssumption DEF Alone
    <3>3. alone' = alone
      BY <2>2, <3>2 DEF Ends
    <3> QED
      BY <2>2, <2>3, <3>1, <3>3 DEF Calm
  <2> QED
    BY <2>4, <2>5
<1> HIDE DEF Result
<1> QED
  BY <1>4, <1>5, <1>6, <1>7, <1>8, <1>9, <1>10, <1>11, <1>12, <1>13, <1>14, <1>15, <1>16 DEF RequestNext, Result

LEMMA AloneStep ==
  ASSUME Well, Alone, NEW r \in Requests, RequestNext(r)
  PROVE  Alone'
<1> USE DEF Well, Shapes
<1>1. /\ \A q \in Requests \ {r} : Activating(q) <=> Activating(q)'
      /\ alone \in Requests \cup {Nobody} /\ Nobody \notin Requests /\ torn \in BOOLEAN
  BY Turn, Stays, TypesApart, IndexingAssumption DEF HistoriesTyped
<1>2. CASE Calm(r)
  BY <1>1, <1>2 DEF Calm, Alone
<1>3. CASE Enters(r)
  <2>1. Activating(r)'
    BY <1>3, ActiveNext DEF Enters, Active
  <2> QED
    BY <1>1, <1>3, <2>1 DEF Enters, Alone
<1>4. CASE Inner(r)
  <2>1. Activating(r) /\ Activating(r)'
    BY <1>4, ActiveSteps, ActiveNext DEF Inner, Active
  <2> QED
    BY <1>1, <1>4, <2>1 DEF Inner, Alone
<1>5. CASE Leaves(r)
  <2>1. /\ Activating(r) /\ ~Activating(r)' /\ Ends(r)
        /\ ~torn' => ~torn \/ alone = r
    <3>1. ~torn' => ~torn \/ alone = r
      BY <1>1, <1>5 DEF Leaves
    <3> QED
      BY <1>5, <3>1, ActiveSteps DEF Leaves, Active
  <2>2. CASE alone = r
    BY <1>1, <2>1, <2>2 DEF Ends, Alone
  <2>3. CASE alone # r
    BY <1>1, <2>1, <2>3 DEF Ends, Alone
  <2> QED
    BY <2>2, <2>3
<1> QED
  BY <1>2, <1>3, <1>4, <1>5, Activity

\* Nobody moves the pointers of an activation that is alone.
LEMMA HalfwayStep ==
  ASSUME Well, Agreeing, NEW r \in Requests, RequestNext(r), NEW q \in Requests, alone' = q
  PROVE  Halfway(q)'
<1> USE DEF Well, Shapes
<1>1. /\ \A p \in Requests \ {r} : (Activating(p) <=> Activating(p)') /\ request'[p] = request[p]
                                   /\ StepOf(p)' = StepOf(p)
      /\ Nobody \notin Requests /\ torn \in BOOLEAN
  BY Turn, Stays, TypesApart, IndexingAssumption DEF HistoriesTyped
<1>2. CASE q # r
  <2>1. Calm(r)
    <3>1. alone = q
      BY <1>1, <1>2, Activity DEF Calm, Enters, Inner, Leaves, Ends, Agreeing
    <3>2. ~Activating(r)
      BY <1>1, <1>2, <3>1 DEF Agreeing, Alone
    <3> QED
      BY <1>1, <1>2, <3>2, Activity, ActiveSteps DEF Enters, Inner, Leaves, Active, Agreeing
  <2>2. alone = q /\ torn' = torn
    BY <2>1 DEF Calm
  <2>3. ~Persistent
    BY <1>1, <2>2, NoneActive DEF Agreeing, Alone
  <2>4. pointer' = pointer /\ Halfway(q)
    BY <2>1, <2>2, <2>3 DEF Calm, Agreeing
  <2> QED
    BY <1>1, <1>2, <2>2, <2>4 DEF Halfway
<1>3. CASE q = r
  <2>1. CASE Enters(r)
    <3>1. StepOf(r)' = "lexicalPointer" /\ request'[r].previous = pointer["lexical"] /\ pointer' = pointer
      BY <2>1 DEF Enters
    <3>2. ~torn' => pointer["vector"] = pointer["lexical"]
      <4>1. ~torn' => ~torn /\ \A p \in Requests : ~Activating(p)
        BY <1>1, <2>1 DEF Enters
      <4> QED
        BY <4>1 DEF Agreeing, PointersAgree
    <3> QED
      BY <1>3, <3>1, <3>2 DEF Halfway
  <2>2. CASE Inner(r)
    <3>1. alone = r /\ Halfway(r) /\ (~torn' => ~torn)
      BY <1>1, <1>3, <2>2 DEF Inner, Agreeing
    <3> DEFINE x == StepOf(r)
               y == StepOf(r)'
    <3>2. request'[r].gen = request[r].gen /\ request'[r].previous = request[r].previous
      BY <2>2 DEF Inner
    <3>3. CASE /\ x = "lexicalPointer" /\ y \in {"control", "vectorPointer"}
               /\ pointer'["lexical"] = request[r].gen /\ pointer'["vector"] = pointer["vector"]
      BY <1>3, <3>1, <3>2, <3>3 DEF Halfway
    <3>4. CASE x = "control" /\ y = "vectorPointer" /\ pointer' = pointer
      BY <1>3, <3>1, <3>2, <3>4 DEF Halfway
    <3>5. CASE /\ x \in {"control", "vectorPointer"} /\ y = "recover"
               /\ pointer'["lexical"] = pointer["lexical"] /\ pointer'["vector"] \in {pointer["vector"], request[r].gen}
      BY <1>3, <3>1, <3>2, <3>5 DEF Halfway
    <3>6. CASE x = "recover" /\ y = "restore" /\ pointer' = pointer /\ (~torn' => ~Moved(r))
      BY <1>3, <3>1, <3>2, <3>6 DEF Halfway, Moved
    <3> QED
      BY <2>2, <3>3, <3>4, <3>5, <3>6 DEF Inner
  <2>3. ~Calm(r) /\ ~Leaves(r)
    <3>1. ~Calm(r)
      BY <1>1, <1>3 DEF Calm, Agreeing, Alone
    <3>2. ~Leaves(r)
      BY <1>1, <1>3 DEF Leaves, Ends
    <3> QED
      BY <3>1, <3>2
  <2> QED
    BY <2>1, <2>2, <2>3, Activity DEF Agreeing
<1> QED
  BY <1>2, <1>3

LEMMA AgreeStep ==
  ASSUME Well, Agreeing, NEW r \in Requests, RequestNext(r)
  PROVE  PointersAgree'
<1> USE DEF Well, Shapes
<1> SUFFICES ASSUME ~torn', \A q \in Requests : ~Activating(q)'
             PROVE  pointer'["vector"] = pointer'["lexical"]
  BY DEF PointersAgree
<1>1. /\ \A p \in Requests \ {r} : (Activating(p) <=> Activating(p)')
      /\ Nobody \notin Requests /\ torn \in BOOLEAN
  BY Turn, Stays, TypesApart, IndexingAssumption DEF HistoriesTyped
<1>2. CASE Calm(r)
  <2>1. ~torn /\ \A q \in Requests : ~Activating(q)
    BY <1>1, <1>2 DEF Calm
  <2>2. pointer["vector"] = pointer["lexical"]
    BY <2>1 DEF Agreeing, PointersAgree
  <2> QED
    BY <1>2, <2>2 DEF Calm
<1>3. ~Enters(r) /\ ~Inner(r)
  BY ActiveNext DEF Enters, Inner, Active
<1>4. CASE Leaves(r)
  <2>1. Activating(r)
    BY <1>4, ActiveSteps DEF Leaves, Active
  <2>2. alone = r /\ Halfway(r)
    BY <1>1, <1>4, <2>1 DEF Leaves, Agreeing, Alone
  <2> DEFINE x == StepOf(r)
  <2>3. CASE x = "lexicalPointer" /\ pointer' = pointer /\ torn' = torn
    BY <2>2, <2>3 DEF Halfway
  <2>4. CASE /\ x = "vectorPointer"
             /\ pointer'["vector"] = request[r].gen /\ pointer'["lexical"] = pointer["lexical"]
    BY <2>2, <2>4 DEF Halfway
  <2>5. CASE x = "recover" /\ pointer' = pointer /\ Moved(r)
    BY <2>2, <2>5 DEF Halfway, Moved
  <2>6. CASE /\ x = "restore" /\ (torn => torn')
             /\ pointer'["vector"] = pointer["vector"] /\ (~torn' => pointer'["lexical"] = request[r].previous)
    BY <1>1, <2>2, <2>6 DEF Halfway
  <2> QED
    BY <1>4, <2>3, <2>4, <2>5, <2>6 DEF Leaves
<1> QED
  BY <1>2, <1>3, <1>4, Activity DEF Agreeing

LEMMA AgreeingInit == IndexInit => Agreeing
<1> SUFFICES ASSUME IndexInit
             PROVE  Agreeing
  OBVIOUS
<1>1. \A r \in Requests : ~Activating(r)
  BY DEF IndexInit, Activating, Idle
<1>2. alone = Nobody /\ Nobody \notin Requests /\ pointer["vector"] = pointer["lexical"]
  BY IndexingAssumption DEF IndexInit, Indexes
<1> QED
  BY <1>1, <1>2 DEF Agreeing, Alone, PointersAgree

LEMMA AgreeingStep == Well /\ Agreeing /\ [IndexNext]_indexVars => Agreeing'
<1> SUFFICES ASSUME Well, Agreeing, [IndexNext]_indexVars
             PROVE  Agreeing'
  OBVIOUS
<1>1. ASSUME NEW r \in Requests, RequestNext(r)
      PROVE  Agreeing'
  BY <1>1, AloneStep, HalfwayStep, AgreeStep DEF Agreeing
<1>2. CASE Restart
  <2>1. /\ alone' = Nobody /\ pointer' = pointer
        /\ \A r \in Requests : ~Activating(r)'
        /\ ~torn' => ~torn /\ \A r \in Requests : ~Activating(r)
    BY <1>2, RestartIdle DEF Restart, Well
  <2>2. PointersAgree'
    BY <2>1 DEF Agreeing, PointersAgree
  <2> QED
    BY <2>1, <2>2, IndexingAssumption DEF Agreeing, Alone
<1>3. CASE UNCHANGED indexVars
  <2>1. UNCHANGED pointer /\ UNCHANGED request /\ UNCHANGED alone /\ UNCHANGED torn
    BY <1>3 DEF indexVars, stores, histories
  <2>2. Alone' /\ PointersAgree'
    BY <2>1 DEF Agreeing, Alone, PointersAgree, Activating
  <2>3. \A r \in Requests : alone' = r => Halfway(r)'
    BY <2>1 DEF Agreeing, Halfway, StepOf
  <2> QED
    BY <2>2, <2>3 DEF Agreeing
<1> QED
  BY <1>1, <1>2, <1>3 DEF IndexNext

-----------------------------------------------------------------------------
(* What a step does to the registry and the files *)

RowMoves(r) ==
  LET own == request[r].source IN
  \A s \in Sources :
    \/ rows'[s] = rows[s]
    \/ Register(r, s) /\ rows'[s] = "REGISTERED"
    \/ Remove(r, s) /\ rows'[s] = "none"
    \/ /\ s = own /\ rows[s] # "none"
       /\ \/ StepOf(r) = "start" /\ rows'[s] = "INDEXING"
          \/ StepOf(r) = "ready" /\ rows'[s] = "READY" /\ BecomeReady(r)
          \/ StepOf(r) = "fail" /\ rows'[s] = "FAILED"

FileMoves(r) ==
  LET own == request[r].source IN
  \A s \in Sources :
    \/ files'[s].status = files[s].status
    \/ s = own /\ StepOf(r) = "erase" /\ files'[s].status = "none"
    \/ s = own /\ StepOf(r) = "describe" /\ files'[s].status = "INDEXING"
    \/ s = own /\ StepOf(r) = "promise" /\ files'[s].status = "READY"
    \/ s = own /\ StepOf(r) = "saveFailed" /\ files'[s].status = "FAILED"

Told(r) ==
  LET s == request[r].source IN
  /\ Onwards(r, "start") => rows'[s] = "INDEXING"
  /\ Onwards(r, "fail") => rows'[s] = "FAILED"
  /\ Onwards(r, "promise") => files'[s].status = "READY"

Telling == {"start", "fail", "promise"}

Befallen(r) ==
  /\ unused' = unused \/ \E s \in Sources : Register(r, s) /\ unused' = unused \ {s}
  /\ removed' = removed \/ \E s \in Sources : Remove(r, s) /\ removed' = removed \cup {s}
  /\ \A s \in Sources : mishaps[s] \subseteq mishaps'[s]

\* An error does not take a request to its next step.
LEMMA RaisedStays ==
  ASSUME Well, NEW r \in Requests, RequestNext(r), NEW x, At(r, x), Raise(r)
  PROVE  ~GoesOn(r)
<1> USE DEF Well, Shapes
<1> SUFFICES ASSUME GoesOn(r)
             PROVE  FALSE
  OBVIOUS
<1>1. request[r].kind # "none" /\ deployment' = deployment
  BY Where, Turn
<1>2. /\ request'[r].left # <<>>
      /\ Indexing(r) => Follows(x, StepOf(r)')
      /\ ~Indexing(r) => IsDatabase(r)
  BY <1>1, WentOn
<1>3. \/ request'[r] = Idle
      \/ Records(r) /\ StepOf(r)' = "fail"
  BY <1>1, ShapeOfError
<1>4. request'[r] = Idle => request'[r].left = <<>>
  BY DEF Idle
<1>5. Records(r) => ~IsDatabase(r)
  BY DEF Records, IsDatabase
<1> QED
  BY <1>2, <1>3, <1>4, <1>5 DEF Follows

LEMMA StoringIngests ==
  ASSUME Well, NEW r \in Requests, StepOf(r) \in Storing \cup {"erase"}
  PROVE  /\ StepOf(r) \in Storing => request[r].kind = "ingest"
         /\ StepOf(r) = "erase" => request[r].kind = "remove"
         /\ request[r].source \in Sources
<1> USE DEF Well, Shapes
<1>1. At(r, StepOf(r))
  BY DEF At, StepOf, Storing, Failing
<1> QED
  BY <1>1, Where

LEMMA RegistryMoves ==
  ASSUME Well, NEW r \in Requests, RequestNext(r)
  PROVE  RowMoves(r) /\ FileMoves(r) /\ Told(r) /\ Befallen(r)
<1> USE DEF Well, Shapes
<1> DEFINE Result == RowMoves(r) /\ FileMoves(r) /\ Told(r) /\ Befallen(r)
<1>0. \A x : At(r, x) => StepOf(r) = x
  BY DEF At, StepOf
<1>1. rows \in [Sources -> Statuses \cup {"none"}] /\ files \in [Sources -> FileRecord]
  BY TypesApart DEF StoresTyped
<1>2. ASSUME UNCHANGED unused, UNCHANGED removed, \A s \in Sources : mishaps[s] \subseteq mishaps'[s]
      PROVE  Befallen(r)
  BY <1>2 DEF Befallen
<1>3. \A S, what : Befalls(S, what) => \A s \in Sources : mishaps[s] \subseteq mishaps'[s]
  BY DEF Befalls
<1>4. ASSUME UNCHANGED rows, UNCHANGED files, StepOf(r) \notin Telling \/ ~GoesOn(r), Befallen(r)
      PROVE  Result
  BY <1>0, <1>4 DEF RowMoves, FileMoves, Told, Onwards, Telling
<1>5. CASE \E s \in Sources : Register(r, s) \/ AskIndex(r, s) \/ Remove(r, s)
  <2>1. request[r].kind = "none" /\ StepOf(r) = "idle"
    <3>1. request[r].kind = "none"
      BY <1>5 DEF Register, AskIndex, Remove, Begins, InFlight
    <3> QED
      BY <3>1 DEF Shape, Idle, StepOf
  <2>2. Told(r)
    BY <1>0, <2>1 DEF Told, Onwards
  <2>3. FileMoves(r)
    BY <1>5 DEF Register, AskIndex, Remove, FileMoves
  <2>4. ASSUME NEW s \in Sources, Register(r, s)
        PROVE  RowMoves(r) /\ Befallen(r)
    BY <1>1, <2>4 DEF Register, RowMoves, Befallen
  <2>5. ASSUME NEW s \in Sources, AskIndex(r, s)
        PROVE  RowMoves(r) /\ Befallen(r)
    BY <2>5 DEF AskIndex, RowMoves, Befallen, histories
  <2>6. ASSUME NEW s \in Sources, Remove(r, s)
        PROVE  RowMoves(r) /\ Befallen(r)
    BY <1>1, <1>3, <2>6 DEF Remove, RowMoves, Befallen
  <2> QED
    BY <1>5, <2>2, <2>3, <2>4, <2>5, <2>6
<1>6. CASE Erase(r)
  <2>1. StepOf(r) = "erase" /\ UNCHANGED rows /\ UNCHANGED unused /\ UNCHANGED removed
        /\ \A s \in Sources : mishaps[s] \subseteq mishaps'[s]
    BY <1>0, <1>3, <1>6 DEF Erase
  <2>2. FileMoves(r)
    <3>1. request[r].source \in Sources
      BY <2>1, StoringIngests
    <3> QED
      BY <1>1, <1>6, <2>1, <3>1 DEF Erase, Emptied, FileMoves, FileRecord
  <2> QED
    BY <1>0, <1>2, <2>1, <2>2 DEF RowMoves, Told, Onwards
<1>7. CASE Start(r) \/ BecomeReady(r) \/ RecordFailure(r)
  <2>1. /\ UNCHANGED files /\ UNCHANGED unused /\ UNCHANGED removed
        /\ \A s \in Sources : mishaps[s] \subseteq mishaps'[s]
    BY <1>3, <1>7 DEF Start, BecomeReady, RecordFailure, histories
  <2>2. \E x \in {"start", "ready", "fail"} : At(r, x)
    BY <1>7 DEF Start, BecomeReady, RecordFailure
  <2>3. request[r].source \in Sources
    BY <1>0, <2>2, StoringIngests DEF Storing, Failing
  <2>4. RowMoves(r) /\ Told(r)
    <3>1. rows[request[r].source] # "none"
      BY <1>7 DEF Start, BecomeReady, RecordFailure, Transition, AllowedTransitions
    <3>2. CASE Start(r)
      BY <1>0, <1>1, <2>3, <3>1, <3>2 DEF Start, Transition, RowMoves, Told, Onwards
    <3>3. CASE BecomeReady(r)
      <4>1. At(r, "ready") /\ rows' = [rows EXCEPT ![request[r].source] = "READY"]
        BY <3>3 DEF BecomeReady, Transition
      <4> QED
        BY <1>0, <1>1, <2>3, <3>1, <3>3, <4>1 DEF RowMoves, Told, Onwards
    <3>4. CASE RecordFailure(r)
      BY <1>0, <1>1, <2>3, <3>1, <3>4 DEF RecordFailure, Transition, RowMoves, Told, Onwards
    <3> QED
      BY <1>7, <3>2, <3>3, <3>4
  <2> QED
    BY <1>2, <2>1, <2>4 DEF FileMoves
<1>8. CASE Describe(r) \/ SaveDocuments(r) \/ Promise(r) \/ SaveFailed(r)
  <2>1. UNCHANGED rows /\ UNCHANGED unused /\ UNCHANGED removed /\ UNCHANGED mishaps
    BY <1>8 DEF Describe, SaveDocuments, Promise, SaveFailed, histories
  <2>2. \E x \in {"describe", "documents", "promise", "saveFailed"} : At(r, x)
    BY <1>8 DEF Describe, SaveDocuments, Promise, SaveFailed
  <2>3. request[r].source \in Sources
    BY <1>0, <2>2, StoringIngests DEF Storing, Failing
  <2>4. FileMoves(r) /\ Told(r)
    BY <1>0, <1>1, <1>8, <2>3 DEF Describe, SaveDocuments, Promise, SaveFailed, FileMoves, FileRecord, Told, Onwards
  <2> QED
    BY <1>2, <2>1, <2>4 DEF RowMoves
<1>9. CASE Crawl(r) \/ List(r) \/ Load(r) \/ WriteVectors(r) \/ VectorsFail(r) \/ WriteLexical(r) \/ LexicalFails(r)
  <2>1. UNCHANGED rows /\ UNCHANGED files /\ UNCHANGED unused /\ UNCHANGED removed /\ UNCHANGED mishaps
    BY <1>9 DEF Crawl, List, Load, WriteVectors, VectorsFail, WriteLexical, LexicalFails, Write, WriteFails,
       stores, histories
  <2>2. StepOf(r) \notin Telling
    BY <1>0, <1>9 DEF Crawl, List, Load, WriteVectors, VectorsFail, WriteLexical, LexicalFails, Write, WriteFails,
       Telling
  <2> QED
    BY <1>2, <1>4, <2>1, <2>2
<1>10. CASE ReadPrevious(r) \/ MoveLexical(r) \/ ReadControl(r) \/ MoveVector(r) \/ CleanUp(r) \/ VectorFails(r)
            \/ Recovered(r) \/ GoBack(r) \/ RestoreLexical(r) \/ Publish(r) \/ PublishFails(r)
  <2>1. UNCHANGED rows /\ UNCHANGED files /\ UNCHANGED unused /\ UNCHANGED removed /\ UNCHANGED mishaps
    BY <1>10 DEF ReadPrevious, MoveLexical, ReadControl, MoveVector, CleanUp, VectorFails, Recovered, GoBack,
       RestoreLexical, Publish, PublishFails, stores, histories
  <2>2. StepOf(r) \notin Telling
    BY <1>0, <1>10 DEF ReadPrevious, MoveLexical, ReadControl, MoveVector, CleanUp, VectorFails, Recovered,
       GoBack, RestoreLexical, Publish, PublishFails, Telling
  <2> QED
    BY <1>2, <1>4, <2>1, <2>2
<1>11. CASE StepFails(r)
  <2>1. UNCHANGED rows /\ UNCHANGED files /\ UNCHANGED unused /\ UNCHANGED removed /\ UNCHANGED mishaps
    BY <1>11 DEF StepFails, stores
  <2>2. ~GoesOn(r)
    <3>1. \E x \in Plain : At(r, x)
      BY <1>11 DEF StepFails, Refused, Plain
    <3> QED
      BY <1>11, <3>1, RaisedStays DEF StepFails
  <2> QED
    BY <1>2, <1>4, <2>1, <2>2
<1>12. CASE RecordFails(r)
  <2>1. /\ UNCHANGED rows /\ UNCHANGED files /\ UNCHANGED unused /\ UNCHANGED removed
        /\ \A s \in Sources : mishaps[s] \subseteq mishaps'[s]
    BY <1>3, <1>12 DEF RecordFails, stores
  <2>2. ~GoesOn(r)
    <3>1. request'[r] = Idle
      BY <1>12, TypesApart DEF RecordFails
    <3>2. request'[r].kind = "none"
      BY <3>1 DEF Idle
    <3>3. request[r].kind # "none"
      <4>1. At(r, "fail") \/ At(r, "saveFailed")
        BY <1>12 DEF RecordFails
      <4> QED
        BY <4>1, Where
    <3> QED
      BY <3>2, <3>3 DEF GoesOn
  <2> QED
    BY <1>2, <1>4, <2>1, <2>2
<1> HIDE DEF Result
<1> QED
  BY <1>5, <1>6, <1>7, <1>8, <1>9, <1>10, <1>11, <1>12 DEF RequestNext, Result

-----------------------------------------------------------------------------
(* One ingestion of a source, which its row and its file follow *)

\* Only a registration makes an ingestion.
LEMMA IngestsSame ==
  ASSUME Well, NEW r \in Requests, RequestNext(r), NEW q \in Requests, request'[q].kind = "ingest"
  PROVE  \/ request[q].kind = "ingest" /\ request'[q].source = request[q].source
         \/ q = r /\ request'[r].source \in Sources /\ Register(r, request'[r].source) /\ StepOf(r)' = "start"
<1> USE DEF Well, Shapes
<1>1. CASE q # r
  BY <1>1, Turn DEF Others
<1>2. CASE q = r
  <2>1. ASSUME NEW s \in Sources, Register(r, s) \/ AskIndex(r, s)
        PROVE  request'[r].source = s /\ Register(r, s) /\ StepOf(r)' = "start"
    <3>1. request'[r].source = s
      BY <2>1, ShapeOfBegin
    <3>2. ~AskIndex(r, s)
      BY <1>2, ShapeOfBegin
    <3> QED
      BY <2>1, <3>1, <3>2, ShapeOfBegin
  <2>2. CASE ~\E s \in Sources : Register(r, s) \/ AskIndex(r, s)
    <3>1. ~Starts(r) \/ \E s \in Sources : Remove(r, s)
      <4>1. Continues(r) => request[r].kind # "none"
        BY DEF Continues
      <4> QED
        BY <2>2, <4>1, Turn DEF Begin, Starts
    <3>2. CASE \E s \in Sources : Remove(r, s)
      <4>1. PICK s \in Sources : request'[r] = [Idle EXCEPT !.kind = "remove", !.source = s, !.left = <<"erase">>]
        BY <3>2, TypesApart DEF Remove
      <4>2. request'[r].kind = "remove"
        BY <4>1 DEF Idle
      <4> QED
        BY <1>2, <4>2
    <3>3. CASE Proceeds(r) \/ GivesUp(r) \/ Turns(r)
      BY <1>2, <3>3 DEF Proceeds, Onwards, GoesOn, GivesUp, Turns
    <3> QED
      BY <3>1, <3>2, <3>3, Becomes
  <2> QED
    BY <1>2, <2>1, <2>2
<1> QED
  BY <1>1, <1>2

LEMMA BegunStep ==
  ASSUME Well, Registered, NEW r \in Requests, RequestNext(r)
  PROVE  Begun'
<1> USE DEF Well, Shapes
<1>1. RowMoves(r) /\ Befallen(r)
  BY RegistryMoves
<1>2. \A s \in unused : s \in Sources /\ rows[s] = "none" /\ ~Ingesting(s) /\ s \notin removed
  BY TypesApart DEF HistoriesTyped, Registered, Begun
<1>3. /\ unused' \subseteq unused
      /\ \A s \in Sources : Register(r, s) => s \in unused /\ s \notin unused'
      /\ \A s \in Sources : Remove(r, s) => rows[s] # "none" /\ removed' = removed \cup {s}
  BY <1>1 DEF Befallen, Register, Remove, Exists
<1>4. ASSUME NEW s \in unused'
      PROVE  rows'[s] = "none" /\ ~Ingesting(s)' /\ s \notin removed'
  <2>1. s \in unused /\ s \in Sources /\ ~Register(r, s) /\ ~Remove(r, s)
    BY <1>2, <1>3, <1>4
  <2>2. StepOf(r) \in {"start", "ready", "fail"} => request[r].source # s
    <3>1. StepOf(r) \in {"start", "ready", "fail"} => request[r].kind = "ingest"
      BY StoringIngests DEF Storing, Failing
    <3> QED
      BY <1>2, <2>1, <3>1 DEF Ingesting
  <2>3. rows'[s] = "none"
    BY <1>1, <1>2, <2>1, <2>2 DEF RowMoves
  <2>4. ~Ingesting(s)'
    <3> SUFFICES ASSUME NEW q \in Requests, request'[q].kind = "ingest", request'[q].source = s
                 PROVE  FALSE
      BY DEF Ingesting
    <3> QED
      BY <1>2, <2>1, IngestsSame DEF Ingesting
  <2>5. s \notin removed'
    BY <1>1, <1>2, <1>3, <2>1 DEF Befallen
  <2> QED
    BY <2>3, <2>4, <2>5
<1>5. ASSUME NEW p \in Requests, NEW q \in Requests,
             request'[p].kind = "ingest", request'[q].kind = "ingest", request'[p].source = request'[q].source
      PROVE  p = q
  <2>1. CASE /\ request[p].kind = "ingest" /\ request'[p].source = request[p].source
             /\ request[q].kind = "ingest" /\ request'[q].source = request[q].source
    BY <1>5, <2>1 DEF Registered, Begun
  <2>2. ASSUME NEW a \in Requests, NEW b \in Requests, request'[a].source = request'[b].source,
               request[a].kind = "ingest", request'[a].source = request[a].source,
               request'[b].source \in Sources, Register(r, request'[b].source)
        PROVE  FALSE
    BY <1>2, <1>3, <2>2 DEF Ingesting
  <2> QED
    BY <1>5, <2>1, <2>2, IngestsSame
<1> QED
  BY <1>4, <1>5 DEF Begun

Inside == {"describe", "crawl", "documents", "list", "load", "vector", "lexical", "promise", "ready"}

LEMMA RowOfStep ==
  ASSUME Well, Registered, NEW r \in Requests, RequestNext(r), NEW q \in Requests, request'[q].kind = "ingest"
  PROVE  RowOf(q)'
<1> USE DEF Well, Shapes
<1>1. RowMoves(r) /\ FileMoves(r) /\ Told(r)
  BY RegistryMoves
<1>2. \A s \in Sources : rows[s] \in Statuses \cup {"none"}
  BY TypesApart DEF StoresTyped
<1>3. CASE q # r
  <2> DEFINE s == request[q].source
  <2>1. /\ request'[q] = request[q] /\ StepOf(q)' = StepOf(q) /\ (IsDatabase(q) <=> IsDatabase(q)')
        /\ request[q].kind = "ingest" /\ RowOf(q) /\ s \in Sources
    <3>1. request'[q] = request[q] /\ StepOf(q)' = StepOf(q) /\ (IsDatabase(q) <=> IsDatabase(q)')
      BY <1>3, Turn, Stays
    <3>2. request[q].kind = "ingest"
      BY <3>1
    <3> QED
      BY <3>1, <3>2 DEF Registered, Shape
  <2>2. request[r].kind = "ingest" => request[r].source # s
    BY <1>3, <2>1 DEF Registered, Begun
  <2>3. ~Register(r, s)
    BY <2>1 DEF Register, Registered, Begun, Ingesting
  <2>4. rows'[s] \in {rows[s], "none"}
    <3>1. StepOf(r) \in {"start", "ready", "fail"} => request[r].kind = "ingest"
      BY StoringIngests DEF Storing, Failing
    <3> QED
      BY <1>1, <2>1, <2>2, <2>3, <3>1 DEF RowMoves
  <2>5. files'[s].status \in {files[s].status, "none"}
    <3>1. StepOf(r) \in {"describe", "promise", "saveFailed"} => request[r].kind = "ingest"
      BY StoringIngests DEF Storing, Failing
    <3> QED
      BY <1>1, <2>1, <2>2, <3>1 DEF FileMoves
  <2> QED
    BY <2>1, <2>4, <2>5 DEF RowOf
<1>4. CASE q = r
  <2> DEFINE s == request[r].source
  <2>1. CASE request'[r].source \in Sources /\ Register(r, request'[r].source) /\ StepOf(r)' = "start"
    <3>1. rows'[request'[r].source] = "REGISTERED"
      BY <2>1, TypesApart DEF Register, StoresTyped
    <3> QED
      BY <1>4, <2>1, <3>1 DEF RowOf
  <2>2. CASE Proceeds(r) /\ request[r].kind = "ingest"
    <3> DEFINE x == StepOf(r)
               y == StepOf(r)'
    <3>1. /\ Onwards(r, x) /\ request'[r].source = s /\ s \in Sources /\ RowOf(r)
          /\ (IsDatabase(r) <=> IsDatabase(r)') /\ (Indexing(r) => Follows(x, y))
          /\ (~Indexing(r) => x = "start" /\ IsDatabase(r) /\ y = "ready")
      <4>1. Onwards(r, x) /\ GoesOn(r) /\ (Indexing(r) => Follows(x, y))
        BY <2>2 DEF Proceeds, Onwards
      <4>2. (IsDatabase(r) <=> IsDatabase(r)') /\ (~Indexing(r) => x = "start" /\ IsDatabase(r) /\ y = "ready")
        BY <4>1, Turn, WentOn DEF Onwards
      <4> QED
        BY <2>2, <4>1, <4>2 DEF GoesOn, Registered, Shape
    <3>2. y # "start"
      BY <3>1 DEF Follows
    <3>3. y \in Inside => x = "start" \/ x \in Inside \ {"ready"}
      BY <3>1 DEF Follows, Inside
    <3>4. y \in Inside => rows'[s] \in {"INDEXING", "none"}
      <4>1. CASE x = "start"
        BY <1>1, <3>1, <4>1 DEF Told
      <4>2. CASE x \in Inside \ {"ready"}
        <5>1. rows[s] \in {"INDEXING", "none"}
          BY <3>1, <4>2 DEF RowOf, Inside
        <5>2. ~Register(r, s) /\ ~Remove(r, s)
          BY <2>2 DEF Register, Remove, Begins, InFlight
        <5> QED
          BY <1>1, <3>1, <4>2, <5>1, <5>2 DEF RowMoves, Inside
      <4> QED
        BY <3>3, <4>1, <4>2
    <3>5. y = "saveFailed" => rows'[s] \in {"FAILED", "none"}
      BY <1>1, <3>1 DEF Follows, Told
    <3>6. y = "ready" /\ ~IsDatabase(r)' => files'[s].status \in {"READY", "none"}
      BY <1>1, <3>1 DEF Follows, Told
    <3> QED
      BY <1>4, <3>1, <3>2, <3>4, <3>5, <3>6 DEF RowOf, Inside
  <2>3. CASE GivesUp(r) \/ Turns(r)
    <3>1. StepOf(r)' \in {"fail", "recover", "restore"}
      BY <1>4, <2>3 DEF GivesUp, Turns
    <3> QED
      BY <1>4, <3>1 DEF RowOf
  <2>4. CASE Starts(r) /\ request[r].kind = "ingest"
    BY <2>4 DEF Starts
  <2> QED
    BY <1>4, <2>1, <2>2, <2>3, <2>4, IngestsSame, Becomes
<1> QED
  BY <1>3, <1>4

LEMMA FilesReadyStep ==
  ASSUME Well, Registered, NEW r \in Requests, RequestNext(r)
  PROVE  FilesReady'
<1> USE DEF Well, Shapes
<1>1. RowMoves(r) /\ FileMoves(r)
  BY RegistryMoves
<1> SUFFICES ASSUME NEW s \in Sources, rows'[s] = "READY", SourceKind[s] # "database"
             PROVE  files'[s].status \in {"READY", "none"}
  BY DEF FilesReady
<1>2. \A x \in Storing : StepOf(r) = x => request[r].kind = "ingest"
  BY StoringIngests
<1>3. CASE rows[s] = "READY"
  <2>1. files[s].status \in {"READY", "none"}
    BY <1>3 DEF Registered, FilesReady
  <2>2. ~(s = request[r].source /\ StepOf(r) \in {"describe", "saveFailed"})
    <3>1. StepOf(r) \in {"describe", "saveFailed"} => RowOf(r)
      BY <1>2 DEF Registered, Storing, Failing
    <3> QED
      BY <1>3, <3>1 DEF RowOf
  <2> QED
    BY <1>1, <2>1, <2>2 DEF FileMoves
<1>4. CASE rows[s] # "READY"
  <2>1. s = request[r].source /\ StepOf(r) = "ready"
    BY <1>1, <1>4 DEF RowMoves
  <2>2. request[r].kind = "ingest" /\ ~IsDatabase(r) /\ RowOf(r)
    BY <1>2, <2>1 DEF IsDatabase, Storing, Registered
  <2>3. files[s].status \in {"READY", "none"}
    BY <2>1, <2>2 DEF RowOf
  <2> QED
    BY <1>1, <2>1, <2>3 DEF FileMoves
<1> QED
  BY <1>3, <1>4

LEMMA RegisteredInit == IndexInit => Registered
<1> SUFFICES ASSUME IndexInit
             PROVE  Registered
  OBVIOUS
<1>1. /\ \A r \in Requests : request[r].kind = "none"
      /\ \A s \in Sources : rows[s] = "none"
      /\ unused = Sources /\ removed = {}
  BY DEF IndexInit, Idle
<1> QED
  BY <1>1 DEF Registered, Begun, Ingesting, FilesReady

LEMMA RegisteredStep == Well /\ Registered /\ [IndexNext]_indexVars => Registered'
<1> SUFFICES ASSUME Well, Registered, [IndexNext]_indexVars
             PROVE  Registered'
  OBVIOUS
<1>1. ASSUME NEW r \in Requests, RequestNext(r)
      PROVE  Registered'
  BY <1>1, BegunStep, RowOfStep, FilesReadyStep DEF Registered
<1>2. CASE Restart
  <2>1. /\ unused' = unused /\ removed' = removed /\ files' = files
        /\ \A s \in Sources : rows'[s] \in {rows[s], "none"}
        /\ \A s \in Sources : ~Ingesting(s)'
        /\ \A r \in Requests : request'[r].kind = "none"
    <3>1. \A r \in Requests : request'[r].kind = "none"
      BY <1>2, RestartIdle DEF Well, Idle
    <3> QED
      BY <1>2, <3>1 DEF Restart, Ingesting
  <2>2. unused \subseteq Sources
    BY TypesApart DEF Well, HistoriesTyped
  <2>3. Begun'
    BY <2>1, <2>2 DEF Registered, Begun
  <2>4. FilesReady'
    BY <2>1 DEF Registered, FilesReady
  <2> QED
    BY <2>1, <2>3, <2>4 DEF Registered
<1>3. CASE UNCHANGED indexVars
  <2>1. UNCHANGED rows /\ UNCHANGED files /\ UNCHANGED request /\ UNCHANGED unused /\ UNCHANGED removed
    BY <1>3 DEF indexVars, stores, histories
  <2>2. Begun' /\ FilesReady'
    BY <2>1 DEF Registered, Begun, FilesReady, Ingesting
  <2>3. \A r \in Requests : request'[r].kind = "ingest" => RowOf(r)'
    BY <2>1 DEF Registered, RowOf, StepOf, IsDatabase
  <2> QED
    BY <2>2, <2>3 DEF Registered
<1> QED
  BY <1>1, <1>2, <1>3 DEF IndexNext

-----------------------------------------------------------------------------
(* Sources that were removed *)

\* The actions a step may take, of those that end a request or read the registry.
LEMMA ActsAt ==
  ASSUME Well, NEW r \in Requests, RequestNext(r)
  PROVE  /\ StepOf(r) = "erase" => Erase(r)
         /\ StepOf(r) = "list" => List(r) \/ Raise(r)
         /\ StepOf(r) = "publish" => Publish(r) \/ PublishFails(r)
         /\ StepOf(r) = "vectorPointer" => MoveVector(r) \/ VectorFails(r)
         /\ StepOf(r) = "recover" => Recovered(r) \/ GoBack(r)
         /\ StepOf(r) = "restore" => RestoreLexical(r)
         /\ StepOf(r) = "fail" => RecordFailure(r) \/ RecordFails(r)
<1> USE DEF Well, Shapes
<1>0. \A x : At(r, x) => StepOf(r) = x
  BY DEF At, StepOf
<1> DEFINE Decided == {"erase", "list", "publish", "vectorPointer", "recover", "restore", "fail"}
<1>1. CASE \E s \in Sources : Register(r, s) \/ AskIndex(r, s) \/ Remove(r, s)
  <2>1. request[r].kind = "none"
    BY <1>1 DEF Register, AskIndex, Remove, Begins, InFlight
  <2>2. StepOf(r) = "idle"
    BY <2>1 DEF Shape, Idle, StepOf
  <2> QED
    BY <2>2
<1>2. CASE Start(r) \/ Describe(r) \/ Crawl(r) \/ SaveDocuments(r) \/ Load(r) \/ Promise(r) \/ BecomeReady(r)
           \/ SaveFailed(r)
  <2>1. StepOf(r) \notin Decided
    BY <1>0, <1>2 DEF Start, Describe, Crawl, SaveDocuments, Load, Promise, BecomeReady, SaveFailed
  <2> QED
    BY <2>1
<1>3. CASE WriteVectors(r) \/ VectorsFail(r) \/ WriteLexical(r) \/ LexicalFails(r) \/ CleanUp(r)
           \/ ReadPrevious(r) \/ MoveLexical(r) \/ ReadControl(r)
  <2>1. StepOf(r) \notin Decided
    BY <1>0, <1>3 DEF WriteVectors, VectorsFail, WriteLexical, LexicalFails, Write, WriteFails, CleanUp,
       ReadPrevious, MoveLexical, ReadControl
  <2> QED
    BY <2>1
<1>4. CASE StepFails(r)
  <2>1. StepOf(r) \in Plain /\ Raise(r)
    BY <1>0, <1>4 DEF StepFails, Refused, Plain
  <2> QED
    BY <2>1 DEF Plain
<1>5. CASE Erase(r) \/ List(r)
  BY <1>0, <1>5 DEF Erase, List
<1>6. CASE MoveVector(r) \/ VectorFails(r)
  <2>1. StepOf(r) \in {"control", "vectorPointer"}
    BY <1>0, <1>6 DEF MoveVector, VectorFails
  <2> QED
    BY <1>6, <2>1
<1>7. CASE Recovered(r) \/ GoBack(r) \/ RestoreLexical(r)
  BY <1>0, <1>7 DEF Recovered, GoBack, RestoreLexical
<1>8. CASE Publish(r) \/ PublishFails(r)
  BY <1>0, <1>8 DEF Publish, PublishFails
<1>9. CASE RecordFailure(r) \/ RecordFails(r)
  <2>1. StepOf(r) \in {"fail", "saveFailed"}
    BY <1>0, <1>9 DEF RecordFailure, RecordFails
  <2> QED
    BY <1>9, <2>1
<1> QED
  BY <1>1, <1>2, <1>3, <1>4, <1>5, <1>6, <1>7, <1>8, <1>9 DEF RequestNext

LEMMA GoneStep ==
  ASSUME Well, Registered, Gone, NEW r \in Requests, RequestNext(r)
  PROVE  Gone'
<1> USE DEF Well, Shapes
<1>1. RowMoves(r) /\ FileMoves(r) /\ Befallen(r) /\ Others(r)
  BY RegistryMoves, Turn
<1>2. removed \subseteq Sources /\ rows \in [Sources -> Statuses \cup {"none"}]
      /\ mishaps \in [Sources -> SUBSET {"overtaken", "interrupted", "disturbed"}]
  BY TypesApart DEF HistoriesTyped, StoresTyped
<1>3. \A s \in removed : s \notin unused
  BY DEF Registered, Begun
<1>4. ASSUME NEW s \in Sources, ~Ingesting(s), ~Register(r, s)
      PROVE  ~Ingesting(s)'
  <2> SUFFICES ASSUME NEW q \in Requests, request'[q].kind = "ingest", request'[q].source = s
               PROVE  FALSE
    BY DEF Ingesting
  <2> QED
    BY <1>4, IngestsSame DEF Ingesting
<1>5. ASSUME NEW s \in removed
      PROVE  /\ rows'[s] = "none"
             /\ "disturbed" \notin mishaps'[s] => ~Ingesting(s)'
             /\ "disturbed" \notin mishaps'[s] /\ ~Erasing(s)' => files'[s].status = "none"
  <2>1. s \in Sources /\ rows[s] = "none" /\ ~Register(r, s) /\ ~Remove(r, s)
    BY <1>2, <1>3 DEF Gone, Register, Remove, Exists
  <2>2. rows'[s] = "none"
    BY <1>1, <2>1 DEF RowMoves
  <2> SUFFICES ASSUME "disturbed" \notin mishaps'[s]
               PROVE  ~Ingesting(s)' /\ (~Erasing(s)' => files'[s].status = "none")
    BY <2>2
  <2>3. "disturbed" \notin mishaps[s] /\ ~Ingesting(s)
    BY <1>1, <2>1 DEF Befallen, Gone
  <2>4. ~Ingesting(s)'
    BY <1>4, <2>1, <2>3
  <2>5. ASSUME ~Erasing(s)'
        PROVE  files'[s].status = "none"
    <3>1. CASE ~Erasing(s)
      <4>1. files[s].status = "none"
        BY <2>3, <3>1 DEF Gone
      <4>2. StepOf(r) \in {"describe", "promise", "saveFailed"} => request[r].source # s
        <5>1. StepOf(r) \in {"describe", "promise", "saveFailed"} => request[r].kind = "ingest"
          BY StoringIngests DEF Storing, Failing
        <5> QED
          BY <2>3, <5>1 DEF Ingesting
      <4> QED
        BY <1>1, <2>1, <4>1, <4>2 DEF FileMoves
    <3>2. CASE Erasing(s)
      <4>1. request[r].kind = "remove" /\ request[r].source = s
        BY <1>1, <2>5, <3>2 DEF Erasing, Others
      <4>2. StepOf(r) = "erase"
        BY <4>1 DEF Shape, StepOf
      <4>3. Erase(r)
        BY <4>2, ActsAt
      <4>4. files' = [files EXCEPT ![s] = Emptied(s)] \/ Befalls({s}, "disturbed")
        BY <4>1, <4>3 DEF Erase
      <4>5. Befalls({s}, "disturbed") => "disturbed" \in mishaps'[s]
        BY <2>1 DEF Befalls
      <4>6. files \in [Sources -> FileRecord]
        BY TypesApart DEF StoresTyped
      <4> QED
        BY <2>1, <4>4, <4>5, <4>6 DEF Emptied
    <3> QED
      BY <3>1, <3>2
  <2> QED
    BY <2>4, <2>5
<1>6. ASSUME NEW s \in Sources, Remove(r, s)
      PROVE  /\ rows'[s] = "none" /\ Erasing(s)'
             /\ "disturbed" \notin mishaps'[s] => ~Ingesting(s)'
  <2>1. rows'[s] = "none"
    BY <1>2, <1>6 DEF Remove
  <2>2. Erasing(s)'
    <3>1. request'[r] = [Idle EXCEPT !.kind = "remove", !.source = s, !.left = <<"erase">>]
      BY <1>6, TypesApart DEF Remove
    <3>2. request'[r].kind = "remove" /\ request'[r].source = s
      BY <3>1 DEF Idle
    <3> QED
      BY <3>2 DEF Erasing
  <2>3. "disturbed" \notin mishaps'[s] => ~Ingesting(s)
    BY <1>6 DEF Remove, Befalls
  <2>4. ~Register(r, s)
    BY <1>6 DEF Remove, Register, Registered, Begun, Exists
  <2> QED
    BY <1>4, <2>1, <2>2, <2>3, <2>4
<1>7. \A s \in removed' : s \in removed \/ (s \in Sources /\ Remove(r, s))
  BY <1>1 DEF Befallen
<1> QED
  BY <1>5, <1>6, <1>7 DEF Gone

LEMMA GoneAll == Well /\ Registered /\ Gone /\ [IndexNext]_indexVars => Gone'
<1> SUFFICES ASSUME Well, Registered, Gone, [IndexNext]_indexVars
             PROVE  Gone'
  OBVIOUS
<1>1. ASSUME NEW r \in Requests, RequestNext(r)
      PROVE  Gone'
  BY <1>1, GoneStep
<1>2. CASE Restart
  <2> SUFFICES ASSUME NEW s \in removed
               PROVE  /\ rows'[s] = "none" /\ ~Ingesting(s)'
                      /\ "disturbed" \notin mishaps'[s] => files'[s].status = "none"
    BY <1>2 DEF Restart, Gone
  <2>1. s \in Sources /\ rows[s] = "none"
    BY TypesApart DEF Well, HistoriesTyped, Gone
  <2>2. rows'[s] = "none" /\ ~Ingesting(s)'
    BY <1>2, <2>1, RestartIdle DEF Restart, Well
  <2>3. ASSUME "disturbed" \notin mishaps'[s]
        PROVE  files'[s].status = "none"
    <3>1. "disturbed" \notin mishaps[s] /\ ~Erasing(s)
      BY <1>2, <2>1, <2>3 DEF Restart, Erasing
    <3> QED
      BY <1>2, <3>1 DEF Gone, Restart
  <2> QED
    BY <2>2, <2>3
<1>3. CASE UNCHANGED indexVars
  <2>1. UNCHANGED rows /\ UNCHANGED files /\ UNCHANGED request /\ UNCHANGED removed /\ UNCHANGED mishaps
    BY <1>3 DEF indexVars, stores, histories
  <2> QED
    BY <2>1 DEF Gone, Ingesting, Erasing
<1> QED
  BY <1>1, <1>2, <1>3 DEF IndexNext

LEMMA GoneIsUnseen == Gone => RemovedUnseen
<1> SUFFICES ASSUME Gone, NEW s \in removed, Listed(s)
             PROVE  ~Persistent /\ ("disturbed" \in mishaps[s] \/ Erasing(s))
  BY DEF RemovedUnseen
<1>1. ~Persistent /\ files[s].status # "none"
  BY DEF Gone, Listed, Exists
<1> QED
  BY <1>1 DEF Gone

-----------------------------------------------------------------------------
(* Sources that are READY *)

LEMMA ListReads ==
  ASSUME Well, NEW r \in Requests, RequestNext(r), Onwards(r, "list")
  PROVE  request'[r].view = {x \in Sources : IsReady(x)} \cup {request[r].source}
<1> USE DEF Well, Shapes
<1>1. At(r, "list") /\ StepOf(r) = "list" /\ GoesOn(r)
  BY Where DEF Onwards
<1>2. List(r)
  BY <1>1, ActsAt, RaisedStays
<1> DEFINE V == {x \in Sources : IsReady(x)} \cup {request[r].source}
<1>3. request'[r] = [Advanced(r) EXCEPT !.view = V]
  BY <1>2, TypesApart DEF List
<1>4. Advanced(r) \in RequestRecord
  BY <1>1, AtLeft DEF Advanced, RequestRecord
<1> HIDE DEF V
<1>5. request'[r].view = V
  BY <1>3, <1>4 DEF RequestRecord
<1> QED
  BY <1>5 DEF V

\* Where an activation goes: on, back, to the active generation or to an error.
LEMMA MovesOn ==
  ASSUME Well, Building, NEW r \in Requests, RequestNext(r), StepOf(r) \in Moving \ {"fail"}
  PROVE  \/ pointer'["vector"] = request[r].gen
         \/ /\ StepOf(r)' \in Moving
            /\ request'[r].kind = request[r].kind /\ request'[r].source = request[r].source
         \/ ~Records(r)
<1> USE DEF Well, Shapes
<1> USE Indices
<1>1. /\ Indexing(r) /\ At(r, StepOf(r)) /\ request[r].kind # "none" /\ deployment' = deployment
      /\ request[r].gen \in Generations
  <2>1. Indexing(r) /\ At(r, StepOf(r))
    BY Works DEF At, StepOf, Moving
  <2>2. request[r].gen \in Generations
    BY <2>1, OwnGeneration DEF Moving, Failing, Building
  <2> QED
    BY <2>1, <2>2, Where, Turn
<1>2. ~(\E s \in Sources : Begin(r, s) \/ Remove(r, s))
  <2>1. ASSUME NEW s \in Sources, Begin(r, s) \/ Remove(r, s)
        PROVE  request[r].kind = "none"
    BY <2>1 DEF Begin, Register, AskIndex, Remove, Begins, InFlight
  <2> QED
    BY <1>1, <2>1
<1>3. Continues(r)
  BY <1>2, Turn
<1>4. CASE Raise(r)
  <2>1. \/ ~Records(r)
        \/ StepOf(r)' = "fail" /\ Records(r) /\ request'[r].kind = "ingest" /\ request'[r].source = request[r].source
    BY <1>1, <1>4, ShapeOfError
  <2> QED
    BY <2>1 DEF Records, Moving
<1>5. CASE Detours(r)
  <2>1. PICK x \in {"control", "vectorPointer", "recover"}, y \in {"recover", "restore"} :
          At(r, x) /\ request' = [request EXCEPT ![r].left = <<y>>]
    BY <1>5 DEF Detours
  <2> QED
    BY <1>1, <2>1, ShapeOfDetour DEF Moving
<1>6. ASSUME NEW x, Onwards(r, x)
      PROVE  \/ pointer'["vector"] = request[r].gen
             \/ /\ StepOf(r)' \in Moving
                /\ request'[r].kind = request[r].kind /\ request'[r].source = request[r].source
  <2>1. x = StepOf(r) /\ GoesOn(r) /\ Follows(x, StepOf(r)')
    BY <1>1, <1>6, Where, WentOn DEF Onwards
  <2>2. x = "vectorPointer" => pointer'["vector"] = request[r].gen
    BY <1>1, <1>6, StepMoves DEF PartDone
  <2> QED
    BY <2>1, <2>2 DEF Moving, Follows, GoesOn
<1>7. CASE Finishes(r)
  <2>1. request'[r] = Idle /\ StepOf(r) \in {"publish", "vectorPointer", "recover", "restore"}
    BY <1>1, <1>7 DEF Finishes, Finals, Moving
  <2>2. request'[r].left = <<>>
    BY <2>1 DEF Idle
  <2>3. CASE StepOf(r) = "publish"
    <3>1. Publish(r) \/ Raise(r)
      BY <2>3, ActsAt DEF PublishFails
    <3>2. Publish(r) => pointer'["vector"] = request[r].gen
      BY DEF Publish
    <3> QED
      BY <1>4, <3>1, <3>2
  <2>4. CASE StepOf(r) = "vectorPointer"
    <3>1. ~VectorFails(r)
      <4>1. VectorFails(r) => request'[r].left = <<"recover">>
        BY TypesApart DEF VectorFails, RequestRecord
      <4> QED
        BY <2>2, <4>1
    <3>2. MoveVector(r)
      BY <2>4, <3>1, ActsAt
    <3> QED
      BY <3>2 DEF MoveVector
  <2>5. CASE StepOf(r) = "recover"
    <3>1. ~GoBack(r)
      <4>1. GoBack(r) => request'[r].left = <<"restore">>
        BY TypesApart DEF GoBack, RequestRecord
      <4> QED
        BY <2>2, <4>1
    <3>2. Recovered(r)
      BY <2>5, <3>1, ActsAt
    <3> QED
      BY <3>2 DEF Recovered, Moved, stores
  <2>6. CASE StepOf(r) = "restore"
    <3>1. Raise(r)
      BY <2>6, ActsAt DEF RestoreLexical
    <3> QED
      BY <1>4, <3>1
  <2> QED
    BY <2>1, <2>3, <2>4, <2>5, <2>6
<1> QED
  BY <1>3, <1>4, <1>5, <1>6, <1>7 DEF Continues

\* A request that has read its sources holds the one it was asked for.
LEMMA OwnInView ==
  ASSUME Well, Promised, NEW r \in Requests, RequestNext(r), NEW q \in Requests,
         Indexing(q)', StepOf(q)' \notin Unread
  PROVE  request'[q].source \in request'[q].view
<1> USE DEF Well, Shapes
<1>1. CASE q # r
  <2>1. request'[q] = request[q] /\ (Indexing(q) <=> Indexing(q)') /\ StepOf(q)' = StepOf(q)
    BY <1>1, Turn, Stays
  <2> QED
    BY <2>1 DEF Promised
<1>2. CASE q = r
  <2>1. CASE Proceeds(r)
    <3>1. /\ Indexing(r) /\ Onwards(r, StepOf(r)) /\ Follows(StepOf(r), StepOf(r)')
          /\ request'[r].source = request[r].source
      BY <1>2, <2>1 DEF Proceeds, Onwards, GoesOn
    <3>2. CASE StepOf(r) = "list"
      BY <1>2, <3>1, <3>2, ListReads
    <3>3. CASE StepOf(r) # "list"
      <4>1. StepOf(r) \notin Unread
        BY <1>2, <3>1, <3>3 DEF Follows, Unread, Failing
      <4> QED
        BY <1>2, <3>1, <3>3, <4>1 DEF Promised, Onwards
    <3> QED
      BY <3>2, <3>3
  <2>2. CASE Turns(r)
    BY <1>2, <2>2 DEF Turns, Promised, Unread, Failing
  <2>3. ~Starts(r) /\ ~GivesUp(r)
    BY <1>2 DEF Starts, GivesUp, Unread, Failing
  <2> QED
    BY <2>1, <2>2, <2>3, Becomes
<1> QED
  BY <1>1, <1>2

LEMMA ReadyIsListed ==
  ASSUME Registered, NEW s \in Sources, Said(s)
  PROVE  IsReady(s)
BY DEF Registered, FilesReady, Said, IsReady

\* A source becomes READY in one action, which nobody who lacks it may outlive unnoticed.
LEMMA NewlySaid ==
  ASSUME Well, Registered, NEW r \in Requests, RequestNext(r), NEW s \in Sources, ~Said(s), Said(s)'
  PROVE  /\ BecomeReady(r) /\ s = request[r].source /\ StepOf(r) = "ready" /\ Indexing(r)
         /\ request[r].kind = "ingest" /\ \A q \in Requests \ {r} : ~Lacks(q, s)
<1> USE DEF Well, Shapes
<1>1. RowMoves(r) /\ mishaps[s] \subseteq mishaps'[s] /\ rows'[s] = "READY" /\ SourceKind[s] # "database"
  BY RegistryMoves DEF Befallen, Said
<1>2. rows[s] # "READY"
  BY <1>1 DEF Said, Clean
<1>3. s = request[r].source /\ StepOf(r) = "ready" /\ BecomeReady(r)
  BY <1>1, <1>2 DEF RowMoves
<1>4. request[r].kind = "ingest" /\ Indexing(r)
  BY <1>1, <1>3, StoringIngests DEF Storing, Indexing, IsDatabase
<1>5. (\E q \in Requests \ {r} : Lacks(q, s)) => "overtaken" \in mishaps'[s]
  BY <1>3 DEF BecomeReady, Befalls
<1> QED
  BY <1>3, <1>4, <1>5 DEF Said, Clean

\* Whoever has still to move the pointer holds every source that is READY.
LEMMA HoldersStep ==
  ASSUME Well, Registered, Promised, NEW r \in Requests, RequestNext(r), NEW s \in Sources, Said(s)',
         NEW q \in Requests, request'[q].view # {}, Pending(q)'
  PROVE  s \in request'[q].view
<1> USE DEF Well, Shapes
<1>1. CASE q # r
  <2>1. request'[q] = request[q] /\ Pending(q)
    BY <1>1, Turn, Stays
  <2>2. CASE Said(s)
    BY <2>1, <2>2 DEF Promised
  <2>3. CASE ~Said(s)
    <3>1. ~Lacks(q, s)
      BY <1>1, <2>3, NewlySaid
    <3> QED
      BY <2>1, <3>1 DEF Lacks, Pending
  <2> QED
    BY <2>2, <2>3
<1>2. CASE q = r
  <2>1. Proceeds(r)
    BY <1>2, Becomes DEF Starts, GivesUp, Turns
  <2>2. Onwards(r, StepOf(r)) /\ deployment' = deployment
    BY <2>1, Turn DEF Proceeds
  <2>3. Pending(r)
    BY <1>2, <2>2, WentOn DEF Onwards
  <2>4. CASE StepOf(r) = "list"
    <3>1. Said(s)
      BY <2>4, NewlySaid
    <3>2. IsReady(s)
      BY <3>1, ReadyIsListed
    <3> QED
      BY <1>2, <2>2, <2>4, <3>2, ListReads
  <2>5. CASE StepOf(r) # "list"
    <3>1. request'[r].view = request[r].view
      BY <2>2, <2>5 DEF Onwards
    <3>2. CASE Said(s)
      BY <1>2, <2>3, <3>1, <3>2 DEF Promised
    <3>3. CASE ~Said(s)
      <4>1. s = request[r].source /\ StepOf(r) = "ready" /\ Indexing(r)
        BY <3>3, NewlySaid
      <4> QED
        BY <1>2, <3>1, <4>1 DEF Promised, Unread, Failing
    <3> QED
      BY <3>2, <3>3
  <2> QED
    BY <2>4, <2>5
<1> QED
  BY <1>1, <1>2

\* The generation that an activation makes active holds what was READY.
LEMMA NowIndexed ==
  ASSUME Well, Building, Promised, NEW r \in Requests, RequestNext(r), pointer'["vector"] = request[r].gen,
         StepOf(r) \in Moving \ {"fail"},
         NEW s \in Sources, s \in request[r].view
  PROVE  Indexed(s)'
<1> USE DEF Well, Shapes
<1>1. Indexing(r) /\ request[r].gen \in Generations /\ request[r].gen # 0
  BY Works, OwnGeneration DEF Moving, Failing, Building
<1>2. generation[request[r].gen].sources = request[r].view
  BY <1>1 DEF Building, HasBuilt, Loaded, Moving
<1>3. generation'[request[r].gen].sources = generation[request[r].gen].sources
  BY <1>1, StepMoves DEF GenerationMoves, Moving
<1> QED
  BY <1>1, <1>2, <1>3 DEF Indexed

LEMMA IndexedStep ==
  ASSUME Well, Building, Registered, Promised, NEW r \in Requests, RequestNext(r), NEW s \in Sources,
         Said(s)', Said(s), Indexed(s)
  PROVE  Indexed(s)'
<1> USE DEF Well, Shapes
<1> USE Indices
<1>1. PointerMoves(r) /\ GenerationMoves(r)
  BY StepMoves
<1>2. CASE pointer'["vector"] = pointer["vector"]
  <2>1. pointer["vector"] \in Generations
    BY Sizes DEF Indexed, Generations, Indexes
  <2>2. StepOf(r) = "load" => pointer["vector"] # request[r].gen
    BY Works DEF Building, HasBuilt, VectorsUnmoved
  <2> QED
    BY <1>1, <1>2, <2>1, <2>2 DEF GenerationMoves, Indexed
<1>3. CASE StepOf(r) \in {"vectorPointer", "publish"} /\ pointer'["vector"] = request[r].gen
  <2>1. Indexing(r)
    BY <1>3, Works
  <2>2. At(r, StepOf(r)) /\ Program(request[r].left)
    BY <1>3, <2>1 DEF At, StepOf, Shape
  <2>3. Pending(r)
    <3>1. request[r].left[1] = StepOf(r) /\ 1 \in DOMAIN request[r].left
      BY <2>2, Onward DEF At, StepOf
    <3> QED
      BY <1>3, <3>1 DEF Pending
  <2>4. s \in request[r].view
    BY <1>3, <2>1, <2>3 DEF Promised, Unread, Failing
  <2> QED
    BY <1>3, <2>4, NowIndexed DEF Moving
<1> QED
  BY <1>1, <1>2, <1>3 DEF PointerMoves

\* An ingestion that made its source READY indexes it, or says that it failed.
LEMMA MovingStep ==
  ASSUME Well, Building, Registered, Promised, NEW r \in Requests, RequestNext(r), NEW s \in Sources,
         Said(s)', Said(s), request[r].kind = "ingest", request[r].source = s, StepOf(r) \in Moving
  PROVE  Indexed(s)' \/ (request'[r].kind = "ingest" /\ request'[r].source = s /\ StepOf(r)' \in Moving)
<1> USE DEF Well, Shapes
<1>1. CASE StepOf(r) # "fail"
  <2>1. Indexing(r) /\ s \in request[r].view
    BY <1>1, Works DEF Promised, Moving, Unread, Failing
  <2>2. Records(r)
    BY <2>1 DEF Records, Indexing, IsDatabase
  <2> QED
    BY <1>1, <2>1, <2>2, MovesOn, NowIndexed
<1>2. CASE StepOf(r) = "fail"
  <2>1. CASE RecordFailure(r)
    <3>1. rows'[s] = "FAILED"
      BY <2>1, TypesApart DEF RecordFailure, Transition, StoresTyped
    <3> QED
      BY <3>1 DEF Said
  <2>2. CASE RecordFails(r)
    <3>1. "interrupted" \in mishaps'[s]
      BY <2>2 DEF RecordFails, Befalls
    <3> QED
      BY <3>1 DEF Said, Clean
  <2> QED
    BY <1>2, <2>1, <2>2, ActsAt
<1> QED
  BY <1>1, <1>2

LEMMA SaidStep ==
  ASSUME Well, Building, Registered, Promised, NEW r \in Requests, RequestNext(r), NEW s \in Sources, Said(s)'
  PROVE  Indexed(s)' \/ \E q \in Requests :
           request'[q].kind = "ingest" /\ request'[q].source = s /\ StepOf(q)' \in Moving
<1> USE DEF Well, Shapes
<1>1. CASE Said(s) /\ Indexed(s)
  BY <1>1, IndexedStep
<1>2. CASE Said(s) /\ ~Indexed(s)
  <2>1. PICK q \in Requests : request[q].kind = "ingest" /\ request[q].source = s /\ StepOf(q) \in Moving
    BY <1>2 DEF Promised
  <2>2. CASE q = r
    BY <1>2, <2>1, <2>2, MovingStep
  <2>3. CASE q # r
    <3>1. request'[q] = request[q] /\ StepOf(q)' = StepOf(q)
      BY <2>3, Turn, Stays
    <3> QED
      BY <2>1, <3>1
  <2> QED
    BY <2>2, <2>3
<1>3. CASE ~Said(s)
  <2>1. BecomeReady(r) /\ s = request[r].source /\ request[r].kind = "ingest" /\ Indexing(r)
    BY <1>3, NewlySaid
  <2>2. At(r, "ready") /\ Advance(r) /\ ~IsDatabase(r)
    BY <2>1 DEF BecomeReady, Indexing
  <2>3. GoesOn(r) /\ deployment' = deployment
    BY <2>2, AdvanceGoes, Turn DEF Finals
  <2>4. Follows("ready", StepOf(r)')
    BY <2>1, <2>2, <2>3, WentOn
  <2> QED
    BY <2>1, <2>3, <2>4 DEF Follows, Moving, GoesOn
<1> QED
  BY <1>1, <1>2, <1>3

LEMMA PromisedInit == IndexInit => Promised /\ Gone
<1> SUFFICES ASSUME IndexInit
             PROVE  Promised /\ Gone
  OBVIOUS
<1>1. /\ removed = {}
      /\ \A r \in Requests : request[r] = Idle /\ ~Indexing(r)
      /\ \A s \in Sources : rows[s] = "none"
  BY DEF IndexInit, Indexing, Idle
<1> QED
  BY <1>1 DEF Promised, Gone, Said

LEMMA PromisedStep == Well /\ Building /\ Registered /\ Promised /\ [IndexNext]_indexVars => Promised'
<1> SUFFICES ASSUME Well, Building, Registered, Promised, [IndexNext]_indexVars
             PROVE  Promised'
  OBVIOUS
<1>1. ASSUME NEW r \in Requests, RequestNext(r)
      PROVE  Promised'
  <2>1. \A q \in Requests : Indexing(q)' /\ StepOf(q)' \notin Unread => request'[q].source \in request'[q].view
    BY <1>1, OwnInView
  <2>2. ASSUME NEW s \in Sources, Said(s)'
        PROVE  /\ \A q \in Requests : request'[q].view # {} /\ Pending(q)' => s \in request'[q].view
               /\ Indexed(s)' \/ \E q \in Requests :
                    request'[q].kind = "ingest" /\ request'[q].source = s /\ StepOf(q)' \in Moving
    BY <1>1, <2>2, HoldersStep, SaidStep
  <2> QED
    BY <2>1, <2>2 DEF Promised
<1>2. CASE Restart
  <2>1. /\ \A q \in Requests : ~Indexing(q)' /\ ~Pending(q)'
        /\ pointer' = pointer /\ generation' = generation
    BY <1>2, RestartIdle DEF Restart, Well
  <2>2. ASSUME NEW s \in Sources, Said(s)'
        PROVE  Indexed(s)'
    <3>1. Said(s) /\ ~Ingesting(s)
      <4>1. rows[s] = "READY"
        BY <1>2, <2>2 DEF Restart, Said
      <4>2. mishaps[s] \subseteq mishaps'[s] /\ (Ingesting(s) => "interrupted" \in mishaps'[s])
        BY <1>2 DEF Restart, Ingesting
      <4> QED
        BY <2>2, <4>1, <4>2 DEF Said, Clean
    <3>2. Indexed(s)
      BY <3>1 DEF Promised, Ingesting
    <3> QED
      BY <2>1, <3>2 DEF Indexed
  <2> QED
    BY <2>1, <2>2 DEF Promised
<1>3. CASE UNCHANGED indexVars
  <2>1. UNCHANGED rows /\ UNCHANGED generation /\ UNCHANGED pointer /\ UNCHANGED request /\ UNCHANGED mishaps
    BY <1>3 DEF indexVars, stores, histories
  <2> QED
    BY <2>1 DEF Promised, Said, Clean, Pending, Indexed, Indexing, IsDatabase, StepOf
<1> QED
  BY <1>1, <1>2, <1>3 DEF IndexNext

\* The inductive invariant: each layer is kept by every step, given those named before it.
IndexInv == Well /\ Building /\ Agreeing /\ Registered /\ Promised /\ Gone

-----------------------------------------------------------------------------
(* Theorems *)

\* Every variable keeps its type, and what is left of a request is a list of steps that follow
\* each other up to one that ends it (the routes of sources.py).
THEOREM StepsAreListed == IndexSpec => []Well
<1> QED
  BY WellInit, WellStep, PTL DEF IndexSpec

\* Requests, failures and restarts leave every variable well typed.
THEOREM IndexTypes == IndexSpec => []IndexTypeOK
<1>1. Well => IndexTypeOK
  BY DEF Well
<1> QED
  BY <1>1, StepsAreListed, PTL

\* A generation has one builder, and nobody else writes it, deletes it or goes back to it while
\* it is named (the build and the activation of app/retrieval/indexing.py).
THEOREM BuildersAreAlone == IndexSpec => []Building
<1> QED
  BY BuildingInit, BuildingStep, StepsAreListed, PTL DEF IndexSpec

\* Rows, files and requests agree on how far the ingestion of a source is (registry.py).
THEOREM RowsFollow == IndexSpec => []Registered
<1> QED
  BY RegisteredInit, RegisteredStep, StepsAreListed, PTL DEF IndexSpec

\* The whole invariant: besides these layers, that an activation alone knows how far it has come,
\* that what is READY is indexed or about to be, and that what was removed is gone.
THEOREM IndexInvariance == IndexSpec => []IndexInv
<1>1. IndexInit => Agreeing /\ Promised /\ Gone
  BY AgreeingInit, PromisedInit
<1>2. Well /\ Agreeing /\ [IndexNext]_indexVars => Agreeing'
  BY AgreeingStep
<1>3. Well /\ Building /\ Registered /\ Promised /\ [IndexNext]_indexVars => Promised'
  BY PromisedStep
<1>4. Well /\ Registered /\ Gone /\ [IndexNext]_indexVars => Gone'
  BY GoneAll
<1> QED
  BY <1>1, <1>2, <1>3, <1>4, StepsAreListed, BuildersAreAlone, RowsFollow, PTL DEF IndexInv, IndexSpec

\* However requests interleave, fail and are cut, an active generation is whole: vectors and
\* lexical index are all there in both indexes, on every kind of deployment.
THEOREM PointersAreWhole == IndexSpec => []PointersWhole
<1>1. Building => PointersWhole
  BY DEF Building
<1> QED
  BY <1>1, BuildersAreAlone, PTL

\* At rest the two pointers name one generation, unless activations overlapped or one was cut or
\* could not tell how far it had come, and none has run alone since (the activation and the roll
\* back of app/retrieval/indexing.py).
THEOREM PointersDoAgree == IndexSpec => []PointersAgree
<1>1. Agreeing => PointersAgree
  BY DEF Agreeing
<1> QED
  BY <1>1, IndexInvariance, PTL DEF IndexInv

\* A source that says READY is indexed, unless a request that had not read it moved the pointer
\* after it or its own failure could not be recorded (the order of the steps in sources.py: READY
\* is written before the pointers move).
THEOREM ReadyMeansIndexed == IndexSpec => []ReadyIndexedLocally
<1>1. Promised => ReadyIndexedLocally
  BY DEF Promised, ReadyIndexedLocally, Said, Clean, Indexed, Ingesting
<1> QED
  BY <1>1, IndexInvariance, PTL DEF IndexInv

\* A removed source is not seen again, unless its ingestion was at work or its files stayed, and
\* never where the registry is durable (the removal of sources.py).
THEOREM RemovedStaysUnseen == IndexSpec => []RemovedUnseen
<1> QED
  BY GoneIsUnseen, IndexInvariance, PTL DEF IndexInv
=============================================================================
