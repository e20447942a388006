--------------------------- MODULE PublicationProofs ---------------------------
(* Theorems about Publication, for any jobs, sources and requests. *)
EXTENDS Publication, FiniteSetTheorems, TLAPS

USE DEF SnapshotOf

(***************************************************************************)
(* Types.  The rows and the stores are looked after apart from the slots   *)
(* of requests, which every action but those of users moves.               *)
(***************************************************************************)

RowsOK ==
  /\ spec \in [JobIds -> JobSpecs \cup {None}]
  /\ created \in [JobIds -> Nat]
  /\ status \in [JobIds -> {"absent", "open", "failed"} \cup Ended]
  /\ stage \in [JobIds -> Stages]
  /\ holder \in JobIds \cup {None}
  /\ source \in [Sources -> {"absent", "registered", "indexing", "ready", "failed"}]
  /\ stored \in SUBSET Documents
  /\ deletion \in [Sources -> {"none", "checked", "removed"}]

StoresOK ==
  /\ snapshot \in [JobIds -> SUBSET Documents]
  /\ embedded \in [JobIds -> SUBSET Documents]
  /\ vectors \in [JobIds -> SUBSET Documents]
  /\ lexical \in [JobIds -> [docs : SUBSET Documents, whole : BOOLEAN]]
  /\ manifest \in [JobIds -> SUBSET Documents]
  /\ active \in JobIds \cup {None}
  /\ rewritten \in SUBSET JobIds
  /\ missed \in SUBSET Sources

SlotsOK ==
  /\ request \in [Requests -> RequestType]
  /\ \A q \in Requests : request[q].pc # "off" => request[q].job \in JobIds

\* TypeOK is the conjunction of the three.
LEMMA TypeParts == TypeOK <=> RowsOK /\ StoresOK /\ SlotsOK
BY DEF TypeOK, RowsOK, StoresOK, SlotsOK

\* A request at work is for a job, and a slot that is not in use is well typed.
LEMMA Slot ==
  ASSUME TypeOK, NEW q \in Requests
  PROVE  /\ request[q] \in RequestType
         /\ request[q].stage \in Stages
         /\ request[q].docs \in SUBSET Documents
         /\ request[q].pc # "off" => request[q].job \in JobIds
         /\ Idle \in RequestType
BY DEF TypeOK, RequestType, Idle, Stages

\* The documents of a source are documents.
LEMMA ContentsType ==
  ASSUME NEW s \in Sources, NEW e \in Editions
  PROVE  Contents(s, e) \in SUBSET Documents
BY PublicationAssumption DEF Contents, Documents

\* The number of a job is a natural number.
LEMMA NowType == Now \in Nat
<1>1. Jobs \subseteq JobIds /\ IsFiniteSet(JobIds)
  BY PublicationAssumption DEF Jobs
<1>2. IsFiniteSet(Jobs)
  BY <1>1, FS_Subset
<1> QED
  BY <1>2, FS_CardinalityType DEF Now

\* Only the slot of q changes: its job and stage do not, unless it is taken into or out of use.
Moves(q, w) ==
  /\ w \in RequestType
  /\ w.pc # "off" => w.job \in JobIds
  /\ request' = [request EXCEPT ![q] = w]

\* A slot that moves keeps the types, and the other slots are as before.
LEMMA MovesType ==
  ASSUME TypeOK, NEW q \in Requests, NEW w, Moves(q, w)
  PROVE  /\ SlotsOK'
         /\ request'[q] = w
         /\ \A p \in Requests : p # q => request'[p] = request[p]
BY DEF TypeOK, Moves, SlotsOK

\* A request goes on to the next part of its work.
LEMMA GotoMoves ==
  ASSUME TypeOK, NEW q \in Requests, request[q].pc # "off",
         NEW pc \in {"begin", "index", "write", "rest", "verify", "point", "ready", "commit"},
         Goto(q, pc)
  PROVE  Moves(q, [request[q] EXCEPT !.pc = pc])
BY DEF TypeOK, RequestType, Goto, Moves

\* A request goes on with documents it has read.
LEMMA TakesMoves ==
  ASSUME TypeOK, NEW q \in Requests, request[q].pc # "off", NEW docs \in SUBSET Documents,
         request' = [request EXCEPT ![q].pc = "write", ![q].docs = docs]
  PROVE  Moves(q, [request[q] EXCEPT !.pc = "write", !.docs = docs])
BY DEF TypeOK, RequestType, Moves

-----------------------------------------------------------------------------
(***************************************************************************)
(* What keeps the invariant: what has been left behind is not taken away,  *)
(* the stages stay, and the request that moves leaves what it has to.      *)
(***************************************************************************)

Grows ==
  \A j \in JobIds :
    /\ snapshot[j] # {} => snapshot'[j] # {}
    /\ vectors[j] # {} => vectors'[j] # {}
    /\ lexical[j].whole => lexical'[j].whole
    /\ manifest[j] # {} => manifest'[j] # {}

\* A request that does not move leaves what it left before.
LEMMA OthersLeave ==
  ASSUME Inv, Grows, NEW p \in Requests, request'[p] = request[p], request[p].pc # "off"
  PROVE  Leaves(request[p])'
<1>1. request[p].job \in JobIds /\ Leaves(request[p])
  BY DEF Inv, TypeOK, RequestsLeave
<1> QED
  BY <1>1 DEF Leaves, Grows

\* Stages that stay have what they need.
LEMMA StagesKept ==
  ASSUME Inv, Grows, stage' = stage
  PROVE  StagesLeave'
BY DEF Inv, StagesLeave, Grows

\* A step of a request that does not commit keeps the invariant.
LEMMA StepKeeps ==
  ASSUME Inv, Grows, RowsOK', StoresOK', Created', stage' = stage,
         NEW q \in Requests, NEW w, Moves(q, w),
         request'[q].pc # "off" => Leaves(request[q])'
  PROVE  Inv'
<1>1. SlotsOK' /\ \A p \in Requests : p # q => request'[p] = request[p]
  BY MovesType DEF Inv
<1>2. TypeOK'
  BY <1>1, TypeParts DEF TypeOK, RowsOK, StoresOK, SlotsOK
<1>3. StagesLeave'
  BY StagesKept
<1>4. ASSUME NEW p \in Requests, request'[p].pc # "off" PROVE Leaves(request[p])'
  <2>1. CASE p = q
    BY <1>4, <2>1
  <2>2. CASE p # q
    BY <1>1, <1>4, <2>2, OthersLeave
  <2> QED
    BY <2>1, <2>2
<1> QED
  BY <1>2, <1>3, <1>4 DEF Inv, RequestsLeave

\* So does a step of a user, which moves no request.
LEMMA UserKeeps ==
  ASSUME Inv, RowsOK', Created', stage' = stage, UNCHANGED <<storeVars, active, request, histories>>
  PROVE  Inv'
<1>1. Grows
  BY DEF Grows, storeVars
<1>2. TypeOK'
  BY TypeParts DEF Inv, TypeOK, RowsOK, StoresOK, SlotsOK, storeVars, histories
<1>3. StagesLeave'
  BY <1>1, StagesKept
<1>4. ASSUME NEW p \in Requests, request'[p].pc # "off" PROVE Leaves(request[p])'
  BY <1>1, <1>4, OthersLeave
<1> QED
  BY <1>2, <1>3, <1>4 DEF Inv, RequestsLeave

\* Nothing is in the stores at the beginning.
LEMMA InvInit == Init => Inv
<1> SUFFICES ASSUME Init PROVE Inv
  OBVIOUS
<1>1. Idle \in RequestType
  BY DEF Idle, RequestType, Stages
<1>2. NoLexical \in [docs : SUBSET Documents, whole : BOOLEAN]
  BY DEF NoLexical
<1>3. TypeOK
  <2>1. stored \in SUBSET Documents
    BY ContentsType, PublicationAssumption DEF Init
  <2> QED
    BY <1>1, <1>2, <2>1 DEF Init, TypeOK, Stages, Idle
<1>4. StagesLeave
  BY DEF Init, StagesLeave, Gathered, Uploaded, Indexing
<1>5. RequestsLeave /\ Created
  BY DEF Init, RequestsLeave, Created, Idle
<1> QED
  BY <1>3, <1>4, <1>5 DEF Inv

-----------------------------------------------------------------------------
(* The steps of users: jobs and removals *)

\* Creating, cancelling and giving up a job touch neither stores nor requests.
LEMMA JobsKeep ==
  ASSUME Inv, NEW j \in JobIds,
         \/ \E s \in JobSpecs : Create(j, s)
         \/ Cancel(j)
         \/ MarkFailed(j)
  PROVE  Inv'
<1>1. RowsOK /\ Created
  BY TypeParts DEF Inv
<1>2. RowsOK' /\ Created' /\ stage' = stage /\ UNCHANGED <<storeVars, active, request, histories>>
  <2>1. ASSUME NEW s \in JobSpecs, Create(j, s)
        PROVE  RowsOK' /\ Created' /\ stage' = stage /\ UNCHANGED <<storeVars, active, request, histories>>
    BY <1>1, <2>1, NowType DEF Create, RowsOK, Created, sourceVars
  <2>2. CASE Cancel(j)
    BY <1>1, <2>2 DEF Cancel, Cancellable, RowsOK, Created, sourceVars, Ended
  <2>3. CASE MarkFailed(j)
    BY <1>1, <2>3 DEF MarkFailed, RowsOK, Created, sourceVars
  <2> QED
    BY <2>1, <2>2, <2>3
<1> QED
  BY <1>2, UserKeeps

\* Removing a source, by hand or by age, touches none of the artifacts of jobs.
LEMMA DeletionKeeps ==
  ASSUME Inv, NEW s \in Sources,
         \/ CheckDeletion(s)
         \/ DeleteRow(s)
         \/ Expire(s)
         \/ DeleteStored(s)
         \/ DeletionStops(s)
  PROVE  Inv'
<1>1. RowsOK /\ Created
  BY TypeParts DEF Inv
<1>2. RowsOK' /\ Created' /\ stage' = stage /\ UNCHANGED <<storeVars, active, request, histories>>
  <2>1. CASE CheckDeletion(s)
    BY <1>1, <2>1 DEF CheckDeletion, RowsOK, Created, jobVars
  <2>2. CASE DeleteRow(s)
    BY <1>1, <2>2 DEF DeleteRow, RowsOK, Created, jobVars
  <2>3. CASE Expire(s)
    BY <1>1, <2>3 DEF Expire, RowsOK, Created, jobVars
  <2>4. CASE DeleteStored(s)
    BY <1>1, <2>4 DEF DeleteStored, RowsOK, Created, jobVars
  <2>5. CASE DeletionStops(s)
    BY <1>1, <2>5 DEF DeletionStops, RowsOK, Created, jobVars
  <2> QED
    BY <2>1, <2>2, <2>3, <2>4, <2>5
<1> QED
  BY <1>2, UserKeeps

-----------------------------------------------------------------------------
(* The steps of requests *)

\* A request that ends leaves its slot as it was before.
LEMMA EndMoves ==
  ASSUME TypeOK, NEW q \in Requests, request' = [request EXCEPT ![q] = Idle]
  PROVE  Moves(q, Idle) /\ request'[q].pc = "off"
BY Slot DEF Moves, Idle, TypeOK

\* A request that arrives finds what the stages before the current one have left.
LEMMA ReadKeeps ==
  ASSUME Inv, NEW q \in Requests, NEW j \in JobIds, Read(q, j)
  PROVE  Inv'
<1> DEFINE w == [pc |-> "begin", job |-> j, stage |-> stage[j], docs |-> {}]
<1>1. TypeOK /\ StagesLeave /\ stage[j] \in Stages
  BY DEF Inv, TypeOK
<1>2. Moves(q, w)
  BY <1>1 DEF Read, Moves, RequestType
<1>3. request'[q] = w
  BY <1>1, <1>2, MovesType
<1>4. UNCHANGED <<jobVars, sourceVars, storeVars, active, histories>>
  BY DEF Read
<1>5. RowsOK' /\ StoresOK'
  BY <1>1, <1>4, TypeParts DEF RowsOK, StoresOK, jobVars, sourceVars, storeVars, histories
<1>6. Grows /\ stage' = stage
  BY <1>4 DEF Grows, storeVars, jobVars
<1>7. Leaves(request[q])'
  BY <1>1, <1>3, <1>4 DEF StagesLeave, Leaves, storeVars, jobVars
<1>8. Created'
  BY <1>1, <1>2, <1>3, <1>4, MovesType DEF Inv, Created, Read, jobVars
<1> QED
  BY <1>2, <1>5, <1>6, <1>7, <1>8, StepKeeps

\* A request that fails or is lost leaves the stores as they are.
LEMMA EndKeeps ==
  ASSUME Inv, NEW q \in Requests, Raise(q) \/ Lose(q)
  PROVE  Inv'
<1>1. TypeOK /\ RowsOK /\ StoresOK /\ (request[q].pc # "off" => request[q].job \in JobIds)
  BY TypeParts, Slot DEF Inv
<1>2. Moves(q, Idle) /\ request'[q].pc = "off"
  BY <1>1, EndMoves DEF Raise, Lose
<1>3. stage' = stage /\ UNCHANGED <<storeVars, active, histories>>
  BY DEF Raise, Lose, jobVars
<1>4. StoresOK' /\ Grows
  BY <1>1, <1>3 DEF StoresOK, Grows, storeVars, histories
<1>5. RowsOK'
  BY <1>1 DEF RowsOK, Raise, Lose, jobVars, sourceVars
<1>6. Created'
  BY <1>1, <1>2, MovesType DEF Inv, Created, RowsOK, Raise, Lose, jobVars
<1> QED
  BY <1>2, <1>3, <1>4, <1>5, <1>6, StepKeeps

\* The work of a stage is for the job that the request was for.
LEMMA WorkCreated ==
  ASSUME Inv, NEW q \in Requests, NEW w, Moves(q, w), request[q].pc # "off",
         request'[q].job = request[q].job, UNCHANGED jobVars
  PROVE  Created'
<1>1. TypeOK /\ Created
  BY DEF Inv
<1>2. \A p \in Requests : p # q => request'[p] = request[p]
  BY <1>1, MovesType
<1> QED
  BY <1>1, <1>2 DEF Created, jobVars

\* parse: no store is touched that a later stage reads.
LEMMA ParseKeeps ==
  ASSUME Inv, NEW q \in Requests, CreateSource(q) \/ BeginIndexing(q) \/ SaveDocuments(q) \/ FindSource(q)
  PROVE  Inv'
<1>1. TypeOK /\ RowsOK /\ StoresOK /\ request[q].stage = "parse" /\ request[q].pc # "off"
  BY TypeParts DEF Inv, CreateSource, BeginIndexing, SaveDocuments, FindSource, At
<1>2. PICK pc \in {"index", "write", "commit"} : Goto(q, pc)
  BY DEF CreateSource, BeginIndexing, SaveDocuments, FindSource
<1> DEFINE w == [request[q] EXCEPT !.pc = pc]
<1>3. Moves(q, w)
  BY <1>1, <1>2, GotoMoves
<1>4. request'[q] = w /\ w.stage = "parse" /\ w.job = request[q].job
  BY <1>1, <1>3, MovesType, Slot DEF RequestType
<1>5. stage' = stage /\ UNCHANGED <<storeVars, active, histories>>
  BY DEF CreateSource, BeginIndexing, SaveDocuments, FindSource, jobVars
<1>6. StoresOK' /\ Grows
  BY <1>1, <1>5 DEF StoresOK, Grows, storeVars, histories
<1>7. RowsOK'
  <2>1. Own(q) \in Sources
    BY <1>1 DEF Inv, Created, Own, JobSpecs
  <2>2. CASE SaveDocuments(q)
    <3>1. PICK e \in Editions :
            stored' = {d \in stored : d.source # Own(q)} \cup Contents(Own(q), e)
      BY <2>2, PublicationAssumption DEF SaveDocuments, Parsed
    <3>2. stored' \in SUBSET Documents
      BY <1>1, <2>1, <3>1, ContentsType DEF RowsOK
    <3> QED
      BY <1>1, <2>2, <3>2 DEF RowsOK, SaveDocuments, jobVars
  <2>3. CASE ~ SaveDocuments(q)
    BY <1>1, <2>1, <2>3 DEF RowsOK, CreateSource, BeginIndexing, FindSource, jobVars, sourceVars
  <2> QED
    BY <2>2, <2>3
<1> HIDE DEF w
<1>8. Leaves(request[q])'
  BY <1>4 DEF Leaves, Gathered, Uploaded, Indexing
<1>9. Created'
  BY <1>1, <1>3, <1>4, WorkCreated DEF CreateSource, BeginIndexing, SaveDocuments, FindSource
<1> QED
  BY <1>3, <1>5, <1>6, <1>7, <1>8, <1>9, StepKeeps

\* The artifacts of a stage are written for the documents that the request has read.
LEMMA SnapshotKeeps ==
  ASSUME Inv, NEW q \in Requests, Gather(q) \/ WriteSnapshot(q)
  PROVE  Inv'
<1>1. TypeOK /\ RowsOK /\ StoresOK /\ request[q].stage = "snapshot" /\ request[q].pc # "off"
  BY TypeParts DEF Inv, Gather, WriteSnapshot, At
<1>2. request[q].job \in JobIds /\ request[q].docs \in SUBSET Documents
  BY <1>1, Slot
<1>3. CASE Gather(q)
  <2> DEFINE w == [request[q] EXCEPT !.pc = "write", !.docs = DocumentsOf(q)]
  <2>1. DocumentsOf(q) \in SUBSET Documents /\ DocumentsOf(q) # {}
    BY <1>1, <1>3 DEF DocumentsOf, Holds, RowsOK, Gather
  <2>2. Moves(q, w)
    BY <1>1, <1>3, <2>1, TakesMoves DEF Gather
  <2>3. /\ request'[q] = w /\ w.stage = "snapshot" /\ w.job = request[q].job
        /\ w.pc = "write" /\ w.docs # {}
    BY <1>1, <2>1, <2>2, MovesType, Slot DEF RequestType
  <2>4. UNCHANGED <<jobVars, sourceVars, storeVars, active, rewritten>>
    BY <1>3 DEF Gather
  <2>10. missed' \in SUBSET Sources
    BY <1>1, <1>3 DEF Gather, StoresOK, Inv, Created, Own, JobSpecs
  <2>5. RowsOK' /\ StoresOK' /\ Grows /\ stage' = stage
    BY <1>1, <2>4, <2>10 DEF RowsOK, StoresOK, Grows, jobVars, sourceVars, storeVars
  <2> HIDE DEF w
  <2>6. Leaves(request[q])'
    BY <2>3 DEF Leaves, Gathered, Uploaded, Indexing
  <2>7. Created'
    BY <1>1, <2>2, <2>3, <2>4, WorkCreated
  <2> QED
    BY <2>2, <2>5, <2>6, <2>7, StepKeeps
<1>4. CASE WriteSnapshot(q)
  <2> DEFINE w == [request[q] EXCEPT !.pc = "commit"]
  <2>1. request[q].docs # {}
    BY <1>4 DEF Inv, RequestsLeave, Leaves, WriteSnapshot, At
  <2>2. Moves(q, w)
    BY <1>1, <1>4, GotoMoves DEF WriteSnapshot
  <2>3. request'[q] = w /\ w.stage = "snapshot" /\ w.job = request[q].job /\ w.pc = "commit"
    BY <1>1, <2>2, MovesType, Slot DEF RequestType
  <2>4. /\ snapshot' = [snapshot EXCEPT ![request[q].job] = request[q].docs]
        /\ UNCHANGED <<jobVars, sourceVars, embedded, vectors, lexical, manifest, active, missed>>
        /\ rewritten' \in {rewritten, rewritten \cup {request[q].job}}
    BY <1>4 DEF WriteSnapshot
  <2>5. RowsOK' /\ stage' = stage
    BY <1>1, <2>4 DEF RowsOK, jobVars, sourceVars
  <2>6. StoresOK'
    BY <1>1, <1>2, <2>4 DEF StoresOK
  <2>7. Grows /\ snapshot'[request[q].job] # {}
    BY <1>1, <1>2, <2>1, <2>4 DEF StoresOK, Grows
  <2> HIDE DEF w
  <2>8. Leaves(request[q])'
    BY <2>3, <2>7 DEF Leaves, Gathered, Uploaded, Indexing
  <2>9. Created'
    BY <1>1, <2>2, <2>3, <2>4, WorkCreated
  <2> QED
    BY <2>2, <2>5, <2>6, <2>7, <2>8, <2>9, StepKeeps
<1> QED
  BY <1>3, <1>4

\* embed and lexical read a snapshot that is there.
LEMMA LoadKeeps ==
  ASSUME Inv, NEW q \in Requests, Load(q)
  PROVE  Inv'
<1> DEFINE docs == snapshot[request[q].job]
           w == [request[q] EXCEPT !.pc = "write", !.docs = docs]
<1>1. /\ TypeOK /\ RowsOK /\ StoresOK /\ Leaves(request[q])
      /\ request[q].stage \in {"embed", "lexical"} /\ request[q].pc # "off"
  BY TypeParts DEF Inv, RequestsLeave, Load, At
<1>2. request[q].job \in JobIds
  BY <1>1, Slot
<1>3. docs \in SUBSET Documents /\ docs # {}
  BY <1>1, <1>2 DEF StoresOK, Leaves, Gathered
<1>4. Moves(q, w)
  BY <1>1, <1>3, TakesMoves DEF Load
<1>5. /\ request'[q] = w /\ w.stage = request[q].stage /\ w.job = request[q].job
      /\ w.pc = "write" /\ w.docs # {}
  BY <1>1, <1>3, <1>4, MovesType, Slot DEF RequestType
<1>6. UNCHANGED <<jobVars, sourceVars, storeVars, active, histories>>
  BY DEF Load
<1>7. RowsOK' /\ StoresOK' /\ Grows /\ stage' = stage
  BY <1>1, <1>6 DEF RowsOK, StoresOK, Grows, jobVars, sourceVars, storeVars, histories
<1> HIDE DEF w, docs
<1>8. Leaves(request[q])'
  BY <1>1, <1>5, <1>6 DEF Leaves, storeVars
<1>9. Created'
  BY <1>1, <1>4, <1>5, <1>6, WorkCreated
<1> QED
  BY <1>4, <1>7, <1>8, <1>9, StepKeeps

\* embed: vectors are added, never taken away.
LEMMA EmbedKeeps ==
  ASSUME Inv, NEW q \in Requests, Embed(q) \/ Upsert(q)
  PROVE  Inv'
<1>1. /\ TypeOK /\ RowsOK /\ StoresOK /\ Leaves(request[q])
      /\ request[q].stage = "embed" /\ request[q].pc \in {"write", "rest"}
  BY TypeParts DEF Inv, RequestsLeave, Embed, Upsert, At
<1>2. request[q].job \in JobIds /\ request[q].docs \in SUBSET Documents /\ request[q].docs # {}
  BY <1>1, Slot DEF Leaves
<1>3. PICK pc \in {"rest", "commit"} : Goto(q, pc) /\ (pc = "commit" => Upsert(q))
  BY <1>1 DEF Embed, Upsert
<1> DEFINE w == [request[q] EXCEPT !.pc = pc]
<1>4. Moves(q, w)
  BY <1>1, <1>3, GotoMoves
<1>5. /\ request'[q] = w /\ w.stage = "embed" /\ w.job = request[q].job
      /\ w.pc = pc /\ w.docs # {}
  BY <1>1, <1>2, <1>4, MovesType, Slot DEF RequestType
<1>6. UNCHANGED <<jobVars, sourceVars, snapshot, lexical, manifest, active, rewritten, missed>>
  BY DEF histories, Embed, Upsert
<1>7. RowsOK' /\ stage' = stage
  BY <1>1, <1>6 DEF RowsOK, jobVars, sourceVars
<1>8. /\ vectors' \in [JobIds -> SUBSET Documents]
      /\ \A j \in JobIds : vectors[j] # {} => vectors'[j] # {}
  BY <1>1, <1>2 DEF StoresOK, Embed, Upsert, Replace
<1>9. embedded' \in [JobIds -> SUBSET Documents]
  BY <1>1, <1>2 DEF StoresOK, Embed, Upsert
<1>10. StoresOK' /\ Grows
  BY <1>1, <1>6, <1>8, <1>9 DEF StoresOK, Grows
<1>11. Upsert(q) => vectors'[request[q].job] # {}
  BY <1>1, <1>2 DEF StoresOK, Upsert, Replace
<1> HIDE DEF w
<1>12. Leaves(request[q])'
  BY <1>1, <1>3, <1>5, <1>6, <1>11 DEF Leaves, Uploaded, Indexing
<1>13. Created'
  BY <1>1, <1>4, <1>5, <1>6, WorkCreated
<1> QED
  BY <1>4, <1>7, <1>10, <1>12, <1>13, StepKeeps

\* lexical: blobs are written once, metadata.json last.
LEMMA UploadKeeps ==
  ASSUME Inv, NEW q \in Requests, UploadIndex(q) \/ UploadRest(q)
  PROVE  Inv'
<1>1. /\ TypeOK /\ RowsOK /\ StoresOK /\ Leaves(request[q])
      /\ request[q].stage = "lexical" /\ request[q].pc \in {"write", "rest"}
  BY TypeParts DEF Inv, RequestsLeave, UploadIndex, UploadRest, At
<1>2. request[q].job \in JobIds /\ request[q].docs \in SUBSET Documents /\ request[q].docs # {}
  BY <1>1, Slot DEF Leaves
<1>3. PICK pc \in {"rest", "commit"} : Goto(q, pc) /\ (pc = "commit" => UploadRest(q))
  BY <1>1 DEF UploadIndex, UploadRest
<1> DEFINE w == [request[q] EXCEPT !.pc = pc]
<1>4. Moves(q, w)
  BY <1>1, <1>3, GotoMoves
<1>5. /\ request'[q] = w /\ w.stage = "lexical" /\ w.job = request[q].job
      /\ w.pc = pc /\ w.docs # {}
  BY <1>1, <1>2, <1>4, MovesType, Slot DEF RequestType
<1>6. /\ UNCHANGED <<jobVars, sourceVars, snapshot, embedded, vectors, manifest, active>>
      /\ UNCHANGED <<rewritten, missed>>
  BY DEF histories, UploadIndex, UploadRest
<1>7. RowsOK' /\ stage' = stage
  BY <1>1, <1>6 DEF RowsOK, jobVars, sourceVars
<1>8. /\ lexical' \in [JobIds -> [docs : SUBSET Documents, whole : BOOLEAN]]
      /\ \A j \in JobIds : lexical[j].whole => lexical'[j].whole
      /\ UploadRest(q) => lexical'[request[q].job].whole
  <2>1. lexical \in [JobIds -> [docs : SUBSET Documents, whole : BOOLEAN]]
    BY <1>1 DEF StoresOK
  <2>2. CASE UploadIndex(q)
    <3>1. lexical' = [lexical EXCEPT ![request[q].job].docs = request[q].docs]
          /\ request[q].pc = "write"
      BY <2>2 DEF UploadIndex, At
    <3>2. ~ UploadRest(q)
      BY <3>1 DEF UploadRest, At
    <3> QED
      BY <1>2, <2>1, <3>1, <3>2
  <2>3. CASE UploadRest(q)
    <3>1. lexical' = [lexical EXCEPT ![request[q].job].whole = TRUE]
      BY <2>3 DEF UploadRest
    <3> QED
      BY <1>2, <2>1, <3>1
  <2> QED
    BY <2>2, <2>3
<1>9. StoresOK' /\ Grows
  BY <1>1, <1>6, <1>8 DEF StoresOK, Grows
<1> HIDE DEF w
<1>10. Leaves(request[q])'
  BY <1>1, <1>3, <1>5, <1>6, <1>8 DEF Leaves, Indexing
<1>11. Created'
  BY <1>1, <1>4, <1>5, <1>6, WorkCreated
<1> QED
  BY <1>4, <1>7, <1>9, <1>10, <1>11, StepKeeps

\* publish: the stages before it have left the generation whole.
LEMMA PublishKeeps ==
  ASSUME Inv, NEW q \in Requests,
         WriteManifest(q) \/ VerifyLexical(q) \/ PublishPointer(q) \/ MakeReady(q)
  PROVE  Inv'
<1>1. /\ TypeOK /\ RowsOK /\ StoresOK /\ Leaves(request[q])
      /\ request[q].stage = "publish" /\ request[q].pc # "off"
  BY TypeParts DEF Inv, RequestsLeave, WriteManifest, VerifyLexical, PublishPointer, MakeReady, At
<1>2. request[q].job \in JobIds
  BY <1>1, Slot
<1>3. PICK pc \in {"verify", "point", "ready", "commit"} :
        Goto(q, pc) /\ (request[q].pc = "begin" => WriteManifest(q))
  BY DEF WriteManifest, VerifyLexical, PublishPointer, MakeReady, At
<1> DEFINE w == [request[q] EXCEPT !.pc = pc]
<1>4. Moves(q, w)
  BY <1>1, <1>3, GotoMoves
<1>5. request'[q] = w /\ w.stage = "publish" /\ w.job = request[q].job /\ w.pc = pc
  BY <1>1, <1>4, MovesType, Slot DEF RequestType
<1>6. /\ UNCHANGED <<jobVars, stored, deletion, snapshot, embedded, vectors, lexical>>
      /\ UNCHANGED <<rewritten, missed>>
  BY DEF histories, WriteManifest, VerifyLexical, PublishPointer, MakeReady, jobVars, sourceVars, storeVars
<1>7. RowsOK' /\ stage' = stage
  <2>1. Own(q) \in Sources
    BY <1>1 DEF Inv, Created, Own, JobSpecs
  <2>2. source' \in [Sources -> {"absent", "registered", "indexing", "ready", "failed"}]
    BY <1>1, <2>1 DEF RowsOK, WriteManifest, VerifyLexical, PublishPointer, MakeReady, sourceVars
  <2> QED
    BY <1>1, <1>6, <2>2 DEF RowsOK, jobVars
<1>8. snapshot[request[q].job] # {}
  BY <1>1 DEF Leaves, Gathered
<1>9. /\ manifest' \in [JobIds -> SUBSET Documents]
      /\ \A j \in JobIds : manifest[j] # {} => manifest'[j] # {}
      /\ manifest'[request[q].job] # {}
  <2>1. CASE WriteManifest(q)
    BY <1>1, <1>2, <1>8, <2>1 DEF StoresOK, WriteManifest
  <2>2. CASE ~ WriteManifest(q)
    <3>1. manifest' = manifest
      BY <2>2 DEF WriteManifest, VerifyLexical, PublishPointer, MakeReady, storeVars
    <3>2. manifest[request[q].job] # {}
      BY <1>1, <1>3, <2>2 DEF Leaves
    <3> QED
      BY <1>1, <3>1, <3>2 DEF StoresOK
  <2> QED
    BY <2>1, <2>2
<1>10. active' \in JobIds \cup {None}
  BY <1>1, <1>2 DEF StoresOK, WriteManifest, VerifyLexical, PublishPointer, MakeReady
<1>11. StoresOK' /\ Grows
  BY <1>1, <1>6, <1>9, <1>10 DEF StoresOK, Grows
<1> HIDE DEF w
<1>12. Leaves(request[q])'
  BY <1>1, <1>5, <1>6, <1>9 DEF Leaves
<1>13. Created'
  BY <1>1, <1>4, <1>5, <1>6, WorkCreated
<1> QED
  BY <1>4, <1>7, <1>11, <1>12, <1>13, StepKeeps

\* A commit is for the stage of the job, and its request has left what the next one needs.
LEMMA CommitLeaves ==
  ASSUME Inv, NEW q \in Requests, request[q].pc = "commit", ~ Overtaken(q),
         NEW next, next = After[stage[request[q].job]]
  PROVE  /\ request[q].job \in JobIds
         /\ next \in Stages
         /\ next \in Gathered => snapshot[request[q].job] # {}
         /\ next \in Uploaded => vectors[request[q].job] # {}
         /\ next \in Indexing => lexical[request[q].job].whole
<1>1. Leaves(request[q]) /\ request[q].job \in JobIds /\ request[q].stage \in Stages
  BY Slot DEF Inv, RequestsLeave
<1>2. stage[request[q].job] = request[q].stage
  BY DEF Overtaken
<1>3. request[q].stage # "complete"
  BY <1>1 DEF Leaves
<1>4. CASE request[q].stage = "parse"
  BY <1>1, <1>2, <1>4 DEF After, Stages, Gathered, Uploaded, Indexing
<1>5. CASE request[q].stage = "snapshot"
  BY <1>1, <1>2, <1>5 DEF After, Leaves, Stages, Gathered, Uploaded, Indexing
<1>6. CASE request[q].stage = "embed"
  BY <1>1, <1>2, <1>6 DEF After, Leaves, Stages, Gathered, Uploaded, Indexing
<1>7. CASE request[q].stage = "lexical"
  BY <1>1, <1>2, <1>7 DEF After, Leaves, Stages, Gathered, Uploaded, Indexing
<1>8. CASE request[q].stage = "publish"
  BY <1>1, <1>2, <1>8 DEF After, Leaves, Stages, Gathered, Uploaded, Indexing
<1> QED
  BY <1>1, <1>3, <1>4, <1>5, <1>6, <1>7, <1>8 DEF Stages

\* Commit: the only step that takes a job to its next stage.
LEMMA CommitKeeps ==
  ASSUME Inv, NEW q \in Requests, Commit(q)
  PROVE  Inv'
<1>1. TypeOK /\ RowsOK /\ StoresOK /\ StagesLeave /\ request[q].pc = "commit"
  BY TypeParts DEF Inv, Commit
<1>2. request' = [request EXCEPT ![q] = Idle] /\ UNCHANGED <<spec, created, sourceVars, storeVars, active, histories>>
  BY DEF Commit
<1>3. Moves(q, Idle) /\ request'[q].pc = "off"
  BY <1>1, <1>2, EndMoves
<1>4. SlotsOK' /\ \A p \in Requests : p # q => request'[p] = request[p]
  BY <1>1, <1>3, MovesType
<1>5. StoresOK' /\ Grows
  BY <1>1, <1>2 DEF StoresOK, Grows, storeVars, histories
<1>6. RowsOK' /\ Created' /\ StagesLeave'
  <2>1. CASE Overtaken(q)
    <3>1. UNCHANGED <<stage, status, holder>>
      BY <2>1 DEF Commit
    <3>2. RowsOK'
      BY <1>1, <1>2, <3>1 DEF RowsOK, sourceVars
    <3>3. Created'
      BY <1>2, <1>3, <1>4, <3>1 DEF Inv, Created
    <3> QED
      BY <1>5, <3>1, <3>2, <3>3, StagesKept
  <2>2. CASE ~ Overtaken(q)
    <3> DEFINE j == request[q].job
               next == After[stage[j]]
    <3>1. /\ j \in JobIds /\ next \in Stages
          /\ next \in Gathered => snapshot[j] # {}
          /\ next \in Uploaded => vectors[j] # {}
          /\ next \in Indexing => lexical[j].whole
      BY <1>1, <2>2, CommitLeaves
    <3>2. /\ stage' = [stage EXCEPT ![j] = next]
          /\ status' = [status EXCEPT ![j] = IF stage'[j] = "complete" THEN "complete" ELSE "open"]
          /\ holder' = IF stage'[j] = "complete" /\ holder = j THEN None ELSE holder
      BY <2>2 DEF Commit
    <3>3. status[j] # "absent" \/ spec[j] \in JobSpecs
      BY <1>1 DEF Inv, Created
    <3> HIDE DEF j, next
    <3>4. RowsOK'
      BY <1>1, <1>2, <3>1, <3>2 DEF RowsOK, sourceVars, Ended
    <3>5. spec[j] \in JobSpecs
      BY <1>1 DEF Inv, Created, j
    <3>6. \A k \in JobIds : status'[k] # "absent" => spec'[k] \in JobSpecs
      BY <1>1, <1>2, <3>1, <3>2, <3>5 DEF Inv, Created, RowsOK
    <3>7. \A p \in Requests : request'[p].pc # "off" => spec'[request'[p].job] \in JobSpecs
      BY <1>2, <1>3, <1>4 DEF Inv, Created
    <3>8. StagesLeave'
      BY <1>1, <1>2, <3>1, <3>2 DEF StagesLeave, RowsOK, storeVars
    <3> QED
      BY <3>4, <3>6, <3>7, <3>8 DEF Created
  <2> QED
    BY <2>1, <2>2
<1>7. TypeOK'
  BY <1>4, <1>5, <1>6 DEF TypeOK, RowsOK, StoresOK, SlotsOK
<1>8. ASSUME NEW p \in Requests, request'[p].pc # "off" PROVE Leaves(request[p])'
  BY <1>3, <1>4, <1>5, <1>8, OthersLeave
<1> QED
  BY <1>6, <1>7, <1>8 DEF Inv, RequestsLeave

-----------------------------------------------------------------------------
(* Theorems *)

\* Every action keeps the invariant.
LEMMA InvNext == Inv /\ [Next]_vars => Inv'
<1> SUFFICES ASSUME Inv, [Next]_vars PROVE Inv'
  OBVIOUS
<1>1. CASE JobNext
  <2> PICK j \in JobIds :
        \/ \E s \in JobSpecs : Create(j, s)
        \/ j \in Cancelled /\ Cancel(j)
        \/ MarkFailed(j)
        \/ \E q \in Requests : Read(q, j)
    BY <1>1 DEF JobNext
  <2> QED
    BY JobsKeep, ReadKeeps
<1>2. ASSUME NEW q \in Requests, Work(q) PROVE Inv'
  BY <1>2, ParseKeeps, SnapshotKeeps, LoadKeeps, EmbedKeeps, UploadKeeps, PublishKeeps, CommitKeeps
     DEF Work
<1>3. ASSUME NEW q \in Requests, Raise(q) \/ Lose(q) PROVE Inv'
  BY <1>3, EndKeeps
<1>4. CASE DeleteNext
  BY <1>4, DeletionKeeps, PublicationAssumption DEF DeleteNext
<1>5. CASE UNCHANGED vars
  BY <1>5 DEF Inv, TypeOK, Created, StagesLeave, RequestsLeave, Leaves, vars, jobVars, sourceVars,
              storeVars, histories
<1> QED
  BY <1>1, <1>2, <1>3, <1>4, <1>5 DEF Next

\* Whatever is retried, late or lost, a stage that is behind a job has left what it had to.
THEOREM Invariance == Spec => []Inv
BY InvInit, InvNext, PTL DEF Spec

\* Rows, blobs and requests keep their types.
THEOREM TypeCorrect == Spec => []TypeOK
<1>1. Inv => TypeOK
  BY DEF Inv
<1> QED
  BY <1>1, Invariance, PTL

\* The steps that add to a generation.
Prepares(q) == Upsert(q) \/ UploadIndex(q) \/ UploadRest(q) \/ WriteManifest(q)

\* They make one generation whole at most, that of their job, and take none apart.
LEMMA PreparesOne ==
  ASSUME Inv, NEW q \in Requests, Prepares(q),
         NEW prep, prep = {g \in JobIds : Whole(g)},
         NEW after, after = {g \in JobIds : Whole(g)'}
  PROVE  /\ request[q].job \in JobIds /\ active' = active
         /\ after = prep \/ after = prep \cup {request[q].job}
<1> DEFINE j == request[q].job
<1>1. TypeOK /\ StoresOK /\ Leaves(request[q]) /\ request[q].pc # "off"
  BY TypeParts DEF Inv, RequestsLeave, Prepares, Upsert, UploadIndex, UploadRest, WriteManifest, At
<1>2. j \in JobIds
  BY <1>1, Slot
<1>3. active' = active
  BY DEF Prepares, Upsert, UploadIndex, UploadRest, WriteManifest
<1>4. \A g \in JobIds \ {j} : Whole(g)' <=> Whole(g)
  <2>1. CASE Upsert(q)
    BY <1>1, <1>2, <2>1 DEF Upsert, StoresOK, Whole, Replace
  <2>2. CASE UploadIndex(q)
    BY <1>1, <1>2, <2>2 DEF UploadIndex, StoresOK, Whole
  <2>3. CASE UploadRest(q)
    BY <1>1, <1>2, <2>3 DEF UploadRest, StoresOK, Whole
  <2>4. CASE WriteManifest(q)
    BY <1>1, <1>2, <2>4 DEF WriteManifest, StoresOK, Whole
  <2> QED
    BY <2>1, <2>2, <2>3, <2>4 DEF Prepares
<1>5. \A g \in JobIds : Whole(g) => Whole(g)'
  <2>1. CASE Upsert(q)
    BY <1>1, <1>2, <2>1 DEF Upsert, StoresOK, Whole, Replace
  <2>2. CASE UploadIndex(q)
    BY <1>1, <1>2, <2>2 DEF UploadIndex, StoresOK, Whole
  <2>3. CASE UploadRest(q)
    BY <1>1, <1>2, <2>3 DEF UploadRest, StoresOK, Whole
  <2>4. CASE WriteManifest(q)
    <3>1. snapshot[j] # {}
      BY <1>1, <2>4 DEF WriteManifest, At, Leaves, Gathered
    <3> QED
      BY <1>1, <1>2, <2>4, <3>1 DEF WriteManifest, StoresOK, Whole
  <2> QED
    BY <2>1, <2>2, <2>3, <2>4 DEF Prepares
<1> HIDE DEF j
<1>6. after = prep \/ after = prep \cup {j}
  BY <1>2, <1>4, <1>5
<1> QED
  BY <1>2, <1>3, <1>6 DEF j

\* No other step but the move of the pointer touches what readers depend on.
LEMMA OthersPrepareNothing ==
  ASSUME [Next]_vars
  PROVE  \/ \E q \in Requests : Prepares(q) \/ PublishPointer(q)
         \/ UNCHANGED <<manifest, vectors, lexical, active>>
<1>1. CASE JobNext
  BY <1>1 DEF JobNext, Create, Cancel, MarkFailed, Read, storeVars
<1>2. ASSUME NEW q \in Requests, Work(q) \/ Raise(q) \/ Lose(q)
      PROVE  \/ Prepares(q) \/ PublishPointer(q)
             \/ UNCHANGED <<manifest, vectors, lexical, active>>
  BY <1>2 DEF Work, Prepares, CreateSource, BeginIndexing, SaveDocuments, FindSource, Gather, WriteSnapshot, Load, Embed,
              VerifyLexical, MakeReady, Commit, Raise, Lose, storeVars
<1>3. CASE DeleteNext
  BY <1>3 DEF DeleteNext, CheckDeletion, DeleteRow, Expire, DeleteStored, DeletionStops, storeVars
<1>4. CASE UNCHANGED vars
  BY <1>4 DEF vars, storeVars
<1> QED
  BY <1>1, <1>2, <1>3, <1>4 DEF Next

\* The generation pointer moves only to generations that are whole, and none of those is
\* ever taken apart: every step of the hosted stores is one of PublishedGeneration.
THEOREM PointerSafe == Spec => PublishedWhole
<1> DEFINE prep == {g \in JobIds : Whole(g)}
<1>1. Init => Readers!Init
  BY DEF Init, Readers!Init, Whole
<1>2. Inv /\ [Next]_vars => [Readers!Next]_<<prep, active>>
  <2> SUFFICES ASSUME Inv, [Next]_vars PROVE [Readers!Next]_<<prep, active>>
    OBVIOUS
  <2>1. ASSUME NEW q \in Requests, Prepares(q) PROVE [Readers!Next]_<<prep, active>>
    <3>1. /\ request[q].job \in JobIds /\ active' = active
          /\ prep' = prep \/ prep' = prep \cup {request[q].job}
      BY <2>1, PreparesOne
    <3> HIDE DEF prep
    <3> QED
      BY <3>1 DEF Readers!Next, Readers!Prepare, prep
  <2>2. ASSUME NEW q \in Requests, PublishPointer(q) PROVE [Readers!Next]_<<prep, active>>
    <3>1. request[q].job \in JobIds /\ Leaves(request[q]) /\ request[q].stage = "publish"
          /\ request[q].pc = "point"
      BY <2>2, Slot DEF Inv, RequestsLeave, PublishPointer, At
    <3>2. request[q].job \in prep
      BY <3>1 DEF Leaves, Whole, Uploaded, Indexing
    <3>3. prep' = prep /\ active' = request[q].job
      BY <2>2 DEF PublishPointer, Whole, storeVars
    <3> HIDE DEF prep
    <3> QED
      BY <3>1, <3>2, <3>3 DEF Readers!Next, Readers!Publish, prep
  <2>3. CASE UNCHANGED <<manifest, vectors, lexical, active>>
    BY <2>3 DEF Whole
  <2> QED
    BY <2>1, <2>2, <2>3, OthersPrepareNothing
<1> QED
  BY <1>1, <1>2, Invariance, PTL DEF Spec, PublishedWhole, Readers!Spec, Readers!vars
-----------------------------------------------------------------------------
(***************************************************************************)
(* What is in the artifacts.  A request is for a stage that its job has    *)
(* reached, so nothing is built before the snapshot is final, and what is  *)
(* there names documents.                                                  *)
(***************************************************************************)

Order == [parse |-> 0, snapshot |-> 1, embed |-> 2, lexical |-> 3, publish |-> 4, complete |-> 5]

\* A request is for a job that has a row, and never ahead of it.
Reached(r) == status[r.job] # "absent" /\ Order[r.stage] <= Order[stage[r.job]]

\* What is there when a stage is not behind the job yet, and what one artifact says of another.
Built(j) ==
  /\ status[j] = "absent" => stage[j] = "parse"
  /\ stage[j] = "parse" => snapshot[j] = {}
  /\ stage[j] \notin Gathered =>
       embedded[j] = {} /\ vectors[j] = {} /\ lexical[j] = NoLexical /\ manifest[j] = {}
  /\ vectors[j] # {} => embedded[j] # {}
  /\ lexical[j].whole => lexical[j].docs # {}

\* What the request itself has written between two of its steps.
Wrote(r) ==
  r.pc = "rest" =>
    /\ r.stage = "embed" => embedded[r.job] # {}
    /\ r.stage = "lexical" => lexical[r.job].docs # {}

Artifacts ==
  /\ \A j \in JobIds : Built(j)
  /\ \A q \in Requests : request[q].pc # "off" => Reached(request[q]) /\ Wrote(request[q])
  /\ active # None => Whole(active)

\* While its snapshot is not replaced, all artifacts of a job are about it.
JobOfOne(j) ==
  j \notin rewritten =>
    /\ embedded[j] \in {{}, snapshot[j]}
    /\ vectors[j] \in {{}, snapshot[j]}
    /\ lexical[j].docs \in {{}, snapshot[j]}
    /\ manifest[j] \in {{}, snapshot[j]}

RequestOfOne(r) ==
  r.job \notin rewritten /\ r.stage \in {"embed", "lexical"} /\ r.pc # "begin" =>
    r.docs = snapshot[r.job]

OneSnapshot ==
  /\ \A j \in JobIds : JobOfOne(j)
  /\ \A q \in Requests : request[q].pc # "off" => RequestOfOne(request[q])

\* A source that no job of its missed is in everything such a job has.
JobHasOwn(j) ==
  status[j] # "absent" /\ spec[j].source \notin missed =>
    /\ snapshot[j] # {} => Holds(snapshot[j], spec[j].source)
    /\ vectors[j] # {} => Holds(vectors[j], spec[j].source)
    /\ lexical[j].docs # {} => Holds(lexical[j].docs, spec[j].source)

RequestHasOwn(r) ==
  spec[r.job].source \notin missed /\ r.docs # {} => Holds(r.docs, spec[r.job].source)

OwnIndexed ==
  /\ \A j \in JobIds : JobHasOwn(j)
  /\ \A q \in Requests : request[q].pc # "off" => RequestHasOwn(request[q])

-----------------------------------------------------------------------------
(* Artifacts *)

\* A step of a request changes its slot only, and artifacts of no job but its own.
Touches(q) ==
  /\ \A p \in Requests : p # q => request'[p] = request[p]
  /\ \A j \in JobIds : j # request[q].job =>
       /\ stage'[j] = stage[j]
       /\ snapshot'[j] = snapshot[j] /\ embedded'[j] = embedded[j] /\ vectors'[j] = vectors[j]
       /\ lexical'[j] = lexical[j] /\ manifest'[j] = manifest[j]
       /\ j \in rewritten <=> j \in rewritten'

LEMMA WorkTouches ==
  ASSUME Inv, NEW q \in Requests, Work(q)
  PROVE  Touches(q) /\ request[q].pc # "off" /\ request[q].job \in JobIds
<1>1. TypeOK
  BY DEF Inv
<1>2. request[q].pc # "off"
  BY DEF Work, At, CreateSource, BeginIndexing, SaveDocuments, FindSource, Gather, WriteSnapshot, Load, Embed, Upsert,
         UploadIndex, UploadRest, WriteManifest, VerifyLexical, PublishPointer, MakeReady, Commit
<1>3. request[q].job \in JobIds
  BY <1>1, <1>2, Slot
<1>4. \A p \in Requests : p # q => request'[p] = request[p]
  BY <1>1 DEF TypeOK, Goto, Work, CreateSource, BeginIndexing, SaveDocuments, FindSource, Gather, WriteSnapshot, Load, Embed,
         Upsert, UploadIndex, UploadRest, WriteManifest, VerifyLexical, PublishPointer, MakeReady,
         Commit
<1>5. \A j \in JobIds : j # request[q].job => stage'[j] = stage[j]
  BY <1>1 DEF TypeOK, jobVars, Work, CreateSource, BeginIndexing, SaveDocuments, FindSource, Gather, WriteSnapshot, Load,
         Embed, Upsert, UploadIndex, UploadRest, WriteManifest, VerifyLexical, PublishPointer,
         MakeReady, Commit
<1>6. \A j \in JobIds : j # request[q].job =>
        /\ snapshot'[j] = snapshot[j] /\ embedded'[j] = embedded[j] /\ vectors'[j] = vectors[j]
        /\ lexical'[j] = lexical[j] /\ manifest'[j] = manifest[j]
        /\ j \in rewritten <=> j \in rewritten'
  BY <1>1 DEF TypeOK, storeVars, histories, Work, CreateSource, BeginIndexing, SaveDocuments, FindSource, Gather,
         WriteSnapshot, Load, Embed, Upsert, UploadIndex, UploadRest, WriteManifest, VerifyLexical,
         PublishPointer, MakeReady, Commit
<1> QED
  BY <1>2, <1>3, <1>4, <1>5, <1>6 DEF Touches

\* A generation that is whole stays whole.
LEMMA WholeStays ==
  ASSUME Inv, [Next]_vars, NEW g \in JobIds, Whole(g)
  PROVE  Whole(g)'
<1>1. ASSUME NEW q \in Requests, Prepares(q) PROVE Whole(g)'
  <2> DEFINE prep == {k \in JobIds : Whole(k)}
             after == {k \in JobIds : Whole(k)'}
  <2>1. after = prep \/ after = prep \cup {request[q].job}
    BY <1>1, PreparesOne
  <2>2. g \in prep
    OBVIOUS
  <2> HIDE DEF prep
  <2>3. g \in after
    BY <2>1, <2>2
  <2> QED
    BY <2>3
<1>2. CASE \E q \in Requests : PublishPointer(q)
  BY <1>2 DEF PublishPointer, storeVars, Whole
<1>3. CASE UNCHANGED <<manifest, vectors, lexical, active>>
  BY <1>3 DEF Whole
<1> QED
  BY <1>1, <1>2, <1>3, OthersPrepareNothing

\* Readers are pointed at a whole generation, or at none.
LEMMA ActiveWhole ==
  ASSUME Inv, [Next]_vars, active # None => Whole(active)
  PROVE  active' # None => Whole(active)'
<1>1. active \in JobIds \cup {None}
  BY DEF Inv, TypeOK
<1>2. CASE \E q \in Requests : PublishPointer(q)
  <2> PICK q \in Requests : PublishPointer(q)
    BY <1>2
  <2>1. /\ request[q].job \in JobIds /\ Leaves(request[q]) /\ request[q].stage = "publish"
        /\ request[q].pc = "point"
    BY Slot DEF Inv, RequestsLeave, PublishPointer, At
  <2>2. Whole(request[q].job)
    BY <2>1 DEF Leaves, Whole, Uploaded, Indexing
  <2>3. active' = request[q].job /\ UNCHANGED storeVars
    BY DEF PublishPointer
  <2> QED
    BY <2>2, <2>3 DEF Whole, storeVars
<1>3. CASE active' = active
  BY <1>1, <1>3, WholeStays DEF Whole
<1> QED
  BY <1>2, <1>3, OthersPrepareNothing, PreparesOne

\* A step of a request keeps what is said of the artifacts if it does so for its own job.
LEMMA ArtifactsOfOne ==
  ASSUME Inv, Artifacts, NEW q \in Requests, Work(q), NEW j, j = request[q].job,
         Built(j)', status'[j] # "absent",
         \A k \in JobIds : status'[k] = "absent" <=> status[k] = "absent",
         Order[stage[j]] <= Order[stage'[j]],
         embedded[j] # {} => embedded'[j] # {},
         lexical[j].docs # {} => lexical'[j].docs # {},
         request'[q].pc # "off" => Reached(request[q])' /\ Wrote(request[q])'
  PROVE  Artifacts'
<1>1. Touches(q) /\ j \in JobIds
  BY WorkTouches
<1>2. ASSUME NEW k \in JobIds PROVE Built(k)'
  <2>1. CASE k # j
    BY <1>1, <2>1 DEF Artifacts, Built, Touches
  <2> QED
    BY <2>1
<1>3. ASSUME NEW p \in Requests, request'[p].pc # "off"
      PROVE  Reached(request[p])' /\ Wrote(request[p])'
  <2>1. CASE p # q /\ request[p].job = j
    <3>1. request'[p] = request[p] /\ Reached(request[p]) /\ Wrote(request[p])
      BY <1>1, <1>3, <2>1 DEF Artifacts, Touches
    <3>2. Order[request[p].stage] \in Int /\ Order[stage[j]] \in Int /\ Order[stage'[j]] \in Int
      BY <1>1, Slot, InvNext DEF Inv, TypeOK, Stages, Order, Next
    <3> QED
      BY <2>1, <3>1, <3>2 DEF Reached, Wrote
  <2>2. CASE p # q /\ request[p].job # j
    <3>1. request'[p] = request[p] /\ Reached(request[p]) /\ Wrote(request[p])
          /\ request[p].job \in JobIds
      BY <1>1, <1>3, <2>2, Slot DEF Artifacts, Touches, Inv
    <3> QED
      BY <1>1, <2>2, <3>1 DEF Reached, Wrote, Touches
  <2> QED
    BY <1>3, <2>1, <2>2
<1>4. active' # None => Whole(active)'
  BY ActiveWhole DEF Artifacts, Next
<1> QED
  BY <1>2, <1>3, <1>4 DEF Artifacts

\* parse and the reads of a snapshot: no artifact is touched.
LEMMA ReadsKeepArtifacts ==
  ASSUME Inv, Artifacts, NEW q \in Requests,
         \/ CreateSource(q) \/ BeginIndexing(q) \/ SaveDocuments(q) \/ FindSource(q) \/ Gather(q) \/ Load(q)
         \/ VerifyLexical(q) \/ PublishPointer(q) \/ MakeReady(q)
  PROVE  Artifacts'
<1> SUFFICES ASSUME NEW r, NEW j, r = request[q], j = r.job PROVE Artifacts'
  OBVIOUS
<1>1. TypeOK /\ r.pc # "off" /\ j \in JobIds /\ Work(q)
  BY WorkTouches DEF Inv, Work
<1>2. UNCHANGED <<jobVars, storeVars>>
  BY DEF CreateSource, BeginIndexing, SaveDocuments, FindSource, Gather, Load, VerifyLexical, PublishPointer, MakeReady
<1>3. Built(j) /\ Reached(r)
  BY <1>1 DEF Artifacts
<1>4. /\ request'[q].stage = r.stage /\ request'[q].job = j
      /\ request'[q].pc \in {"index", "write", "verify", "point", "ready", "commit"}
  BY <1>1 DEF TypeOK, RequestType, Goto, CreateSource, BeginIndexing, SaveDocuments, FindSource, Gather, Load, VerifyLexical,
              PublishPointer, MakeReady
<1>5. Built(j)' /\ Reached(request[q])' /\ Wrote(request[q])'
  BY <1>2, <1>3, <1>4 DEF Built, Reached, Wrote, jobVars, storeVars
<1>6. Order[stage[j]] <= Order[stage'[j]]
  BY <1>1, <1>2 DEF jobVars, TypeOK, Stages, Order
<1> QED
  BY <1>1, <1>2, <1>3, <1>5, <1>6, ArtifactsOfOne DEF Reached, jobVars, storeVars

\* The writes of a stage.
LEMMA WritesKeepArtifacts ==
  ASSUME Inv, Artifacts, NEW q \in Requests,
         \/ WriteSnapshot(q) \/ Embed(q) \/ Upsert(q) \/ UploadIndex(q) \/ UploadRest(q)
         \/ WriteManifest(q)
  PROVE  Artifacts'
<1> SUFFICES ASSUME NEW r, NEW j, r = request[q], j = r.job PROVE Artifacts'
  OBVIOUS
<1>1. TypeOK /\ r.pc # "off" /\ j \in JobIds /\ r.stage \in Stages /\ Work(q) /\ Leaves(r)
  BY WorkTouches, Slot DEF Inv, RequestsLeave, Work
<1>2. UNCHANGED jobVars
  BY DEF WriteSnapshot, Embed, Upsert, UploadIndex, UploadRest, WriteManifest
<1>3. Built(j) /\ Reached(r) /\ Wrote(r)
  BY <1>1 DEF Artifacts
<1>4. /\ request'[q].stage = r.stage /\ request'[q].job = j
      /\ request'[q].pc = "rest" => Embed(q) \/ UploadIndex(q)
  BY <1>1 DEF TypeOK, RequestType, Goto, WriteSnapshot, Embed, Upsert, UploadIndex, UploadRest,
              WriteManifest
<1>5. r.stage # "parse" /\ stage[j] \in Stages \ {"parse"}
      /\ (r.stage # "snapshot" => stage[j] \in Gathered)
  BY <1>1, <1>3 DEF TypeOK, Reached, Order, Stages, Gathered, At, WriteSnapshot, Embed, Upsert,
                    UploadIndex, UploadRest, WriteManifest
<1>6. /\ embedded[j] # {} => embedded'[j] # {}
      /\ lexical[j].docs # {} => lexical'[j].docs # {}
      /\ Embed(q) => embedded'[j] # {}
      /\ UploadIndex(q) => lexical'[j].docs # {}
  <2>1. CASE Embed(q)
    BY <1>1, <2>1 DEF TypeOK, Embed, UploadIndex, At, Leaves
  <2>2. CASE UploadIndex(q)
    BY <1>1, <2>2 DEF TypeOK, Embed, UploadIndex, At, Leaves
  <2>3. CASE ~ Embed(q) /\ ~ UploadIndex(q)
    <3>1. CASE UploadRest(q)
      BY <1>1, <2>3, <3>1 DEF TypeOK, UploadRest
    <3>2. CASE ~ UploadRest(q)
      <4>1. UNCHANGED <<embedded, lexical>>
        BY <2>3, <3>2 DEF WriteSnapshot, Upsert, WriteManifest
      <4> QED
        BY <2>3, <4>1
    <3> QED
      BY <3>1, <3>2
  <2> QED
    BY <2>1, <2>2, <2>3
<1>7. Built(j)'
  <2>1. CASE WriteSnapshot(q)
    BY <1>1, <1>2, <1>3, <1>5, <2>1 DEF TypeOK, Built, WriteSnapshot, jobVars
  <2>2. CASE Embed(q) \/ Upsert(q)
    <3>1. UNCHANGED <<snapshot, lexical, manifest>> /\ stage[j] \in Gathered
      BY <1>1, <1>5, <2>2 DEF Embed, Upsert, At
    <3>2. embedded'[j] # {}
      BY <1>3, <1>6, <2>2 DEF Wrote, Upsert, At
    <3> QED
      BY <1>2, <1>3, <1>5, <3>1, <3>2 DEF Built, jobVars
  <2>3. CASE UploadIndex(q) \/ UploadRest(q)
    <3>1. UNCHANGED <<snapshot, embedded, vectors, manifest>>
      BY <2>3 DEF UploadIndex, UploadRest
    <3>2. stage[j] \in Gathered \cap Stages
      BY <1>1, <1>5, <2>3 DEF UploadIndex, UploadRest, At
    <3>3. lexical'[j].whole => lexical'[j].docs # {}
      <4>1. CASE UploadIndex(q)
        BY <1>6, <4>1
      <4>2. CASE UploadRest(q)
        BY <1>3, <1>6, <4>2 DEF Wrote, UploadRest, At
      <4> QED
        BY <2>3, <4>1, <4>2
    <3> QED
      BY <1>2, <1>3, <1>5, <3>1, <3>2, <3>3 DEF Built, jobVars
  <2>4. CASE WriteManifest(q)
    BY <1>1, <1>2, <1>3, <1>5, <2>4 DEF TypeOK, Built, WriteManifest, At, jobVars
  <2> QED
    BY <2>1, <2>2, <2>3, <2>4
<1>8. Reached(request[q])' /\ (request'[q].pc # "off" => Wrote(request[q])')
  <2>1. Reached(request[q])'
    BY <1>2, <1>3, <1>4 DEF Reached, jobVars
  <2>2. Wrote(request[q])'
    BY <1>4, <1>6, <2>1 DEF Wrote, Embed, UploadIndex, At
  <2> QED
    BY <2>1, <2>2
<1>9. Order[stage[j]] <= Order[stage'[j]]
  BY <1>1, <1>2 DEF jobVars, TypeOK, Stages, Order
<1> QED
  BY <1>1, <1>2, <1>3, <1>6, <1>7, <1>8, <1>9, ArtifactsOfOne DEF Reached, jobVars

\* Commit takes the job on, one stage further.
LEMMA CommitKeepsArtifacts ==
  ASSUME Inv, Artifacts, NEW q \in Requests, Commit(q)
  PROVE  Artifacts'
<1> SUFFICES ASSUME NEW j, j = request[q].job PROVE Artifacts'
  OBVIOUS
<1>1. TypeOK /\ request[q].pc = "commit" /\ j \in JobIds /\ Work(q) /\ Reached(request[q])
      /\ Built(j) /\ Leaves(request[q])
  BY WorkTouches DEF Inv, Work, Artifacts, Commit, RequestsLeave
<1>2. request'[q].pc = "off" /\ UNCHANGED storeVars
  BY <1>1 DEF TypeOK, Commit, Idle
<1>3. /\ status'[j] # "absent"
      /\ \A k \in JobIds : status'[k] = "absent" <=> status[k] = "absent"
  BY <1>1 DEF TypeOK, Commit, Reached
<1>4. \/ stage'[j] = stage[j]
      \/ stage[j] # "complete" /\ stage'[j] = After[stage[j]]
  BY <1>1 DEF TypeOK, Commit, Overtaken, Leaves
<1>5. /\ stage[j] \in Stages /\ Order[stage[j]] <= Order[stage'[j]]
      /\ stage[j] \in Gathered => stage'[j] \in Gathered
      /\ stage'[j] = "parse" => stage[j] = "parse"
  BY <1>1, <1>4 DEF TypeOK, Order, Stages, After, Gathered
<1>6. Built(j)'
  BY <1>1, <1>2, <1>3, <1>5 DEF Built, storeVars
<1> QED
  BY <1>1, <1>2, <1>3, <1>5, <1>6, ArtifactsOfOne DEF storeVars

\* The steps that are no work: those of users, and a request that arrives, fails or is lost.
Aside ==
  \/ \E j \in JobIds :
       \/ \E s \in JobSpecs : Create(j, s)
       \/ j \in Cancelled /\ Cancel(j)
       \/ MarkFailed(j)
  \/ \E q \in Requests, j \in JobIds : Read(q, j)
  \/ \E q \in Requests : Raise(q) \/ Lose(q)
  \/ DeleteNext
  \/ UNCHANGED vars

LEMMA WorkOrAside ==
  ASSUME [Next]_vars
  PROVE  (\E q \in Requests : Work(q)) \/ Aside
BY DEF Next, JobNext, Aside

\* They touch no artifact and no stage; a request that they move starts anew, or ends.
LEMMA AsideTouches ==
  ASSUME Inv, Artifacts, Aside
  PROVE  /\ stage' = stage /\ UNCHANGED <<storeVars, active, histories>>
         /\ \A j \in JobIds : status'[j] = "absent" => status[j] = "absent"
         /\ \A j \in JobIds : status[j] # "absent" => spec'[j] = spec[j]
         /\ \A q \in Requests :
              \/ request'[q] = request[q]
              \/ request'[q].pc = "off"
              \/ \E j \in JobIds : Read(q, j)
<1>1. TypeOK
  BY DEF Inv
<1>2. ASSUME NEW j \in JobIds, NEW s \in JobSpecs, Create(j, s)
      PROVE  /\ stage' = stage /\ UNCHANGED <<storeVars, active, histories, request>>
             /\ \A k \in JobIds : status'[k] = "absent" => status[k] = "absent"
             /\ \A k \in JobIds : status[k] # "absent" => spec'[k] = spec[k]
  BY <1>1, <1>2 DEF TypeOK, Create
<1>3. ASSUME NEW j \in JobIds, Cancel(j) \/ MarkFailed(j)
      PROVE  /\ UNCHANGED <<spec, stage, storeVars, active, histories, request>>
             /\ \A k \in JobIds : status'[k] = "absent" => status[k] = "absent"
  BY <1>1, <1>3 DEF TypeOK, Cancel, MarkFailed
<1>4. ASSUME NEW q \in Requests, NEW j \in JobIds, Read(q, j)
      PROVE  /\ UNCHANGED <<spec, stage, status, storeVars, active, histories>>
             /\ \A p \in Requests : request'[p] = request[p] \/ p = q
  BY <1>1, <1>4 DEF TypeOK, Read, jobVars
<1>5. ASSUME NEW q \in Requests, Raise(q) \/ Lose(q)
      PROVE  /\ UNCHANGED <<spec, stage, storeVars, active, histories>>
             /\ \A k \in JobIds : status'[k] = "absent" => status[k] = "absent"
             /\ \A p \in Requests : request'[p] = request[p] \/ request'[p].pc = "off"
  BY <1>1, <1>5 DEF TypeOK, Raise, Lose, jobVars, Idle
<1>6. CASE DeleteNext \/ UNCHANGED vars
  BY <1>6 DEF DeleteNext, CheckDeletion, DeleteRow, Expire, DeleteStored, DeletionStops, vars, jobVars
<1> QED
  BY <1>2, <1>3, <1>4, <1>5, <1>6 DEF Aside

\* A request that arrives is for the stage of a job that has a row.
LEMMA ReadReaches ==
  ASSUME TypeOK, NEW q \in Requests, NEW j \in JobIds, Read(q, j)
  PROVE  /\ request'[q].pc = "begin" /\ request'[q].job = j
         /\ request'[q].stage = stage[j] /\ request'[q].docs = {}
         /\ status[j] \notin Ended \cup {"absent"}
         /\ UNCHANGED <<spec, status, stage, holder, source>>
BY DEF TypeOK, Read, jobVars, sourceVars

LEMMA AsideKeepsArtifacts ==
  ASSUME Inv, Artifacts, Aside
  PROVE  Artifacts'
<1>1. TypeOK /\ stage' = stage /\ UNCHANGED <<storeVars, active>>
  BY AsideTouches DEF Inv
<1>2. ASSUME NEW j \in JobIds PROVE Built(j)'
  BY <1>1, AsideTouches DEF Artifacts, Built, storeVars
<1>3. ASSUME NEW q \in Requests, request'[q].pc # "off"
      PROVE  Reached(request[q])' /\ Wrote(request[q])'
  <2>1. CASE request'[q] = request[q]
    <3>1. Reached(request[q]) /\ Wrote(request[q]) /\ request[q].job \in JobIds
      BY <1>1, <1>3, <2>1, Slot DEF Artifacts
    <3> QED
      BY <1>1, <2>1, <3>1, AsideTouches DEF Reached, Wrote, storeVars
  <2>2. CASE \E j \in JobIds : Read(q, j)
    <3> PICK j \in JobIds : Read(q, j)
      BY <2>2
    <3>1. Order[stage[j]] <= Order[stage[j]]
      BY <1>1 DEF TypeOK, Stages, Order
    <3>2. /\ request'[q].job = j /\ request'[q].stage = stage[j] /\ request'[q].pc = "begin"
          /\ stage' = stage /\ status'[j] # "absent"
      BY <1>1, ReadReaches
    <3> QED
      BY <3>1, <3>2 DEF Reached, Wrote
  <2> QED
    BY <1>3, <2>1, <2>2, AsideTouches
<1>4. active' # None => Whole(active)'
  BY <1>1 DEF Artifacts, Whole, storeVars
<1> QED
  BY <1>2, <1>3, <1>4 DEF Artifacts

LEMMA ArtifactsNext == Inv /\ Artifacts /\ [Next]_vars => Artifacts'
<1> SUFFICES ASSUME Inv, Artifacts, [Next]_vars PROVE Artifacts'
  OBVIOUS
<1>1. ASSUME NEW q \in Requests, Work(q) PROVE Artifacts'
  BY <1>1, ReadsKeepArtifacts, WritesKeepArtifacts, CommitKeepsArtifacts DEF Work
<1> QED
  BY <1>1, AsideKeepsArtifacts, WorkOrAside

LEMMA ArtifactsInit == Init => Artifacts
BY DEF Init, Artifacts, Built, Reached, Wrote, Idle, NoLexical, Gathered

\* Artifacts are built in order, and readers are pointed at a generation that has all of them.
THEOREM ArtifactsInOrder == Spec => []Artifacts
<1> QED
  BY ArtifactsInit, ArtifactsNext, Invariance, PTL DEF Spec

-----------------------------------------------------------------------------
(* All artifacts of a job are about one snapshot *)

\* The slot of a request keeps its job and stage while it works, and its documents but when
\* it reads them.
LEMMA WorkSlot ==
  ASSUME Inv, NEW q \in Requests, Work(q), ~ Commit(q)
  PROVE  /\ request'[q].job = request[q].job /\ request'[q].stage = request[q].stage
         /\ request'[q].pc \notin {"off", "begin"} /\ UNCHANGED jobVars
         /\ request'[q].docs = request[q].docs \/ Gather(q) \/ Load(q)
<1>1. TypeOK
  BY DEF Inv
<1>2. CASE Gather(q) \/ Load(q)
  BY <1>1, <1>2 DEF TypeOK, RequestType, Gather, Load
<1>3. ASSUME NEW pc \in {"index", "write", "rest", "verify", "point", "ready", "commit"}, Goto(q, pc)
      PROVE  /\ request'[q].job = request[q].job /\ request'[q].stage = request[q].stage
             /\ request'[q].pc = pc /\ request'[q].docs = request[q].docs
  BY <1>1, <1>3 DEF TypeOK, RequestType, Goto
<1>4. CASE ~ Gather(q) /\ ~ Load(q)
  <2>1. /\ UNCHANGED jobVars
        /\ \E pc \in {"index", "write", "rest", "verify", "point", "ready", "commit"} : Goto(q, pc)
    BY <1>4 DEF Work, CreateSource, BeginIndexing, SaveDocuments, FindSource, WriteSnapshot, Embed, Upsert,
                UploadIndex, UploadRest, WriteManifest, VerifyLexical, PublishPointer, MakeReady
  <2> QED
    BY <1>3, <2>1
<1> QED
  BY <1>2, <1>4

\* A source that is written over is still there.
LEMMA ReplaceHolds ==
  ASSUME NEW old, NEW new, NEW s, Holds(old, s) \/ Holds(new, s)
  PROVE  Holds(Replace(old, new), s)
<1>1. CASE Holds(new, s)
  BY <1>1 DEF Holds, Replace
<1>2. ASSUME NEW d \in old, d.source = s PROVE Holds(Replace(old, new), s)
  <2>1. CASE d \in Replace(old, new)
    BY <1>2, <2>1 DEF Holds
  <2>2. CASE d \notin Replace(old, new)
    <3>1. PICK n \in new : <<n.source, n.place>> = <<d.source, d.place>>
      BY <2>2 DEF Replace
    <3>2. n.source = s /\ n \in Replace(old, new)
      BY <1>2, <3>1 DEF Replace
    <3> QED
      BY <3>2 DEF Holds
  <2> QED
    BY <2>1, <2>2
<1> QED
  BY <1>1, <1>2 DEF Holds

\* The snapshot of a job is final after its stage, unless it is rewritten.
LEMMA SnapshotStays ==
  ASSUME Inv, Artifacts, NEW q \in Requests, Work(q), NEW j, j = request[q].job
  PROVE  /\ rewritten \subseteq rewritten'
         /\ snapshot'[j] # snapshot[j] => WriteSnapshot(q)
         /\ snapshot'[j] # snapshot[j] /\ j \notin rewritten' => stage[j] = "snapshot"
<1>1. TypeOK /\ j \in JobIds
  BY WorkTouches DEF Inv
<1>2. CASE WriteSnapshot(q)
  BY <1>1, <1>2 DEF TypeOK, WriteSnapshot, Rewrites
<1>3. CASE ~ WriteSnapshot(q)
  BY <1>3 DEF storeVars, histories, Work, CreateSource, BeginIndexing, SaveDocuments, FindSource, Gather, Load, Embed,
              Upsert, UploadIndex, UploadRest, WriteManifest, VerifyLexical, PublishPointer,
              MakeReady, Commit
<1> QED
  BY <1>2, <1>3

\* What the other stores have for a job that no other request works for.
LEMMA WritesOne ==
  ASSUME Inv, NEW q \in Requests, Work(q), NEW r, r = request[q], NEW j, j = r.job
  PROVE  /\ \/ embedded'[j] = embedded[j]
            \/ Embed(q) /\ r.stage = "embed" /\ embedded[j] = {} /\ embedded'[j] = r.docs
         /\ \/ vectors'[j] = vectors[j]
            \/ Upsert(q) /\ r.stage = "embed" /\ vectors'[j] = Replace(vectors[j], r.docs)
         /\ \/ lexical'[j].docs = lexical[j].docs
            \/ UploadIndex(q) /\ r.stage = "lexical" /\ lexical'[j].docs = r.docs
         /\ \/ manifest'[j] = manifest[j]
            \/ WriteManifest(q) /\ manifest'[j] = snapshot[j]
<1>1. TypeOK /\ j \in JobIds
  BY WorkTouches DEF Inv
<1>2. CASE Embed(q)
  BY <1>1, <1>2 DEF TypeOK, Embed, At
<1>3. CASE Upsert(q)
  BY <1>1, <1>3 DEF TypeOK, Upsert, At
<1>4. CASE UploadIndex(q)
  BY <1>1, <1>4 DEF TypeOK, UploadIndex, At
<1>5. CASE UploadRest(q)
  BY <1>1, <1>5 DEF TypeOK, UploadRest
<1>6. CASE WriteManifest(q)
  BY <1>1, <1>6 DEF TypeOK, WriteManifest
<1>7. CASE ~ (Embed(q) \/ Upsert(q) \/ UploadIndex(q) \/ UploadRest(q) \/ WriteManifest(q))
  BY <1>7 DEF storeVars, Work, CreateSource, BeginIndexing, SaveDocuments, FindSource, Gather, WriteSnapshot, Load,
              VerifyLexical, PublishPointer, MakeReady, Commit
<1> QED
  BY <1>2, <1>3, <1>4, <1>5, <1>6, <1>7

LEMMA WorkKeepsOne ==
  ASSUME Inv, Artifacts, OneSnapshot, NEW q \in Requests, Work(q)
  PROVE  OneSnapshot'
<1> SUFFICES ASSUME NEW r, NEW j, r = request[q], j = r.job PROVE OneSnapshot'
  OBVIOUS
<1>1. TypeOK /\ Touches(q) /\ r.pc # "off" /\ j \in JobIds
  BY WorkTouches DEF Inv
<1>2. JobOfOne(j) /\ RequestOfOne(r) /\ Built(j) /\ Reached(r)
  BY <1>1 DEF OneSnapshot, Artifacts
<1>3. /\ rewritten \subseteq rewritten'
      /\ snapshot'[j] # snapshot[j] => WriteSnapshot(q)
      /\ snapshot'[j] # snapshot[j] /\ j \notin rewritten' => stage[j] = "snapshot"
  BY SnapshotStays
<1>4. JobOfOne(j)'
  <2> SUFFICES ASSUME j \notin rewritten' PROVE JobOfOne(j)'
    BY DEF JobOfOne
  <2>1. CASE snapshot'[j] # snapshot[j]
    <3>1. stage[j] = "snapshot" /\ WriteSnapshot(q)
      BY <1>3, <2>1
    <3>2. UNCHANGED <<embedded, vectors, lexical, manifest>>
      BY <3>1 DEF WriteSnapshot
    <3> QED
      BY <1>2, <3>1, <3>2 DEF Built, Gathered, NoLexical, JobOfOne
  <2>2. CASE snapshot'[j] = snapshot[j]
    <3>1. /\ embedded'[j] = embedded[j] \/ embedded'[j] = snapshot[j]
          /\ vectors'[j] = vectors[j] \/ vectors'[j] = Replace(vectors[j], snapshot[j])
          /\ lexical'[j].docs = lexical[j].docs \/ lexical'[j].docs = snapshot[j]
          /\ manifest'[j] = manifest[j] \/ manifest'[j] = snapshot[j]
      <4>1. Embed(q) \/ Upsert(q) \/ UploadIndex(q) => r.docs = snapshot[j]
        BY <1>2, <1>3 DEF RequestOfOne, Embed, Upsert, UploadIndex, At
      <4> QED
        BY <1>1, <4>1, WritesOne
    <3>2. vectors[j] \in {{}, snapshot[j]} => Replace(vectors[j], snapshot[j]) = snapshot[j]
      BY DEF Replace
    <3> QED
      BY <1>2, <1>3, <2>2, <3>1, <3>2 DEF JobOfOne
  <2> QED
    BY <2>1, <2>2
<1>5. ASSUME NEW k \in JobIds PROVE JobOfOne(k)'
  <2>1. CASE k # j
    BY <1>1, <2>1 DEF Touches, OneSnapshot, JobOfOne
  <2> QED
    BY <1>4, <2>1
<1>6. ASSUME NEW p \in Requests, request'[p].pc # "off" PROVE RequestOfOne(request[p])'
  <2> SUFFICES ASSUME NEW v, v = request'[p], v.job \notin rewritten',
                      v.stage \in {"embed", "lexical"}, v.pc # "begin"
               PROVE  v.docs = snapshot'[v.job]
    BY DEF RequestOfOne
  <2>1. CASE p = q
    <3>1. ~ Commit(q)
      BY <1>1, <1>6, <2>1 DEF TypeOK, Commit, Idle
    <3>2. v.job = j /\ v.stage = r.stage /\ (v.docs = r.docs \/ Gather(q) \/ Load(q))
      BY <2>1, <3>1, WorkSlot
    <3>3. snapshot'[j] = snapshot[j]
      BY <1>3, <3>2 DEF WriteSnapshot, At
    <3>4. CASE Load(q)
      BY <1>1, <2>1, <3>2, <3>3, <3>4 DEF TypeOK, Load
    <3>5. CASE ~ Load(q)
      <4>1. v.docs = r.docs /\ r.pc # "begin"
        BY <3>2, <3>5 DEF Gather, At, Work, CreateSource, BeginIndexing, SaveDocuments, FindSource, WriteSnapshot,
             Embed, Upsert, UploadIndex, UploadRest, WriteManifest, VerifyLexical, PublishPointer,
             MakeReady, Commit
      <4> QED
        BY <1>2, <1>3, <3>2, <3>3, <4>1 DEF RequestOfOne
    <3> QED
      BY <3>4, <3>5
  <2>2. CASE p # q
    <3>1. v = request[p] /\ RequestOfOne(v) /\ Reached(v) /\ v.job \in JobIds
      BY <1>1, <1>6, <2>2, Slot DEF Touches, OneSnapshot, Artifacts
    <3>2. CASE v.job # j
      BY <1>1, <3>1, <3>2 DEF Touches, RequestOfOne
    <3>3. CASE v.job = j
      <4>1. stage[j] # "snapshot"
        BY <3>1, <3>3 DEF Reached, Order
      <4>2. snapshot'[j] = snapshot[j]
        BY <1>3, <3>3, <4>1
      <4> QED
        BY <1>3, <3>1, <3>3, <4>2 DEF RequestOfOne
    <3> QED
      BY <3>2, <3>3
  <2> QED
    BY <2>1, <2>2
<1> QED
  BY <1>5, <1>6 DEF OneSnapshot

LEMMA AsideKeepsOne ==
  ASSUME Inv, Artifacts, OneSnapshot, Aside
  PROVE  OneSnapshot'
<1>1. UNCHANGED <<snapshot, embedded, vectors, lexical, manifest, rewritten>>
  BY AsideTouches DEF storeVars, histories
<1>2. ASSUME NEW j \in JobIds PROVE JobOfOne(j)'
  BY <1>1 DEF OneSnapshot, JobOfOne
<1>3. ASSUME NEW q \in Requests, request'[q].pc # "off" PROVE RequestOfOne(request[q])'
  <2>1. CASE request'[q] = request[q]
    BY <1>1, <1>3, <2>1 DEF OneSnapshot, RequestOfOne
  <2>2. CASE \E j \in JobIds : Read(q, j)
    BY <2>2, ReadReaches DEF RequestOfOne, Inv
  <2> QED
    BY <1>3, <2>1, <2>2, AsideTouches
<1> QED
  BY <1>2, <1>3 DEF OneSnapshot

\* The snapshot is the one thing that a late request may replace: as long as it is not, the
\* embeddings, vectors, lexical index and record of a whole generation are all about it.
THEOREM SameSnapshot == Spec => []SameDocuments
<1>1. Init => OneSnapshot
  BY DEF Init, OneSnapshot, JobOfOne, NoLexical, Idle
<1>2. Inv /\ Artifacts /\ OneSnapshot /\ [Next]_vars => OneSnapshot'
  BY WorkKeepsOne, AsideKeepsOne, WorkOrAside
<1>3. Inv /\ Artifacts /\ OneSnapshot => SameDocuments
  <2> SUFFICES ASSUME Artifacts, OneSnapshot, NEW g \in JobIds \ rewritten, Whole(g)
               PROVE  /\ embedded[g] = lexical[g].docs
                      /\ vectors[g] = lexical[g].docs
                      /\ manifest[g] = lexical[g].docs
    BY DEF SameDocuments
  <2>1. Built(g) /\ JobOfOne(g)
    BY DEF Artifacts, OneSnapshot
  <2> QED
    BY <2>1 DEF Whole, Built, JobOfOne
<1> QED
  BY <1>1, <1>2, <1>3, ArtifactsInOrder, Invariance, PTL DEF Spec

-----------------------------------------------------------------------------
(* What is READY is indexed *)

LEMMA WorkKeepsOwn ==
  ASSUME Inv, Artifacts, OwnIndexed, NEW q \in Requests, Work(q)
  PROVE  OwnIndexed'
<1> SUFFICES ASSUME NEW r, NEW j, NEW s, r = request[q], j = r.job, s = spec[j].source
             PROVE OwnIndexed'
  OBVIOUS
<1>1. TypeOK /\ Touches(q) /\ r.pc # "off" /\ j \in JobIds
  BY WorkTouches DEF Inv
<1>2. JobHasOwn(j) /\ RequestHasOwn(r) /\ Reached(r) /\ Leaves(r)
  BY <1>1 DEF OwnIndexed, Artifacts, Inv, RequestsLeave
<1>3. /\ UNCHANGED spec /\ missed \subseteq missed'
      /\ \A k \in JobIds : status'[k] = "absent" <=> status[k] = "absent"
  <2>1. CASE Commit(q)
    BY <1>1, <1>2, <2>1 DEF TypeOK, Commit, Reached, histories
  <2>2. CASE ~ Commit(q)
    <3>1. UNCHANGED jobVars
      BY <2>2, WorkSlot
    <3>2. missed \subseteq missed'
      BY <2>2 DEF histories, Work, CreateSource, BeginIndexing, SaveDocuments, FindSource, Gather, WriteSnapshot, Load,
              Embed, Upsert, UploadIndex, UploadRest, WriteManifest, VerifyLexical, PublishPointer,
              MakeReady
    <3> QED
      BY <3>1, <3>2 DEF jobVars
  <2> QED
    BY <2>1, <2>2
<1>4. s \notin missed' => JobHasOwn(j)'
  <2> SUFFICES ASSUME s \notin missed' PROVE JobHasOwn(j)'
    OBVIOUS
  <2>1. /\ snapshot[j] # {} => Holds(snapshot[j], s)
        /\ vectors[j] # {} => Holds(vectors[j], s)
        /\ lexical[j].docs # {} => Holds(lexical[j].docs, s)
        /\ r.docs # {} => Holds(r.docs, s)
    BY <1>2, <1>3 DEF JobHasOwn, RequestHasOwn, Reached
  <2>2. snapshot'[j] # {} => Holds(snapshot'[j], s)
    <3>1. CASE WriteSnapshot(q)
      BY <1>1, <2>1, <3>1 DEF TypeOK, WriteSnapshot
    <3>2. CASE ~ WriteSnapshot(q)
      BY <2>1, <3>2, SnapshotStays
    <3> QED
      BY <3>1, <3>2
  <2>3. /\ vectors'[j] # {} => Holds(vectors'[j], s)
        /\ lexical'[j].docs # {} => Holds(lexical'[j].docs, s)
    <3>1. Replace(vectors[j], r.docs) # {} => vectors[j] # {} \/ r.docs # {}
      BY DEF Replace
    <3> QED
      BY <2>1, <3>1, WritesOne, ReplaceHolds
  <2> QED
    BY <1>3, <2>2, <2>3 DEF JobHasOwn
<1>5. ASSUME NEW k \in JobIds PROVE JobHasOwn(k)'
  <2>1. CASE k # j
    BY <1>1, <1>3, <2>1 DEF Touches, OwnIndexed, JobHasOwn
  <2>2. CASE k = j /\ s \notin missed'
    BY <1>4, <2>2
  <2>3. CASE k = j /\ s \in missed'
    BY <1>3, <2>3 DEF JobHasOwn
  <2> QED
    BY <2>1, <2>2, <2>3
<1>6. ASSUME NEW p \in Requests, request'[p].pc # "off" PROVE RequestHasOwn(request[p])'
  <2>1. CASE p = q
    <3>1. ~ Commit(q)
      BY <1>1, <1>6, <2>1 DEF TypeOK, Commit, Idle
    <3>2. request'[q].job = j /\ (request'[q].docs = r.docs \/ Gather(q) \/ Load(q))
      BY <3>1, WorkSlot
    <3>3. s \notin missed' => (request'[q].docs # {} => Holds(request'[q].docs, s))
      <4>1. CASE Gather(q)
        <5>1. request'[q].docs = DocumentsOf(q) /\ Own(q) = s
          BY <1>1, <4>1 DEF TypeOK, Gather, Own
        <5>2. s \notin missed' => s \in Indexed(q) /\ Holds(stored, s)
          BY <4>1, <5>1 DEF Gather
        <5> QED
          BY <5>1, <5>2 DEF DocumentsOf, Holds
      <4>2. CASE Load(q)
        <5>1. request'[q].docs = snapshot[j]
          BY <1>1, <4>2 DEF TypeOK, Load
        <5> QED
          BY <1>2, <1>3, <5>1 DEF JobHasOwn, Reached
      <4>3. CASE request'[q].docs = r.docs
        BY <1>2, <1>3, <4>3 DEF RequestHasOwn
      <4> QED
        BY <3>2, <4>1, <4>2, <4>3
    <3> QED
      BY <1>3, <2>1, <3>2, <3>3 DEF RequestHasOwn
  <2>2. CASE p # q
    BY <1>1, <1>3, <1>6, <2>2 DEF Touches, OwnIndexed, RequestHasOwn
  <2> QED
    BY <2>1, <2>2
<1> QED
  BY <1>5, <1>6 DEF OwnIndexed

LEMMA AsideKeepsOwn ==
  ASSUME Inv, Artifacts, OwnIndexed, Aside
  PROVE  OwnIndexed'
<1>1. UNCHANGED <<stage, snapshot, embedded, vectors, lexical, manifest, missed>>
  BY AsideTouches DEF storeVars, histories
<1>2. ASSUME NEW j \in JobIds PROVE JobHasOwn(j)'
  <2>1. CASE status[j] = "absent"
    BY <1>1, <2>1, AsideTouches DEF Artifacts, Built, JobHasOwn, NoLexical, Gathered
  <2>2. CASE status[j] # "absent"
    BY <1>1, <2>2, AsideTouches DEF OwnIndexed, JobHasOwn
  <2> QED
    BY <2>1, <2>2
<1>3. ASSUME NEW q \in Requests, request'[q].pc # "off" PROVE RequestHasOwn(request[q])'
  <2>1. CASE request'[q] = request[q]
    <3>1. request[q].job \in JobIds /\ Reached(request[q]) /\ RequestHasOwn(request[q])
      BY <1>3, <2>1, Slot DEF Inv, Artifacts, OwnIndexed
    <3>2. spec'[request[q].job] = spec[request[q].job]
      BY <3>1, AsideTouches DEF Reached
    <3> QED
      BY <1>1, <2>1, <3>1, <3>2 DEF RequestHasOwn
  <2>2. CASE \E j \in JobIds : Read(q, j)
    BY <2>2, ReadReaches DEF RequestHasOwn, Inv
  <2> QED
    BY <1>3, <2>1, <2>2, AsideTouches
<1> QED
  BY <1>2, <1>3 DEF OwnIndexed

\* Indexed documents stay in the vectors and in the lexical index.
LEMMA IndexedStays ==
  ASSUME Inv, Artifacts, [Next]_vars, NEW g \in JobIds, Whole(g)
  PROVE  /\ Whole(g)'
         /\ \A s \in Sources : Holds(vectors[g], s) /\ Holds(lexical[g].docs, s) =>
              Holds(vectors'[g], s) /\ Holds(lexical'[g].docs, s)
<1>1. Whole(g)'
  BY WholeStays
<1>2. CASE Aside
  BY <1>1, <1>2, AsideTouches DEF storeVars
<1>3. ASSUME NEW q \in Requests, Work(q)
      PROVE  /\ \A s \in Sources : Holds(vectors[g], s) => Holds(vectors'[g], s)
             /\ lexical'[g].docs = lexical[g].docs
  <2>1. lexical[g].docs # {}
    BY DEF Whole, Artifacts, Built
  <2>2. CASE g # request[q].job
    BY <1>3, <2>2, WorkTouches DEF Touches
  <2>3. CASE g = request[q].job
    <3>1. \A s \in Sources : Holds(vectors[g], s) => Holds(vectors'[g], s)
      BY <1>3, <2>3, WritesOne, ReplaceHolds
    <3>2. UploadIndex(q) => lexical[g].docs = request[q].docs
      BY <2>1, <2>3 DEF UploadIndex
    <3>3. lexical'[g].docs = lexical[g].docs
      BY <1>3, <2>3, <3>2, WritesOne
    <3> QED
      BY <3>1, <3>3
  <2> QED
    BY <2>2, <2>3
<1> QED
  BY <1>1, <1>2, <1>3, WorkOrAside

\* Only the last step of a publication makes a source READY, and its generation is whole.
LEMMA ReadyKept ==
  ASSUME Inv, Artifacts, OwnIndexed, ReadyIndexed, [Next]_vars
  PROVE  ReadyIndexed'
<1> SUFFICES ASSUME NEW s \in Sources, source'[s] = "ready", s \notin missed'
             PROVE  \E g \in JobIds : Whole(g)' /\ Holds(vectors'[g], s) /\ Holds(lexical'[g].docs, s)
  BY DEF ReadyIndexed
<1>1. TypeOK /\ missed \subseteq missed'
  <2>1. CASE Aside
    BY <2>1, AsideTouches DEF histories, Inv
  <2>2. ASSUME NEW q \in Requests, Work(q) PROVE missed \subseteq missed'
    BY <2>2 DEF histories, Work, CreateSource, BeginIndexing, SaveDocuments, FindSource, Gather, WriteSnapshot, Load,
            Embed, Upsert, UploadIndex, UploadRest, WriteManifest, VerifyLexical, PublishPointer,
            MakeReady, Commit
  <2> QED
    BY <2>1, <2>2, WorkOrAside DEF Inv
<1>2. CASE source[s] = "ready"
  BY <1>1, <1>2, IndexedStays DEF ReadyIndexed
<1>3. CASE source[s] # "ready"
  <2>1. PICK q \in Requests : MakeReady(q) /\ s = Own(q)
    <3>1. CASE Aside
      BY <1>1, <1>3, <3>1 DEF TypeOK, sourceVars, Aside, Create, Cancel, MarkFailed, Read, Raise, Lose,
         DeleteNext, CheckDeletion, DeleteRow, Expire, DeleteStored, DeletionStops, vars
    <3>2. ASSUME NEW q \in Requests, Work(q) PROVE MakeReady(q) /\ s = Own(q)
      BY <1>1, <1>3, <3>2 DEF TypeOK, sourceVars, Work, CreateSource, BeginIndexing, SaveDocuments, FindSource, Gather,
         WriteSnapshot, Load, Embed, Upsert, UploadIndex, UploadRest, WriteManifest, VerifyLexical,
         PublishPointer, MakeReady, Commit
    <3> QED
      BY <3>1, <3>2, WorkOrAside
  <2> DEFINE g == request[q].job
  <2>2. g \in JobIds /\ Leaves(request[q]) /\ request[q].stage = "publish" /\ request[q].pc = "ready"
    BY <1>1, <2>1, Slot DEF MakeReady, At, Inv, RequestsLeave
  <2>3. Whole(g)
    BY <2>2 DEF Leaves, Whole, Uploaded, Indexing
  <2>4. JobHasOwn(g) /\ Built(g) /\ status[g] # "absent"
    BY <2>2 DEF OwnIndexed, Artifacts, Reached
  <2>5. Holds(vectors[g], s) /\ Holds(lexical[g].docs, s)
    <3>1. spec[g].source = s /\ s \notin missed
      BY <1>1, <2>1 DEF Own
    <3> HIDE DEF g
    <3> QED
      BY <2>3, <2>4, <3>1 DEF JobHasOwn, Built, Whole
  <2> SUFFICES ASSUME NEW h, h = g PROVE \E k \in JobIds : Whole(k)' /\ Holds(vectors'[k], s) /\ Holds(lexical'[k].docs, s)
    OBVIOUS
  <2>6. Whole(h)' /\ Holds(vectors'[h], s) /\ Holds(lexical'[h].docs, s)
    BY <2>2, <2>3, <2>5, IndexedStays
  <2> QED
    BY <2>2, <2>6
<1> QED
  BY <1>2, <1>3

\* A source is READY only if a whole generation was built from it, whatever is cancelled,
\* removed, retried or late, unless a job of its gathered documents while it was removed.
THEOREM ReadyIsIndexed == Spec => []ReadyIndexed
<1>1. Init => OwnIndexed /\ ReadyIndexed
  BY DEF Init, OwnIndexed, JobHasOwn, RequestHasOwn, Idle, ReadyIndexed
<1>2. Inv /\ Artifacts /\ OwnIndexed /\ [Next]_vars => OwnIndexed'
  BY WorkKeepsOwn, AsideKeepsOwn, WorkOrAside
<1>3. Inv /\ Artifacts /\ OwnIndexed /\ ReadyIndexed /\ [Next]_vars => ReadyIndexed'
  BY ReadyKept
<1> QED
  BY <1>1, <1>2, <1>3, ArtifactsInOrder, Invariance, PTL DEF Spec
=============================================================================
