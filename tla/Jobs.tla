-------------------------------- MODULE Jobs --------------------------------
(***************************************************************************)
(* Durable indexing jobs: the job table and the workspace reservation      *)
(* (app/jobs/repository.py), the HTTP handlers that create, resume, cancel *)
(* and step a job (app/jobs/routes.py, step_job of app/jobs/processing.py) *)
(* and the workflow that drives a job step by step and gives up after its  *)
(* retries (frontend/workflows/ingest.ts).                                 *)
(*                                                                         *)
(* A step request reads the job row, does its provider work outside any    *)
(* transaction and records the new checkpoint in a second transaction, so  *)
(* a request whose caller has given up keeps running beside the retry that *)
(* replaced it.  What the provider work does to the stores is the subject  *)
(* of Publication; here it succeeds with a successor stage or fails.       *)
(***************************************************************************)
EXTENDS Naturals

CONSTANTS
  Workspaces,  \* workspaces that own jobs
  JobIds,      \* idempotency keys of POST /jobs
  Kinds,       \* kinds of job that may be created
  Runs,        \* slots of concurrently live workflow runs (bound)
  Requests,    \* slots of step requests in flight (bound)
  MaxRetries,  \* advance.maxRetries of the workflow: 5 in the code (bound)
  MaxStep,     \* a stage that repeats stops repeating at this step (bound)
  None

AllKinds == {"upload", "website", "reindex", "graph"}

ASSUME JobsAssumption ==
  /\ Kinds \subseteq AllKinds
  /\ MaxRetries \in Nat
  /\ MaxStep \in Nat
  /\ None \notin JobIds \cup Runs

VARIABLES
  spec,     \* rag_jobs.workspace_id and spec, fixed at creation
  status,   \* rag_jobs.status
  stage,    \* rag_jobs.checkpoint["stage"], with its "kind" while embedding
  step,     \* rag_jobs.step, the fence
  lock,     \* rag_workspace_jobs: the job a workspace is reserved for
  request,  \* step requests in flight
  run       \* workflow runs

jobVars == <<spec, status, stage, step, lock>>
vars == <<spec, status, stage, step, lock, request, run>>
-----------------------------------------------------------------------------
Ended == {"complete", "cancelled"}
Statuses == {"absent", "queued", "running", "retrying", "failed"} \cup Ended

PublishStages == {"publish", "graph_publish"}
Stages == {"parse", "snapshot", "embed_vector", "embed_sentence_window", "lexical",
           "graph_extract", "complete"} \cup PublishStages

\* The stages a checkpoint may move to, per kind of job.
RetrievalFlow ==
  {<<"parse", "snapshot">>,
   <<"snapshot", "embed_vector">>,
   <<"embed_vector", "embed_vector">>,
   <<"embed_vector", "embed_sentence_window">>,
   <<"embed_sentence_window", "embed_sentence_window">>,
   <<"embed_sentence_window", "lexical">>,
   <<"lexical", "publish">>,
   <<"publish", "complete">>}

GraphFlow ==
  {<<"parse", "graph_extract">>,
   <<"graph_extract", "graph_extract">>,
   <<"graph_extract", "graph_publish">>,
   <<"graph_publish", "complete">>}

Flow(kind) ==
  IF kind = "graph" THEN GraphFlow
  ELSE RetrievalFlow \cup (IF kind = "website" THEN {<<"parse", "parse">>} ELSE {})

IdleRequest ==
  [pc |-> "off", job |-> None, caller |-> None, step |-> 0, from |-> "parse", to |-> "parse"]
IdleRun == [pc |-> "off", job |-> None, step |-> 0, attempt |-> 0]

JobSpecs == [workspace : Workspaces, kind : Kinds]

RequestType ==
  [pc : {"off", "sent", "advance", "commit", "raised"}, job : JobIds \cup {None},
   caller : Runs \cup {None}, step : Nat, from : Stages, to : Stages]
RunType ==
  [pc : {"off", "call", "wait", "failing"}, job : JobIds \cup {None}, step : Nat,
   attempt : 0 .. MaxRetries]

\* Types of the rows and of the slots; a slot in use names a job.
TypeOK ==
  /\ spec \in [JobIds -> JobSpecs \cup {None}]
  /\ status \in [JobIds -> Statuses]
  /\ stage \in [JobIds -> Stages]
  /\ step \in [JobIds -> Nat]
  /\ lock \in [Workspaces -> JobIds \cup {None}]
  /\ request \in [Requests -> RequestType]
  /\ run \in [Runs -> RunType]
  /\ \A q \in Requests : request[q].pc # "off" => request[q].job \in JobIds
  /\ \A r \in Runs : run[r].pc # "off" => run[r].job \in JobIds

Init ==
  /\ spec = [j \in JobIds |-> None]
  /\ status = [j \in JobIds |-> "absent"]
  /\ stage = [j \in JobIds |-> "parse"]
  /\ step = [j \in JobIds |-> 0]
  /\ lock = [w \in Workspaces |-> None]
  /\ request = [q \in Requests |-> IdleRequest]
  /\ run = [r \in Runs |-> IdleRun]
-----------------------------------------------------------------------------
(* POST /jobs, POST /jobs/{id}/resume, POST /jobs/{id}/cancel *)

\* Mutant: the insert into rag_workspace_jobs replaces the row of another job.
ReservableAlways(w) == TRUE

\* A second job cannot insert its row in rag_workspace_jobs: 409.
Reservable(w) == lock[w] = None

Create(j, s) ==
  /\ status[j] = "absent"
  /\ Reservable(s.workspace)
  /\ spec' = [spec EXCEPT ![j] = s]
  /\ status' = [status EXCEPT ![j] = "queued"]
  /\ stage' = [stage EXCEPT ![j] = "parse"]
  /\ step' = [step EXCEPT ![j] = 0]
  /\ lock' = [lock EXCEPT ![s.workspace] = j]
  /\ UNCHANGED <<request, run>>

\* The dispatch reaches the workflow service, which starts a run at step 0.
StartRun(j, r) ==
  /\ run[r].pc = "off"
  /\ run' = [run EXCEPT ![r] = [pc |-> "call", job |-> j, step |-> 0, attempt |-> 0]]
  /\ UNCHANGED <<jobVars, request>>

\* POST /jobs dispatches the row it created, or the one it finds under the same
\* key and spec, whatever its status.  A dispatch that fails does nothing.
Dispatch(j, r) ==
  /\ status[j] # "absent"
  /\ StartRun(j, r)

\* Mutant: a failed job counts as ended.
ResumableUnlessFailed(j) == status[j] \notin Ended \cup {"absent", "failed"}

Resumable(j) == status[j] \notin Ended \cup {"absent"}

Resume(j, r) ==
  /\ Resumable(j)
  /\ StartRun(j, r)

\* Mutant: cancel looks at the status of the job only.
CancellableAnyStage(j) == status[j] \notin {"absent", "complete"}

Cancellable(j) ==
  /\ status[j] \notin {"absent", "complete"}
  /\ stage[j] \notin PublishStages

\* Mutant: the reservation is not deleted with the job.
LockKept(j) == lock

\* DELETE FROM rag_workspace_jobs WHERE job_id = j.
LockWithout(j) == [w \in Workspaces |-> IF lock[w] = j THEN None ELSE lock[w]]

Cancel(j) ==
  /\ Cancellable(j)
  /\ status' = [status EXCEPT ![j] = "cancelled"]
  /\ lock' = LockWithout(j)
  /\ UNCHANGED <<spec, stage, step, request, run>>
-----------------------------------------------------------------------------
(* The workflow run *)

\* A response that is no error: the run stops, or asks for the step it was told.
Answered(r, answer, n) ==
  IF answer \in Ended THEN IdleRun
  ELSE [run[r] EXCEPT !.pc = "call", !.step = n, !.attempt = 0]

\* Mutants: one retry too many; retries that are not counted.
ThrewOnceMore(r) ==
  IF run[r].attempt =< MaxRetries
  THEN [run[r] EXCEPT !.pc = "call", !.attempt = @ + 1]
  ELSE [run[r] EXCEPT !.pc = "failing"]

ThrewForever(r) == [run[r] EXCEPT !.pc = "call"]

\* A 5xx, a timeout or a lost connection: the engine repeats the step until its retries are used
\* up, and then the run reports the job as failed. A 4xx (FatalError in ingest.ts) is not repeated,
\* but none is answered here: the secret is right, and the row of a job is never deleted.
Threw(r) ==
  IF run[r].attempt < MaxRetries
  THEN [run[r] EXCEPT !.pc = "call", !.attempt = @ + 1]
  ELSE [run[r] EXCEPT !.pc = "failing"]

Call(r, q) ==
  /\ run[r].pc = "call"
  /\ request[q].pc = "off"
  /\ request' = [request EXCEPT ![q] = [IdleRequest EXCEPT !.pc = "sent", !.job = run[r].job,
                                                           !.caller = r, !.step = run[r].step]]
  /\ run' = [run EXCEPT ![r].pc = "wait"]
  /\ UNCHANGED jobVars

\* The caller stops listening (its 235 s timeout, a dropped connection): the
\* request runs on, and nobody will read its response.
Abandon(r) ==
  /\ run[r].pc = "wait"
  /\ request' = [q \in Requests |->
                   IF request[q].caller = r THEN [request[q] EXCEPT !.caller = None]
                   ELSE request[q]]
  /\ run' = [run EXCEPT ![r] = Threw(r)]
  /\ UNCHANGED jobVars

\* An abandoned request dies with the instance that serves it.
Lose(q) ==
  /\ request[q].pc # "off"
  /\ request[q].caller = None
  /\ request' = [request EXCEPT ![q] = IdleRequest]
  /\ UNCHANGED <<jobVars, run>>

\* POST /internal/jobs/{id}/failed.
Fail(j) ==
  /\ status' = IF status[j] \in Ended THEN status ELSE [status EXCEPT ![j] = "failed"]
  /\ UNCHANGED <<spec, stage, step, lock, request>>

MarkFailed(r) ==
  /\ run[r].pc = "failing"
  /\ Fail(run[r].job)
  /\ run' = [run EXCEPT ![r] = IdleRun]

\* The row is updated and the response lost: the engine will report it again.
MarkFailedUnheard(r) ==
  /\ run[r].pc = "failing"
  /\ Fail(run[r].job)
  /\ UNCHANGED run

\* The report never arrives and the engine's own retries of it run out.
MarkFailedLost(r) ==
  /\ run[r].pc = "failing"
  /\ run' = [run EXCEPT ![r] = IdleRun]
  /\ UNCHANGED <<jobVars, request>>
-----------------------------------------------------------------------------
(* POST /internal/jobs/{id}/step *)

Caller(q) == request[q].caller

\* The handler returns, or raises: its caller, if it still has one, learns of it.
Return(q, answer, n) ==
  /\ request' = [request EXCEPT ![q] = IdleRequest]
  /\ run' = IF Caller(q) = None THEN run
            ELSE [run EXCEPT ![Caller(q)] = Answered(Caller(q), answer, n)]

Raise(q) ==
  /\ request' = [request EXCEPT ![q] = IdleRequest]
  /\ run' = IF Caller(q) = None THEN run
            ELSE [run EXCEPT ![Caller(q)] = Threw(Caller(q))]

\* Mutant: the step of the row is not compared.
SupersededIfEnded(q) == status[request[q].job] \in Ended

\* The row is not at the step the request was sent for, or the job has ended.
Superseded(q) ==
  \/ step[request[q].job] # request[q].step
  \/ status[request[q].job] \in Ended

\* First transaction of step_job: a plain read of the row.
Read(q) ==
  /\ request[q].pc = "sent"
  /\ ~Superseded(q)
  /\ request' = [request EXCEPT ![q].pc = "advance", ![q].from = stage[request[q].job]]
  /\ UNCHANGED <<jobVars, run>>

ReadSuperseded(q) ==
  /\ request[q].pc = "sent"
  /\ Superseded(q)
  /\ Return(q, status[request[q].job], step[request[q].job])
  /\ UNCHANGED jobVars

NextStages(q) ==
  {to \in Stages : /\ <<request[q].from, to>> \in Flow(spec[request[q].job].kind)
                   /\ to = request[q].from => request[q].step < MaxStep}

\* advance() returns the checkpoint of a successor stage ...
AdvanceTo(q, to) ==
  /\ request[q].pc = "advance"
  /\ to \in NextStages(q)
  /\ request' = [request EXCEPT ![q].pc = "commit", ![q].to = to]
  /\ UNCHANGED <<jobVars, run>>

\* ... or fails: a provider or store error, the 220 s timeout, an unknown stage.
AdvanceFail(q) ==
  /\ request[q].pc = "advance"
  /\ request' = [request EXCEPT ![q].pc = "raised"]
  /\ UNCHANGED <<jobVars, run>>

\* ... or raises an HTTPException (503, the storage backend is not the durable one), which the
\* route passes on without touching the row, and the workflow repeats like any 5xx.
AdvanceRefuse(q) ==
  /\ request[q].pc = "advance"
  /\ Raise(q)
  /\ UNCHANGED jobVars

\* Second transaction of step_job, on the locked row.
Commit(q) ==
  LET j == request[q].job
      complete == request[q].to = "complete"
      answer == IF complete THEN "complete" ELSE "running"
  IN /\ request[q].pc = "commit"
     /\ ~Superseded(q)
     /\ stage' = [stage EXCEPT ![j] = request[q].to]
     /\ step' = [step EXCEPT ![j] = request[q].step + 1]
     /\ status' = [status EXCEPT ![j] = answer]
     /\ lock' = IF complete THEN LockWithout(j) ELSE lock
     /\ Return(q, answer, request[q].step + 1)
     /\ UNCHANGED spec

CommitSuperseded(q) ==
  /\ request[q].pc = "commit"
  /\ Superseded(q)
  /\ Return(q, status[request[q].job], step[request[q].job])
  /\ UNCHANGED jobVars

\* The route's handler of any other exception: an UPDATE that looks at neither the
\* step nor the status of the row, and a 503.
RecordRetrying(q) ==
  /\ request[q].pc = "raised"
  /\ status' = [status EXCEPT ![request[q].job] = "retrying"]
  /\ Raise(q)
  /\ UNCHANGED <<spec, stage, step, lock>>
-----------------------------------------------------------------------------
UserNext ==
  \E j \in JobIds :
    \/ \E s \in JobSpecs : Create(j, s)
    \/ \E r \in Runs : Dispatch(j, r) \/ Resume(j, r)
    \/ Cancel(j)

RunNext ==
  \E r \in Runs :
    \/ \E q \in Requests : Call(r, q)
    \/ Abandon(r)
    \/ MarkFailed(r)
    \/ MarkFailedUnheard(r)
    \/ MarkFailedLost(r)

RequestNext ==
  \E q \in Requests :
    \/ Read(q)
    \/ ReadSuperseded(q)
    \/ \E to \in Stages : AdvanceTo(q, to)
    \/ AdvanceFail(q)
    \/ AdvanceRefuse(q)
    \/ Commit(q)
    \/ CommitSuperseded(q)
    \/ RecordRetrying(q)
    \/ Lose(q)

Next == UserNext \/ RunNext \/ RequestNext

Spec == Init /\ [][Next]_vars
-----------------------------------------------------------------------------
(* Properties *)

\* The reservation belongs to a job of that workspace that has neither completed nor
\* been cancelled, whatever failures and late requests did to its status: a workspace
\* is never blocked by a job that is over (rag_workspace_jobs is written by create and
\* deleted in the transactions that complete or cancel the job).
HolderUnfinished ==
  \A w \in Workspaces, j \in JobIds :
    lock[w] = j =>
      /\ status[j] \notin Ended \cup {"absent"}
      /\ stage[j] # "complete"
      /\ spec[j].workspace = w

\* The step number fences the checkpoint: a checkpoint changes only when the step
\* moves on by one, along the flow of its kind of job, so of all the requests for a
\* step, retried, duplicated or late, one at most is recorded.
StepFence ==
  [][\A j \in JobIds :
       \/ step'[j] = step[j] /\ stage'[j] = stage[j]
       \/ /\ step'[j] = step[j] + 1
          /\ <<stage[j], stage'[j]>> \in Flow(spec[j].kind)]_vars

Publishing(q) ==
  /\ request[q].pc \in {"advance", "commit"}
  /\ request[q].from \in PublishStages

\* A reservation that is given back before the job completes is given back by a
\* cancellation, and then no request of that job is publishing: the refusal
\* "Publication has begun" covers the requests in flight as well as the row.
CancelSparesPublication ==
  [][\A w \in Workspaces, q \in Requests :
       /\ lock[w] # None
       /\ lock'[w] # lock[w]
       /\ stage'[lock[w]] # "complete"
       => ~(request[q].job = lock[w] /\ Publishing(q))]_vars

\* The strengthening that makes the properties above inductive: rows exist for what the
\* slots name, a run waits for one request at most, and a request that has read its row
\* has not been overtaken without noticing.
Created ==
  /\ \A j \in JobIds :
       IF status[j] = "absent" THEN stage[j] = "parse" /\ step[j] = 0
       ELSE spec[j] \in JobSpecs
  /\ \A q \in Requests : request[q].pc # "off" => status[request[q].job] # "absent"
  /\ \A r \in Runs : run[r].pc # "off" => status[run[r].job] # "absent"

Linked ==
  /\ \A q \in Requests :
       request[q].caller # None =>
         /\ request[q].pc # "off"
         /\ run[request[q].caller].pc = "wait"
  /\ \A p, q \in Requests :
       request[p].caller # None /\ request[p].caller = request[q].caller => p = q

InHand(q) == request[q].pc \in {"advance", "commit", "raised"}

Fenced ==
  \A q \in Requests : InHand(q) =>
    LET j == request[q].job IN
      /\ request[q].step =< step[j]
      /\ request[q].step = step[j] => request[q].from = stage[j]
      /\ request[q].from \in PublishStages => stage[j] \in PublishStages \cup {"complete"}
      /\ request[q].pc = "commit" => <<request[q].from, request[q].to>> \in Flow(spec[j].kind)

Inv == TypeOK /\ Created /\ Linked /\ HolderUnfinished /\ Fenced

\* The table implements the reservation of a workspace for one job at a time, held
\* by each job once.
Reservation == INSTANCE WorkspaceReservation WITH
  holder <- lock,
  spent <- {j \in JobIds : status[j] # "absent" /\ \A w \in Workspaces : lock[w] # j}
ReservationHeldOnce == Reservation!Spec
-----------------------------------------------------------------------------
(* Liveness *)

\* Handlers finish: advance() is cut off after 220 s and the rest is one transaction.
\* The engine keeps issuing the steps of a run.  Nothing is assumed of the users, of
\* the network or of the instances that may die.
RequestMoves(q) ==
  \/ Read(q)
  \/ ReadSuperseded(q)
  \/ \E to \in Stages : AdvanceTo(q, to)
  \/ AdvanceFail(q)
  \/ AdvanceRefuse(q)
  \/ Commit(q)
  \/ CommitSuperseded(q)
  \/ RecordRetrying(q)

Fairness ==
  /\ \A q \in Requests : WF_vars(RequestMoves(q))
  /\ \A r \in Runs : SF_vars(\E q \in Requests : Call(r, q)) /\ WF_vars(MarkFailed(r))

FairSpec == Spec /\ Fairness

\* Every workflow run ends, although several runs and abandoned requests may race on
\* one job: what a response tells a run is news, or the run stops.
RunsEnd == \A r \in Runs : run[r].pc # "off" ~> run[r].pc = "off"

\* Failures are not forever: a job that can be resumed is resumed again and again, a
\* request for the current step gets read, advanced and recorded if that is tried
\* often enough, and a response is heard if enough of them are sent.
RecoveryFairness ==
  /\ \A r \in Runs, j \in JobIds : SF_vars(Resume(j, r))
  /\ \A q \in Requests :
       /\ SF_vars(ReadSuperseded(q) /\ Caller(q) # None)
       /\ SF_vars(Read(q))
       /\ SF_vars(\E to \in Stages : AdvanceTo(q, to))
       /\ SF_vars(Commit(q))

RecoverySpec == FairSpec /\ RecoveryFairness

\* A lost dispatch can be explicitly resumed: while users resume it, a job that holds
\* the reservation of its workspace gives it back in the end.
ReservationReturned == \A w \in Workspaces : lock[w] # None ~> lock[w] = None
-----------------------------------------------------------------------------
(* What the code says of itself and does not keep *)

\* "Workspace serialization": a step of a job is recorded only while the job holds the
\* reservation of its workspace.
RecordedUnderReservation ==
  [][\A j \in JobIds : step'[j] # step[j] => lock[spec[j].workspace] = j]_vars
=============================================================================
