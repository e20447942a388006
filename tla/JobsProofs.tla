----------------------------- MODULE JobsProofs -----------------------------
(* Theorems about Jobs, for any workspaces, jobs, runs and requests. *)
EXTENDS Jobs, TLAPS

(***************************************************************************)
(* Inv is inductive.  What the actions share is stated first: how an       *)
(* answer or an error changes the run that hears of it.                    *)
(***************************************************************************)

\* A run that is told of an answer calls again or stops, for the same job.
LEMMA AnswerType ==
  ASSUME TypeOK, NEW r \in Runs, run[r].pc # "off",
         NEW answer \in Statuses, NEW n \in Nat
  PROVE  /\ Answered(r, answer, n) \in RunType
         /\ Answered(r, answer, n).pc # "off" => Answered(r, answer, n).job = run[r].job
         /\ Answered(r, answer, n).pc # "wait"
<1>1. run[r] \in RunType
  BY DEF TypeOK
<1>2. 0 \in 0 .. MaxRetries
  BY JobsAssumption
<1>3. CASE answer \in Ended
  BY <1>2, <1>3 DEF Answered, IdleRun, RunType
<1>4. CASE answer \notin Ended
  BY <1>1, <1>2, <1>4 DEF Answered, RunType
<1> QED
  BY <1>3, <1>4

\* A run that is told of an error repeats its call or gives up.
LEMMA ThrewType ==
  ASSUME TypeOK, NEW r \in Runs, run[r].pc # "off"
  PROVE  /\ Threw(r) \in RunType
         /\ Threw(r).job = run[r].job
         /\ Threw(r).pc \in {"call", "failing"}
<1>1. run[r] \in RunType
  BY DEF TypeOK
<1>2. run[r].attempt \in 0 .. MaxRetries
  BY <1>1 DEF RunType
<1>3. CASE run[r].attempt < MaxRetries
  <2>1. run[r].attempt + 1 \in 0 .. MaxRetries
    BY <1>2, <1>3, JobsAssumption
  <2> QED
    BY <1>1, <1>3, <2>1 DEF Threw, RunType
<1>4. CASE ~(run[r].attempt < MaxRetries)
  BY <1>1, <1>4 DEF Threw, RunType
<1> QED
  BY <1>3, <1>4

\* What a finished request leaves of the runs: those it does not answer are as they
\* were, and the one it answers no longer waits.
Heard(q) ==
  /\ request' = [request EXCEPT ![q] = IdleRequest]
  /\ run' \in [Runs -> RunType]
  /\ \A r \in Runs :
       /\ run'[r].pc # "off" => run[r].pc # "off" /\ run'[r].job = run[r].job
       /\ r # request[q].caller => run'[r] = run[r]

\* A response is heard by the run that waits for it, and by no other.
LEMMA ReturnHeard ==
  ASSUME TypeOK, Linked, NEW q \in Requests, NEW answer \in Statuses, NEW n \in Nat,
         Return(q, answer, n)
  PROVE  Heard(q)
<1>1. CASE Caller(q) = None
  BY <1>1 DEF Return, Heard, TypeOK
<1>2. CASE Caller(q) # None
  <2> DEFINE c == Caller(q)
  <2>1. c \in Runs /\ run[c].pc # "off"
    BY <1>2 DEF Caller, Linked, TypeOK, RequestType
  <2>2. /\ Answered(c, answer, n) \in RunType
        /\ Answered(c, answer, n).pc # "off" => Answered(c, answer, n).job = run[c].job
    BY <2>1, AnswerType
  <2>3. run' = [run EXCEPT ![c] = Answered(c, answer, n)]
    BY <1>2 DEF Return
  <2> QED
    BY <2>1, <2>2, <2>3 DEF Return, Heard, TypeOK, Caller
<1> QED
  BY <1>1, <1>2

\* So is an error.
LEMMA RaiseHeard ==
  ASSUME TypeOK, Linked, NEW q \in Requests, Raise(q)
  PROVE  Heard(q)
<1>1. CASE Caller(q) = None
  BY <1>1 DEF Raise, Heard, TypeOK
<1>2. CASE Caller(q) # None
  <2> DEFINE c == Caller(q)
  <2>1. c \in Runs /\ run[c].pc # "off"
    BY <1>2 DEF Caller, Linked, TypeOK, RequestType
  <2>2. Threw(c) \in RunType /\ Threw(c).job = run[c].job
    BY <2>1, ThrewType
  <2>3. run' = [run EXCEPT ![c] = Threw(c)]
    BY <1>2 DEF Raise
  <2> QED
    BY <2>1, <2>2, <2>3 DEF Raise, Heard, TypeOK, Caller
<1> QED
  BY <1>1, <1>2

-----------------------------------------------------------------------------
\* The type invariant: rows.
RowsOK ==
  /\ spec \in [JobIds -> JobSpecs \cup {None}]
  /\ status \in [JobIds -> Statuses]
  /\ stage \in [JobIds -> Stages]
  /\ step \in [JobIds -> Nat]
  /\ lock \in [Workspaces -> JobIds \cup {None}]

\* Giving a reservation back leaves the others.
LEMMA LockWithoutType ==
  ASSUME RowsOK, NEW j \in JobIds
  PROVE  LockWithout(j) \in [Workspaces -> JobIds \cup {None}]
BY DEF RowsOK, LockWithout

\* Every action keeps the rows of the table well typed.
LEMMA RowsNext ==
  ASSUME TypeOK, Next
  PROVE  RowsOK'
<1>1. RowsOK
  BY DEF TypeOK, RowsOK
<1>2. ASSUME UNCHANGED jobVars  PROVE RowsOK'
  BY <1>1, <1>2 DEF RowsOK, jobVars
<1>3. CASE UserNext
  <2> SUFFICES ASSUME NEW j \in JobIds,
                      \/ \E s \in JobSpecs : Create(j, s)
                      \/ \E r \in Runs : Dispatch(j, r) \/ Resume(j, r)
                      \/ Cancel(j)
               PROVE  RowsOK'
    BY <1>3 DEF UserNext
  <2>1. ASSUME NEW s \in JobSpecs, Create(j, s)  PROVE RowsOK'
    BY <1>1, <2>1 DEF RowsOK, Create, Statuses, Stages, JobSpecs
  <2>2. ASSUME NEW r \in Runs, Dispatch(j, r) \/ Resume(j, r)  PROVE RowsOK'
    BY <1>2, <2>2 DEF Dispatch, Resume, StartRun
  <2>3. CASE Cancel(j)
    BY <1>1, <2>3, LockWithoutType DEF RowsOK, Cancel, Statuses, Ended
  <2> QED
    BY <2>1, <2>2, <2>3
<1>4. CASE RunNext
  <2> SUFFICES ASSUME NEW r \in Runs,
                      \/ \E q \in Requests : Call(r, q)
                      \/ Abandon(r)
                      \/ MarkFailed(r)
                      \/ MarkFailedUnheard(r)
                      \/ MarkFailedLost(r)
               PROVE  RowsOK'
    BY <1>4 DEF RunNext
  <2>1. CASE (\E q \in Requests : Call(r, q)) \/ Abandon(r) \/ MarkFailedLost(r)
    BY <1>2, <2>1 DEF Call, Abandon, MarkFailedLost
  <2>2. CASE MarkFailed(r) \/ MarkFailedUnheard(r)
    <3>1. Fail(run[r].job) /\ run[r].job \in JobIds
      BY <2>2 DEF MarkFailed, MarkFailedUnheard, TypeOK
    <3> QED
      BY <1>1, <3>1 DEF Fail, RowsOK, Statuses
  <2> QED
    BY <2>1, <2>2
<1>5. CASE RequestNext
  <2> SUFFICES ASSUME NEW q \in Requests,
                      \/ Read(q)
                      \/ ReadSuperseded(q)
                      \/ \E to \in Stages : AdvanceTo(q, to)
                      \/ AdvanceFail(q)
                      \/ AdvanceRefuse(q)
                      \/ Commit(q)
                      \/ CommitSuperseded(q)
                      \/ RecordRetrying(q)
                      \/ Lose(q)
               PROVE  RowsOK'
    BY <1>5 DEF RequestNext
  <2>1. CASE Read(q) \/ ReadSuperseded(q) \/ AdvanceFail(q) \/ AdvanceRefuse(q)
             \/ CommitSuperseded(q) \/ Lose(q)
    BY <1>2, <2>1 DEF Read, ReadSuperseded, AdvanceFail, AdvanceRefuse, CommitSuperseded, Lose
  <2>2. ASSUME NEW to \in Stages, AdvanceTo(q, to)  PROVE RowsOK'
    BY <1>2, <2>2 DEF AdvanceTo
  <2>3. CASE Commit(q)
    <3>1. request[q].job \in JobIds /\ request[q].step + 1 \in Nat /\ request[q].to \in Stages
      BY <2>3 DEF Commit, TypeOK, RequestType
    <3>2. LockWithout(request[q].job) \in [Workspaces -> JobIds \cup {None}]
      BY <1>1, <3>1, LockWithoutType
    <3>3. spec' = spec
      BY <2>3 DEF Commit
    <3>4. status' \in [JobIds -> Statuses]
      BY <1>1, <2>3, <3>1 DEF RowsOK, Commit, Statuses, Ended
    <3>5. stage' \in [JobIds -> Stages] /\ step' \in [JobIds -> Nat]
      BY <1>1, <2>3, <3>1 DEF RowsOK, Commit
    <3>6. lock' \in [Workspaces -> JobIds \cup {None}]
      BY <1>1, <2>3, <3>2 DEF RowsOK, Commit
    <3> QED
      BY <1>1, <3>3, <3>4, <3>5, <3>6 DEF RowsOK
  <2>4. CASE RecordRetrying(q)
    <3>1. request[q].job \in JobIds
      BY <2>4 DEF RecordRetrying, TypeOK
    <3> QED
      BY <1>1, <2>4, <3>1 DEF RowsOK, RecordRetrying, Statuses
  <2> QED
    BY <2>1, <2>2, <2>3, <2>4
<1> QED
  BY <1>3, <1>4, <1>5 DEF Next

-----------------------------------------------------------------------------
\* The type invariant and what links the slots: requests and runs.
SlotsOK ==
  /\ request \in [Requests -> RequestType]
  /\ run \in [Runs -> RunType]
  /\ \A q \in Requests : request[q].pc # "off" => request[q].job \in JobIds
  /\ \A r \in Runs : run[r].pc # "off" => run[r].job \in JobIds

\* Slots that are not in use are well typed.
LEMMA IdleTypes == IdleRequest \in RequestType /\ IdleRun \in RunType
BY JobsAssumption DEF IdleRequest, IdleRun, RequestType, RunType, Stages

\* A request that is answered, or lost, leaves the other slots consistent.
LEMMA HeardSlots ==
  ASSUME SlotsOK, Linked, NEW q \in Requests, request[q].pc # "off", Heard(q)
  PROVE  SlotsOK' /\ Linked'
<1>1. request' \in [Requests -> RequestType]
  BY IdleTypes DEF SlotsOK, Heard
<1>2. request'[q] = IdleRequest /\ \A p \in Requests \ {q} : request'[p] = request[p]
  BY DEF SlotsOK, Heard
<1>3. SlotsOK'
  BY <1>1, <1>2 DEF SlotsOK, Heard, IdleRequest
<1>4. Linked'
  <2>1. ASSUME NEW p \in Requests, request'[p].caller # None
        PROVE  request'[p].pc # "off" /\ run'[request'[p].caller].pc = "wait"
    <3>1. p # q /\ request'[p] = request[p] /\ request[p].caller # None
      BY <1>2, <2>1 DEF IdleRequest
    <3>2. request[p].caller # request[q].caller
      BY <3>1 DEF Linked
    <3>3. request[p].caller \in Runs
      BY <3>1 DEF SlotsOK, RequestType
    <3> QED
      BY <3>1, <3>2, <3>3 DEF Heard, Linked
  <2>2. ASSUME NEW p1 \in Requests, NEW p2 \in Requests,
               request'[p1].caller # None, request'[p1].caller = request'[p2].caller
        PROVE  p1 = p2
    BY <1>2, <2>2 DEF Linked, IdleRequest
  <2> QED
    BY <2>1, <2>2 DEF Linked
<1> QED
  BY <1>3, <1>4

\* A request that moves on keeps its job and its caller.
LEMMA MovedSlots ==
  ASSUME SlotsOK, Linked, NEW q \in Requests, request[q].pc # "off", NEW v \in RequestType,
         v.pc # "off", v.job = request[q].job, v.caller = request[q].caller,
         request' = [request EXCEPT ![q] = v], UNCHANGED run
  PROVE  SlotsOK' /\ Linked'
<1>1. request'[q] = v /\ \A p \in Requests \ {q} : request'[p] = request[p]
  BY DEF SlotsOK
<1>2. SlotsOK'
  BY <1>1 DEF SlotsOK
<1>3. Linked'
  BY <1>1 DEF Linked
<1> QED
  BY <1>2, <1>3

\* A run that waits for nothing may be replaced by one that waits for nothing.
LEMMA RunSlots ==
  ASSUME SlotsOK, Linked, NEW r \in Runs, run[r].pc # "wait", NEW v \in RunType,
         v.pc # "off" => v.job \in JobIds,
         run' = [run EXCEPT ![r] = v], UNCHANGED request
  PROVE  SlotsOK' /\ Linked'
<1>1. run'[r] = v /\ \A p \in Runs \ {r} : run'[p] = run[p]
  BY DEF SlotsOK
<1>2. SlotsOK'
  BY <1>1 DEF SlotsOK
<1>3. \A q \in Requests : request[q].caller # None => request[q].caller \in Runs \ {r}
  BY DEF SlotsOK, RequestType, Linked
<1>4. Linked'
  BY <1>1, <1>3 DEF Linked
<1> QED
  BY <1>2, <1>4

\* Every action keeps the slots consistent.
LEMMA SlotsNext ==
  ASSUME TypeOK, Linked, Next
  PROVE  SlotsOK' /\ Linked'
<1>1. SlotsOK
  BY DEF TypeOK, SlotsOK
<1>2. CASE UserNext
  <2> SUFFICES ASSUME NEW j \in JobIds,
                      \/ \E s \in JobSpecs : Create(j, s)
                      \/ \E r \in Runs : Dispatch(j, r) \/ Resume(j, r)
                      \/ Cancel(j)
               PROVE  SlotsOK' /\ Linked'
    BY <1>2 DEF UserNext
  <2>1. CASE (\E s \in JobSpecs : Create(j, s)) \/ Cancel(j)
    BY <1>1, <2>1 DEF SlotsOK, Linked, Create, Cancel
  <2>2. ASSUME NEW r \in Runs, Dispatch(j, r) \/ Resume(j, r)  PROVE SlotsOK' /\ Linked'
    <3> DEFINE v == [pc |-> "call", job |-> j, step |-> 0, attempt |-> 0]
    <3>1. v \in RunType
      BY JobsAssumption DEF RunType
    <3>2. run[r].pc = "off" /\ run' = [run EXCEPT ![r] = v] /\ UNCHANGED request
      BY <2>2 DEF Dispatch, Resume, StartRun
    <3> QED
      BY <1>1, <3>1, <3>2, RunSlots
  <2> QED
    BY <2>1, <2>2
<1>3. CASE RunNext
  <2> SUFFICES ASSUME NEW r \in Runs,
                      \/ \E q \in Requests : Call(r, q)
                      \/ Abandon(r)
                      \/ MarkFailed(r)
                      \/ MarkFailedUnheard(r)
                      \/ MarkFailedLost(r)
               PROVE  SlotsOK' /\ Linked'
    BY <1>3 DEF RunNext
  <2>1. ASSUME NEW q \in Requests, Call(r, q)  PROVE SlotsOK' /\ Linked'
    <3> DEFINE v == [IdleRequest EXCEPT !.pc = "sent", !.job = run[r].job,
                                        !.caller = r, !.step = run[r].step]
               w == [run[r] EXCEPT !.pc = "wait"]
    <3>1. run[r] \in RunType /\ run[r].job \in JobIds
      BY <1>1, <2>1 DEF Call, SlotsOK
    <3>2. v \in RequestType /\ v.pc # "off" /\ v.job \in JobIds /\ v.caller = r
      BY <3>1, IdleTypes DEF RequestType, RunType, IdleRequest
    <3>3. w \in RunType /\ w.pc = "wait" /\ w.job \in JobIds
      BY <3>1 DEF RunType
    <3>4. /\ request'[q] = v /\ \A p \in Requests \ {q} : request'[p] = request[p]
          /\ run'[r] = w /\ \A p \in Runs \ {r} : run'[p] = run[p]
      BY <1>1, <2>1 DEF Call, SlotsOK
    <3>5. SlotsOK'
      <4>1. request' = [request EXCEPT ![q] = v] /\ run' = [run EXCEPT ![r] = w]
        BY <2>1 DEF Call
      <4>2. request' \in [Requests -> RequestType] /\ run' \in [Runs -> RunType]
        BY <1>1, <3>2, <3>3, <4>1 DEF SlotsOK
      <4> QED
        BY <1>1, <3>2, <3>3, <3>4, <4>2 DEF SlotsOK
    <3>6. \A p \in Requests : request[p].caller # r
      <4>1. run[r].pc # "wait" /\ r # None
        BY <2>1, JobsAssumption DEF Call
      <4> QED
        BY <4>1 DEF Linked
    <3>7. Linked'
      <4>1. ASSUME NEW p \in Requests, request'[p].caller # None
            PROVE  request'[p].pc # "off" /\ run'[request'[p].caller].pc = "wait"
        <5>1. CASE p = q
          BY <3>2, <3>3, <3>4, <5>1
        <5>2. CASE p # q
          <6>1. request[p].caller \in Runs \ {r}
            BY <1>1, <3>4, <3>6, <4>1, <5>2 DEF SlotsOK, RequestType
          <6> QED
            BY <3>4, <4>1, <5>2, <6>1 DEF Linked
        <5> QED
          BY <5>1, <5>2
      <4>2. ASSUME NEW p1 \in Requests, NEW p2 \in Requests,
                   request'[p1].caller # None, request'[p1].caller = request'[p2].caller
            PROVE  p1 = p2
        <5> HIDE DEF v, w
        <5>1. p1 # q /\ p2 # q => p1 = p2
          BY <3>4, <4>2 DEF Linked
        <5>2. (p1 = q) <=> (p2 = q)
          BY <3>2, <3>4, <3>6, <4>2
        <5> QED
          BY <5>1, <5>2
      <4> QED
        BY <4>1, <4>2 DEF Linked
    <3> QED
      BY <3>5, <3>7
  <2>2. CASE Abandon(r)
    <3>1. run[r].pc = "wait" /\ r # None
      BY <2>2, JobsAssumption DEF Abandon
    <3>2. Threw(r) \in RunType /\ Threw(r).job = run[r].job
      BY <3>1, ThrewType
    <3>3. run'[r] = Threw(r) /\ \A p \in Runs \ {r} : run'[p] = run[p]
      BY <1>1, <2>2 DEF Abandon, SlotsOK
    <3>4. \A q \in Requests :
            request'[q] = IF request[q].caller = r THEN [request[q] EXCEPT !.caller = None]
                          ELSE request[q]
      BY <2>2 DEF Abandon
    <3>5. \A q \in Requests :
            /\ request'[q] \in RequestType
            /\ request'[q].pc = request[q].pc /\ request'[q].job = request[q].job
            /\ request'[q].caller = IF request[q].caller = r THEN None ELSE request[q].caller
      BY <1>1, <3>4 DEF SlotsOK, RequestType
    <3>6. SlotsOK'
      <4>1. request' \in [Requests -> RequestType]
        BY <2>2, <3>5 DEF Abandon
      <4>2. run' \in [Runs -> RunType]
        BY <1>1, <2>2, <3>2 DEF Abandon, SlotsOK
      <4> QED
        BY <1>1, <3>1, <3>2, <3>3, <3>5, <4>1, <4>2 DEF SlotsOK
    <3>7. Linked'
      <4>1. ASSUME NEW q \in Requests, request'[q].caller # None
            PROVE  request'[q].pc # "off" /\ run'[request'[q].caller].pc = "wait"
        <5>1. request[q].caller # r /\ request'[q].caller = request[q].caller
          BY <3>5, <4>1
        <5>2. request[q].caller \in Runs \ {r}
          BY <1>1, <4>1, <5>1 DEF SlotsOK, RequestType
        <5> QED
          BY <3>3, <3>5, <4>1, <5>1, <5>2 DEF Linked
      <4>2. ASSUME NEW p1 \in Requests, NEW p2 \in Requests,
                   request'[p1].caller # None, request'[p1].caller = request'[p2].caller
            PROVE  p1 = p2
        BY <3>5, <4>2 DEF Linked
      <4> QED
        BY <4>1, <4>2 DEF Linked
    <3> QED
      BY <3>6, <3>7
  <2>3. CASE MarkFailed(r) \/ MarkFailedLost(r)
    <3>1. run[r].pc = "failing" /\ run' = [run EXCEPT ![r] = IdleRun] /\ UNCHANGED request
      BY <2>3 DEF MarkFailed, MarkFailedLost, Fail
    <3> QED
      BY <1>1, <3>1, IdleTypes, RunSlots DEF IdleRun
  <2>4. CASE MarkFailedUnheard(r)
    BY <1>1, <2>4 DEF MarkFailedUnheard, Fail, SlotsOK, Linked
  <2> QED
    BY <2>1, <2>2, <2>3, <2>4
<1>4. CASE RequestNext
  <2> SUFFICES ASSUME NEW q \in Requests,
                      \/ Read(q)
                      \/ ReadSuperseded(q)
                      \/ \E to \in Stages : AdvanceTo(q, to)
                      \/ AdvanceFail(q)
                      \/ AdvanceRefuse(q)
                      \/ Commit(q)
                      \/ CommitSuperseded(q)
                      \/ RecordRetrying(q)
                      \/ Lose(q)
               PROVE  SlotsOK' /\ Linked'
    BY <1>4 DEF RequestNext
  <2> USE IdleTypes
  <2>1. CASE Read(q)
    <3> DEFINE v == [request[q] EXCEPT !.pc = "advance", !.from = stage[request[q].job]]
    <3>1. request[q] \in RequestType /\ stage[request[q].job] \in Stages
      BY <2>1 DEF Read, TypeOK
    <3>2. /\ v \in RequestType /\ v.pc # "off"
          /\ v.job = request[q].job /\ v.caller = request[q].caller
      BY <3>1 DEF RequestType
    <3>3. request' = [request EXCEPT ![q] = v] /\ UNCHANGED run /\ request[q].pc # "off"
      BY <2>1 DEF Read
    <3> QED
      BY <1>1, <3>2, <3>3, MovedSlots
  <2>2. ASSUME NEW to \in Stages, AdvanceTo(q, to)  PROVE SlotsOK' /\ Linked'
    <3> DEFINE v == [request[q] EXCEPT !.pc = "commit", !.to = to]
    <3>1. request[q] \in RequestType
      BY DEF TypeOK
    <3>2. /\ v \in RequestType /\ v.pc # "off"
          /\ v.job = request[q].job /\ v.caller = request[q].caller
      BY <3>1 DEF RequestType
    <3>3. request' = [request EXCEPT ![q] = v] /\ UNCHANGED run /\ request[q].pc # "off"
      BY <2>2 DEF AdvanceTo
    <3> QED
      BY <1>1, <3>2, <3>3, MovedSlots
  <2>3. CASE AdvanceFail(q)
    <3> DEFINE v == [request[q] EXCEPT !.pc = "raised"]
    <3>1. request[q] \in RequestType
      BY DEF TypeOK
    <3>2. /\ v \in RequestType /\ v.pc # "off"
          /\ v.job = request[q].job /\ v.caller = request[q].caller
      BY <3>1 DEF RequestType
    <3>3. request' = [request EXCEPT ![q] = v] /\ UNCHANGED run /\ request[q].pc # "off"
      BY <2>3 DEF AdvanceFail
    <3> QED
      BY <1>1, <3>2, <3>3, MovedSlots
  <2>4. CASE AdvanceRefuse(q) \/ RecordRetrying(q)
    <3>1. request[q].pc # "off" /\ Raise(q)
      BY <2>4 DEF AdvanceRefuse, RecordRetrying
    <3> QED
      BY <1>1, <3>1, RaiseHeard, HeardSlots
  <2>5. CASE ReadSuperseded(q) \/ CommitSuperseded(q)
    <3> DEFINE j == request[q].job
    <3>1. request[q].pc # "off" /\ Return(q, status[j], step[j])
      BY <2>5 DEF ReadSuperseded, CommitSuperseded
    <3>2. status[j] \in Statuses /\ step[j] \in Nat
      BY <3>1 DEF TypeOK
    <3>3. Heard(q)
      BY <3>1, <3>2, ReturnHeard
    <3> QED
      BY <1>1, <3>1, <3>3, HeardSlots
  <2>6. CASE Commit(q)
    <3> DEFINE answer == IF request[q].to = "complete" THEN "complete" ELSE "running"
    <3>1. request[q].pc # "off" /\ Return(q, answer, request[q].step + 1)
      BY <2>6 DEF Commit
    <3>2. answer \in Statuses
      BY DEF Statuses, Ended
    <3>3. request[q].step + 1 \in Nat
      BY DEF TypeOK, RequestType
    <3>4. Heard(q)
      BY <3>1, <3>2, <3>3, ReturnHeard
    <3> QED
      BY <1>1, <3>1, <3>4, HeardSlots
  <2>7. CASE Lose(q)
    <3>1. Heard(q) /\ request[q].pc # "off"
      BY <1>1, <2>7 DEF Lose, Heard, SlotsOK
    <3> QED
      BY <1>1, <3>1, HeardSlots
  <2> QED
    BY <2>1, <2>2, <2>3, <2>4, <2>5, <2>6, <2>7
<1> QED
  BY <1>2, <1>3, <1>4 DEF Next

-----------------------------------------------------------------------------
\* What a step may do to the row of a job: nothing, one of the updates of the handlers, or its
\* creation.  It is the case analysis of the proofs below, one disjunct per SQL statement.
RowStep ==
  \/ UNCHANGED jobVars
  \/ \E j \in JobIds, s \in JobSpecs : Create(j, s)
  \/ \E j \in JobIds : Cancel(j)
  \/ \E j \in JobIds : Fail(j) /\ status[j] # "absent"
  \/ \E q \in Requests : Commit(q)
  \/ \E q \in Requests : RecordRetrying(q)

\* No other step than those of RowStep changes a row.
LEMMA RowSteps ==
  ASSUME TypeOK, Created, Next
  PROVE  RowStep
<1>1. CASE UserNext
  BY <1>1 DEF UserNext, RowStep, Dispatch, Resume, StartRun
<1>2. CASE RunNext
  <2> SUFFICES ASSUME NEW r \in Runs,
                      \/ \E q \in Requests : Call(r, q)
                      \/ Abandon(r)
                      \/ MarkFailed(r)
                      \/ MarkFailedUnheard(r)
                      \/ MarkFailedLost(r)
               PROVE  RowStep
    BY <1>2 DEF RunNext
  <2>1. CASE (\E q \in Requests : Call(r, q)) \/ Abandon(r) \/ MarkFailedLost(r)
    BY <2>1 DEF Call, Abandon, MarkFailedLost, RowStep
  <2>2. CASE MarkFailed(r) \/ MarkFailedUnheard(r)
    BY <2>2 DEF MarkFailed, MarkFailedUnheard, RowStep, TypeOK, Created
  <2> QED
    BY <2>1, <2>2
<1>3. CASE RequestNext
  BY <1>3 DEF RequestNext, RowStep, Read, ReadSuperseded, AdvanceTo, AdvanceFail,
              AdvanceRefuse, CommitSuperseded, Lose
<1> QED
  BY <1>1, <1>2, <1>3 DEF Next

\* Rows are never deleted, and the spec of a job is fixed at its creation.
RowsKept ==
  \A j \in JobIds :
    /\ status[j] # "absent" => status'[j] # "absent" /\ spec'[j] = spec[j]
    /\ IF status'[j] = "absent" THEN stage'[j] = "parse" /\ step'[j] = 0
       ELSE spec'[j] \in JobSpecs

\* A job that was created stays in the table, with its specification.
LEMMA RowsPersist ==
  ASSUME TypeOK, Created, Next
  PROVE  RowsKept
<1>1. CASE UNCHANGED jobVars
  BY <1>1 DEF RowsKept, jobVars, Created
<1>2. ASSUME NEW j \in JobIds, NEW s \in JobSpecs, Create(j, s)  PROVE RowsKept
  BY <1>2 DEF RowsKept, Create, TypeOK, Created
<1>3. ASSUME NEW j \in JobIds, Cancel(j)  PROVE RowsKept
  BY <1>3 DEF RowsKept, Cancel, Cancellable, TypeOK, Created
<1>4. ASSUME NEW j \in JobIds, Fail(j), status[j] # "absent"  PROVE RowsKept
  BY <1>4 DEF RowsKept, Fail, TypeOK, Created
<1>5. ASSUME NEW q \in Requests, Commit(q)  PROVE RowsKept
  <2>1. request[q].job \in JobIds /\ status[request[q].job] # "absent"
    BY <1>5 DEF Commit, TypeOK, Created
  <2> QED
    BY <1>5, <2>1 DEF RowsKept, Commit, TypeOK, Created
<1>6. ASSUME NEW q \in Requests, RecordRetrying(q)  PROVE RowsKept
  <2>1. request[q].job \in JobIds /\ status[request[q].job] # "absent"
    BY <1>6 DEF RecordRetrying, TypeOK, Created
  <2> QED
    BY <1>6, <2>1 DEF RowsKept, RecordRetrying, TypeOK, Created
<1> QED
  BY RowSteps, <1>1, <1>2, <1>3, <1>4, <1>5, <1>6 DEF RowStep

\* No slot names a job that has no row.
SlotsNamed ==
  /\ \A q \in Requests :
       request'[q].pc # "off" =>
         \/ request[q].pc # "off" /\ request'[q].job = request[q].job
         \/ \E r \in Runs : run[r].pc # "off" /\ request'[q].job = run[r].job
  /\ \A r \in Runs :
       run'[r].pc # "off" =>
         \/ run[r].pc # "off" /\ run'[r].job = run[r].job
         \/ run'[r].job \in JobIds /\ status[run'[r].job] # "absent"

\* An answer names no job that was not named before.
LEMMA HeardNamed ==
  ASSUME TypeOK, NEW q \in Requests, Heard(q)
  PROVE  SlotsNamed
BY DEF Heard, SlotsNamed, TypeOK, IdleRequest

\* A slot that is taken into use names a job of the table.
LEMMA SlotsNamedNext ==
  ASSUME TypeOK, Linked, Next
  PROVE  SlotsNamed
<1>1. CASE UserNext
  BY <1>1 DEF UserNext, Create, Dispatch, Resume, Resumable, StartRun, Cancel, SlotsNamed, TypeOK
<1>2. CASE RunNext
  <2> SUFFICES ASSUME NEW r \in Runs,
                      \/ \E q \in Requests : Call(r, q)
                      \/ Abandon(r)
                      \/ MarkFailed(r)
                      \/ MarkFailedUnheard(r)
                      \/ MarkFailedLost(r)
               PROVE  SlotsNamed
    BY <1>2 DEF RunNext
  <2>1. ASSUME NEW q \in Requests, Call(r, q)  PROVE SlotsNamed
    <3>1. /\ \A p \in Requests : request'[p].pc # "off" =>
               \/ request[p].pc # "off" /\ request'[p].job = request[p].job
               \/ p = q /\ request'[p].job = run[r].job
      BY <2>1 DEF Call, TypeOK, IdleRequest
    <3>2. \A p \in Runs : run'[p].pc # "off" => run[p].pc # "off" /\ run'[p].job = run[p].job
      BY <2>1 DEF Call, TypeOK, RunType
    <3>3. run[r].pc # "off"
      BY <2>1 DEF Call
    <3> QED
      BY <3>1, <3>2, <3>3 DEF SlotsNamed
  <2>2. CASE Abandon(r)
    <3>1. \A q \in Requests : request'[q].pc = request[q].pc /\ request'[q].job = request[q].job
      BY <2>2 DEF Abandon, TypeOK, RequestType
    <3>2. run[r].pc # "off" /\ Threw(r).job = run[r].job
      BY <2>2, ThrewType DEF Abandon
    <3>3. \A p \in Runs : run'[p].pc # "off" => run[p].pc # "off" /\ run'[p].job = run[p].job
      BY <2>2, <3>2 DEF Abandon, TypeOK
    <3> QED
      BY <3>1, <3>3 DEF SlotsNamed
  <2>3. CASE MarkFailed(r) \/ MarkFailedUnheard(r) \/ MarkFailedLost(r)
    BY <2>3 DEF MarkFailed, MarkFailedUnheard, MarkFailedLost, Fail, SlotsNamed, TypeOK, IdleRun
  <2> QED
    BY <2>1, <2>2, <2>3
<1>3. CASE RequestNext
  <2> SUFFICES ASSUME NEW q \in Requests,
                      \/ Read(q)
                      \/ ReadSuperseded(q)
                      \/ \E to \in Stages : AdvanceTo(q, to)
                      \/ AdvanceFail(q)
                      \/ AdvanceRefuse(q)
                      \/ Commit(q)
                      \/ CommitSuperseded(q)
                      \/ RecordRetrying(q)
                      \/ Lose(q)
               PROVE  SlotsNamed
    BY <1>3 DEF RequestNext
  <2>1. CASE Read(q) \/ (\E to \in Stages : AdvanceTo(q, to)) \/ AdvanceFail(q)
    <3>1. /\ \A p \in Requests : request'[p].pc # "off" =>
               request[p].pc # "off" /\ request'[p].job = request[p].job
          /\ UNCHANGED run
      BY <2>1 DEF Read, AdvanceTo, AdvanceFail, TypeOK, RequestType
    <3> QED
      BY <3>1 DEF SlotsNamed
  <2>2. CASE AdvanceRefuse(q) \/ RecordRetrying(q)
    BY <2>2, RaiseHeard, HeardNamed DEF AdvanceRefuse, RecordRetrying
  <2>3. CASE ReadSuperseded(q) \/ CommitSuperseded(q)
    <3>1. /\ Return(q, status[request[q].job], step[request[q].job])
          /\ status[request[q].job] \in Statuses
          /\ step[request[q].job] \in Nat
      BY <2>3 DEF ReadSuperseded, CommitSuperseded, TypeOK
    <3> QED
      BY <3>1, ReturnHeard, HeardNamed
  <2>4. CASE Commit(q)
    <3> DEFINE answer == IF request[q].to = "complete" THEN "complete" ELSE "running"
    <3>1. /\ Return(q, answer, request[q].step + 1)
          /\ answer \in Statuses
          /\ request[q].step + 1 \in Nat
      BY <2>4 DEF Commit, TypeOK, RequestType, Statuses, Ended
    <3> QED
      BY <3>1, ReturnHeard, HeardNamed
  <2>5. CASE Lose(q)
    BY <2>5, HeardNamed DEF Lose, Heard, TypeOK
  <2> QED
    BY <2>1, <2>2, <2>3, <2>4, <2>5
<1> QED
  BY <1>1, <1>2, <1>3 DEF Next

\* Every step keeps that the jobs in use exist.
LEMMA CreatedNext ==
  ASSUME TypeOK, Linked, Created, Next
  PROVE  Created'
<1>1. RowsKept /\ SlotsNamed
  BY RowsPersist, SlotsNamedNext
<1>2. ASSUME NEW r \in Runs, run'[r].pc # "off"  PROVE status'[run'[r].job] # "absent"
  BY <1>1, <1>2 DEF RowsKept, SlotsNamed, Created, TypeOK
<1>3. ASSUME NEW q \in Requests, request'[q].pc # "off"
      PROVE  status'[request'[q].job] # "absent"
  BY <1>1, <1>3 DEF RowsKept, SlotsNamed, Created, TypeOK
<1> QED
  BY <1>1, <1>2, <1>3 DEF RowsKept, Created

-----------------------------------------------------------------------------
\* The reservation stays with a job that is not over.
LEMMA HolderNext ==
  ASSUME TypeOK, Created, HolderUnfinished, RowStep
  PROVE  HolderUnfinished'
<1> SUFFICES ASSUME NEW w \in Workspaces, NEW h \in JobIds, lock'[w] = h
             PROVE  /\ status'[h] \notin Ended \cup {"absent"}
                    /\ stage'[h] # "complete"
                    /\ spec'[h].workspace = w
  BY DEF HolderUnfinished
<1> DEFINE Unfinished == /\ status'[h] \notin Ended \cup {"absent"}
                         /\ stage'[h] # "complete"
                         /\ spec'[h].workspace = w
<1>0. ASSUME lock[w] = h
      PROVE  /\ status[h] \notin Ended \cup {"absent"}
             /\ stage[h] # "complete"
             /\ spec[h].workspace = w
  BY <1>0 DEF HolderUnfinished
<1>1. CASE UNCHANGED jobVars
  BY <1>0, <1>1 DEF jobVars
<1>2. ASSUME NEW j \in JobIds, NEW s \in JobSpecs, Create(j, s)  PROVE Unfinished
  <2>1. CASE w = s.workspace
    <3>1. h = j
      BY <1>2, <2>1 DEF Create, TypeOK
    <3> QED
      BY <1>2, <2>1, <3>1 DEF Create, TypeOK, Ended
  <2>2. CASE w # s.workspace
    <3>1. lock[w] = h
      BY <1>2, <2>2 DEF Create, TypeOK
    <3>2. h # j
      BY <1>0, <1>2, <3>1 DEF Create
    <3> QED
      BY <1>0, <1>2, <3>1, <3>2 DEF Create, TypeOK
  <2> QED
    BY <2>1, <2>2
<1>3. ASSUME NEW j \in JobIds, Cancel(j)  PROVE Unfinished
  <2>1. lock[w] = h /\ h # j
    BY <1>3, JobsAssumption DEF Cancel, LockWithout, TypeOK
  <2> QED
    BY <1>0, <1>3, <2>1 DEF Cancel, TypeOK
<1>4. ASSUME NEW j \in JobIds, Fail(j), status[j] # "absent"  PROVE Unfinished
  <2>1. lock[w] = h
    BY <1>4 DEF Fail
  <2> QED
    BY <1>0, <1>4, <2>1 DEF Fail, TypeOK, Ended
<1>5. ASSUME NEW q \in Requests, Commit(q)  PROVE Unfinished
  <2> DEFINE j == request[q].job
  <2>1. j \in JobIds
    BY <1>5 DEF Commit, TypeOK
  <2>2. lock[w] = h /\ (h = j => request[q].to # "complete")
    BY <1>5, <2>1, JobsAssumption DEF Commit, LockWithout, TypeOK
  <2>3. CASE h = j
    <3>1. status'[h] = "running" /\ stage'[h] = request[q].to /\ spec' = spec
      BY <1>5, <2>1, <2>2, <2>3 DEF Commit, TypeOK
    <3> QED
      BY <1>0, <2>2, <2>3, <3>1 DEF Ended
  <2>4. CASE h # j
    <3>1. status'[h] = status[h] /\ stage'[h] = stage[h] /\ spec' = spec
      BY <1>5, <2>1, <2>4 DEF Commit, TypeOK
    <3> QED
      BY <1>0, <2>2, <3>1
  <2> QED
    BY <2>3, <2>4
<1>6. ASSUME NEW q \in Requests, RecordRetrying(q)  PROVE Unfinished
  <2>1. lock[w] = h
    BY <1>6 DEF RecordRetrying
  <2> QED
    BY <1>0, <1>6, <2>1 DEF RecordRetrying, TypeOK, Ended
<1> QED
  BY <1>1, <1>2, <1>3, <1>4, <1>5, <1>6 DEF RowStep

\* One step of a job, as StepFence has it.
FencedStep(j) ==
  \/ step'[j] = step[j] /\ stage'[j] = stage[j]
  \/ /\ step'[j] = step[j] + 1
     /\ <<stage[j], stage'[j]>> \in Flow(spec[j].kind)

\* The fence holds over every change of a row.
LEMMA StepFenceNext ==
  ASSUME TypeOK, Created, Fenced, RowStep, NEW j \in JobIds
  PROVE  FencedStep(j)
<1>1. CASE UNCHANGED jobVars
  BY <1>1 DEF jobVars, FencedStep
<1>2. ASSUME NEW k \in JobIds, NEW s \in JobSpecs, Create(k, s)  PROVE FencedStep(j)
  BY <1>2 DEF Create, FencedStep, Created, TypeOK
<1>3. CASE \E k \in JobIds : Cancel(k) \/ (Fail(k) /\ status[k] # "absent")
  BY <1>3 DEF Cancel, Fail, FencedStep
<1>4. ASSUME NEW q \in Requests, Commit(q)  PROVE FencedStep(j)
  <2> DEFINE k == request[q].job
  <2>1. k \in JobIds /\ request[q].step \in Nat
    BY <1>4 DEF Commit, TypeOK, RequestType
  <2>2. request[q].step = step[k]
    BY <1>4 DEF Commit, Superseded
  <2>3. request[q].from = stage[k] /\ <<request[q].from, request[q].to>> \in Flow(spec[k].kind)
    BY <1>4, <2>2 DEF Commit, Fenced, InHand
  <2>4. /\ stage' = [stage EXCEPT ![k] = request[q].to]
        /\ step' = [step EXCEPT ![k] = request[q].step + 1]
    BY <1>4 DEF Commit
  <2> QED
    BY <2>1, <2>2, <2>3, <2>4 DEF FencedStep, TypeOK
<1>5. CASE \E q \in Requests : RecordRetrying(q)
  BY <1>5 DEF RecordRetrying, FencedStep
<1> QED
  BY <1>1, <1>2, <1>3, <1>4, <1>5 DEF RowStep

\* Where publication leads: to the end of the job.
LEMMA PublishFlow ==
  ASSUME NEW kind, NEW from, NEW to, <<from, to>> \in Flow(kind)
  PROVE  /\ from \in PublishStages => to = "complete"
         /\ from # "complete"
BY DEF Flow, GraphFlow, RetrievalFlow, PublishStages

\* How a request comes to be in hand: it was, or it has just read its row.
InHandStep(q) ==
  InHand(q)' =>
    \/ /\ InHand(q)
       /\ request'[q].job = request[q].job
       /\ request'[q].step = request[q].step
       /\ request'[q].from = request[q].from
       /\ request'[q].pc = "commit" =>
            \/ request[q].pc = "commit" /\ request'[q].to = request[q].to
            \/ <<request[q].from, request'[q].to>> \in Flow(spec[request[q].job].kind)
    \/ /\ request[q].pc = "sent"
       /\ request'[q].pc = "advance"
       /\ request'[q].job = request[q].job
       /\ request'[q].step = request[q].step
       /\ request[q].step = step[request[q].job]
       /\ request'[q].from = stage[request[q].job]
       /\ UNCHANGED <<spec, stage, step>>

\* A request takes a job in hand by reading its row, and keeps what it has read.
LEMMA InHandNext ==
  ASSUME TypeOK, Linked, Next, NEW q \in Requests
  PROVE  InHandStep(q)
<1>0. ASSUME request'[q] = request[q]  PROVE InHandStep(q)
  BY <1>0 DEF InHandStep, InHand
<1>1. CASE UserNext
  BY <1>0, <1>1 DEF UserNext, Create, Dispatch, Resume, StartRun, Cancel
<1>2. CASE RunNext
  <2> SUFFICES ASSUME NEW r \in Runs,
                      \/ \E p \in Requests : Call(r, p)
                      \/ Abandon(r)
                      \/ MarkFailed(r)
                      \/ MarkFailedUnheard(r)
                      \/ MarkFailedLost(r)
               PROVE  InHandStep(q)
    BY <1>2 DEF RunNext
  <2>1. ASSUME NEW p \in Requests, Call(r, p)  PROVE InHandStep(q)
    BY <1>0, <2>1 DEF Call, TypeOK, IdleRequest, InHandStep, InHand
  <2>2. CASE Abandon(r)
    BY <1>0, <2>2 DEF Abandon, TypeOK, RequestType, InHandStep, InHand
  <2>3. CASE MarkFailed(r) \/ MarkFailedUnheard(r) \/ MarkFailedLost(r)
    BY <1>0, <2>3 DEF MarkFailed, MarkFailedUnheard, MarkFailedLost, Fail
  <2> QED
    BY <2>1, <2>2, <2>3
<1>3. CASE RequestNext
  <2> SUFFICES ASSUME NEW p \in Requests,
                      \/ Read(p)
                      \/ ReadSuperseded(p)
                      \/ \E to \in Stages : AdvanceTo(p, to)
                      \/ AdvanceFail(p)
                      \/ AdvanceRefuse(p)
                      \/ Commit(p)
                      \/ CommitSuperseded(p)
                      \/ RecordRetrying(p)
                      \/ Lose(p)
               PROVE  InHandStep(q)
    BY <1>3 DEF RequestNext
  <2>1. CASE Read(p)
    <3>1. request[q] \in RequestType
      BY DEF TypeOK
    <3> QED
      BY <1>0, <2>1, <3>1 DEF Read, Superseded, TypeOK, RequestType, InHandStep, InHand, jobVars
  <2>2. ASSUME NEW to \in Stages, AdvanceTo(p, to)  PROVE InHandStep(q)
    BY <1>0, <2>2 DEF AdvanceTo, NextStages, TypeOK, RequestType, InHandStep, InHand
  <2>3. CASE AdvanceFail(p)
    BY <1>0, <2>3 DEF AdvanceFail, TypeOK, RequestType, InHandStep, InHand
  <2>4. CASE AdvanceRefuse(p) \/ RecordRetrying(p) \/ ReadSuperseded(p)
             \/ CommitSuperseded(p) \/ Commit(p) \/ Lose(p)
    <3>1. request' = [request EXCEPT ![p] = IdleRequest]
      BY <2>4 DEF AdvanceRefuse, RecordRetrying, ReadSuperseded, CommitSuperseded, Commit,
                  Lose, Return, Raise
    <3> QED
      BY <1>0, <3>1 DEF TypeOK, IdleRequest, InHandStep, InHand
  <2> QED
    BY <2>1, <2>2, <2>3, <2>4
<1> QED
  BY <1>1, <1>2, <1>3 DEF Next

\* A request that has read its row goes on knowing what it may have missed.
LEMMA FencedNext ==
  ASSUME TypeOK, Created, Linked, Fenced, Next
  PROVE  Fenced'
<1> SUFFICES ASSUME NEW q \in Requests, InHand(q)'
             PROVE  LET j == request'[q].job IN
                    /\ request'[q].step =< step'[j]
                    /\ request'[q].step = step'[j] => request'[q].from = stage'[j]
                    /\ request'[q].from \in PublishStages =>
                         stage'[j] \in PublishStages \cup {"complete"}
                    /\ request'[q].pc = "commit" =>
                         <<request'[q].from, request'[q].to>> \in Flow(spec'[j].kind)
  BY DEF Fenced
<1> DEFINE j == request[q].job
<1>1. request'[q].job = j /\ request[q].pc # "off" /\ request[q].step \in Nat
  BY InHandNext DEF InHandStep, InHand, TypeOK, RequestType
<1>2. j \in JobIds /\ step[j] \in Nat /\ status[j] # "absent"
  BY <1>1 DEF TypeOK, Created
<1>3. FencedStep(j)
  BY <1>2, RowSteps, StepFenceNext
<1>4. spec'[j] = spec[j]
  BY <1>2, RowsPersist DEF RowsKept
<1>5. CASE InHand(q) /\ request'[q].step = request[q].step /\ request'[q].from = request[q].from
           /\ (request'[q].pc = "commit" =>
                 \/ request[q].pc = "commit" /\ request'[q].to = request[q].to
                 \/ <<request[q].from, request'[q].to>> \in Flow(spec[request[q].job].kind))
  <2>1. /\ request[q].step =< step[j]
        /\ request[q].step = step[j] => request[q].from = stage[j]
        /\ request[q].from \in PublishStages => stage[j] \in PublishStages \cup {"complete"}
        /\ request[q].pc = "commit" => <<request[q].from, request[q].to>> \in Flow(spec[j].kind)
    BY <1>5 DEF Fenced
  <2>2. request[q].step =< step'[j] /\ (request[q].step = step'[j] => request[q].from = stage'[j])
    BY <1>1, <1>2, <1>3, <2>1 DEF FencedStep
  <2>3. stage[j] \in PublishStages \cup {"complete"} =>
          stage'[j] \in PublishStages \cup {"complete"}
    BY <1>3, PublishFlow DEF FencedStep
  <2> QED
    BY <1>1, <1>4, <1>5, <2>1, <2>2, <2>3
<1>6. CASE /\ request'[q].pc = "advance"
           /\ request'[q].step = request[q].step
           /\ request[q].step = step[j]
           /\ request'[q].from = stage[j]
           /\ UNCHANGED <<spec, stage, step>>
  BY <1>1, <1>2, <1>6
<1> QED
  BY <1>5, <1>6, InHandNext DEF InHandStep
-----------------------------------------------------------------------------
\* The invariant holds at the beginning.
LEMMA InvInit == Init => Inv
<1> SUFFICES ASSUME Init  PROVE Inv
  OBVIOUS
<1>1. TypeOK
  BY IdleTypes DEF Init, TypeOK, Statuses, Stages, IdleRequest, IdleRun
<1>2. Created /\ Linked
  BY DEF Init, Created, Linked, IdleRequest, IdleRun
<1>3. HolderUnfinished
  BY JobsAssumption DEF Init, HolderUnfinished
<1>4. Fenced
  BY DEF Init, Fenced, InHand, IdleRequest
<1> QED
  BY <1>1, <1>2, <1>3, <1>4 DEF Inv

\* Every step keeps it.
LEMMA InvNext == Inv /\ [Next]_vars => Inv'
<1>1. ASSUME Inv, Next  PROVE Inv'
  <2>1. RowsOK' /\ SlotsOK' /\ Linked'
    BY <1>1, RowsNext, SlotsNext DEF Inv
  <2>2. TypeOK'
    BY <2>1 DEF TypeOK, RowsOK, SlotsOK
  <2>3. Created'
    BY <1>1, CreatedNext DEF Inv
  <2>4. HolderUnfinished'
    BY <1>1, RowSteps, HolderNext DEF Inv
  <2>5. Fenced'
    BY <1>1, FencedNext DEF Inv
  <2> QED
    BY <2>1, <2>2, <2>3, <2>4, <2>5 DEF Inv
<1>2. ASSUME Inv, UNCHANGED vars  PROVE Inv'
  BY <1>2 DEF vars, Inv, TypeOK, Created, Linked, HolderUnfinished, Fenced, InHand
<1> QED
  BY <1>1, <1>2

\* Inv is an invariant of the specification.
THEOREM Invariance == Spec => []Inv
  BY InvInit, InvNext, PTL DEF Spec

\* Rows and slots are always well typed (the tables and handlers of app/jobs).
THEOREM TypeCorrect == Spec => []TypeOK
<1>1. Inv => TypeOK
  BY DEF Inv
<1> QED
  BY <1>1, Invariance, PTL

\* A workspace is never reserved for a job that is over or belongs to another workspace,
\* whatever failures and late requests do to the status of the job.
THEOREM ReservationOfUnfinished == Spec => []HolderUnfinished
<1>1. Inv => HolderUnfinished
  BY DEF Inv
<1> QED
  BY <1>1, Invariance, PTL

\* However many runs, retries and late requests race on a job, its checkpoint moves one
\* step at a time along the flow of its kind.
THEOREM FenceHolds == Spec => StepFence
<1> DEFINE A == \A j \in JobIds :
                  \/ step'[j] = step[j] /\ stage'[j] = stage[j]
                  \/ /\ step'[j] = step[j] + 1
                     /\ <<stage[j], stage'[j]>> \in Flow(spec[j].kind)
<1>1. ASSUME Inv, Next  PROVE A
  BY <1>1, RowSteps, StepFenceNext DEF Inv, FencedStep
<1>2. Inv /\ [Next]_vars => [A]_vars
  BY <1>1
<1> QED
  BY <1>2, Invariance, PTL DEF Spec, StepFence

-----------------------------------------------------------------------------
\* How the reservation of a workspace is given back.
LEMMA ReleasedBy ==
  ASSUME TypeOK, RowStep, NEW w \in Workspaces, lock[w] # None, lock'[w] # lock[w]
  PROVE  /\ lock'[w] = None
         /\ \/ Cancel(lock[w])
            \/ stage'[lock[w]] = "complete"
<1>1. CASE UNCHANGED jobVars
  BY <1>1 DEF jobVars
<1>2. ASSUME NEW j \in JobIds, NEW s \in JobSpecs, Create(j, s)  PROVE FALSE
  BY <1>2 DEF Create, Reservable, TypeOK, JobSpecs
<1>3. ASSUME NEW j \in JobIds, Cancel(j)
      PROVE  lock[w] = j /\ lock'[w] = None
  BY <1>3 DEF Cancel, LockWithout
<1>4. CASE \E j \in JobIds : Fail(j) /\ status[j] # "absent"
  BY <1>4 DEF Fail
<1>5. ASSUME NEW q \in Requests, Commit(q)
      PROVE  lock'[w] = None /\ stage'[lock[w]] = "complete"
  <2>1. request[q].job \in JobIds
    BY <1>5 DEF Commit, TypeOK
  <2>2. request[q].to = "complete" /\ lock' = LockWithout(request[q].job)
    BY <1>5 DEF Commit
  <2>3. lock[w] = request[q].job /\ lock'[w] = None
    BY <2>2 DEF LockWithout
  <2> QED
    BY <1>5, <2>1, <2>2, <2>3 DEF Commit, TypeOK
<1>6. CASE \E q \in Requests : RecordRetrying(q)
  BY <1>6 DEF RecordRetrying
<1> QED
  BY <1>1, <1>2, <1>3, <1>4, <1>5, <1>6 DEF RowStep

\* A cancellation that gives a reservation back meets no request of the job that is
\* publishing: what the request saw of the stage can only have moved on to the end.
THEOREM PublicationSpared == Spec => CancelSparesPublication
<1> DEFINE A == \A w \in Workspaces, q \in Requests :
                  /\ lock[w] # None
                  /\ lock'[w] # lock[w]
                  /\ stage'[lock[w]] # "complete"
                  => ~(request[q].job = lock[w] /\ Publishing(q))
<1>1. ASSUME Inv, Next  PROVE A
  <2> SUFFICES ASSUME NEW w \in Workspaces, NEW q \in Requests,
                      lock[w] # None, lock'[w] # lock[w], stage'[lock[w]] # "complete",
                      request[q].job = lock[w], Publishing(q)
               PROVE  FALSE
    OBVIOUS
  <2>1. Cancel(lock[w])
    BY <1>1, RowSteps, ReleasedBy DEF Inv
  <2>2. stage[lock[w]] \notin PublishStages
    BY <2>1 DEF Cancel, Cancellable
  <2>3. stage[lock[w]] # "complete"
    BY <1>1 DEF Inv, HolderUnfinished, TypeOK
  <2>4. stage[lock[w]] \in PublishStages \cup {"complete"}
    BY <1>1 DEF Inv, Fenced, InHand, Publishing
  <2> QED
    BY <2>2, <2>3, <2>4
<1>2. Inv /\ [Next]_vars => [A]_vars
  BY <1>1
<1> QED
  BY <1>2, Invariance, PTL DEF Spec, CancelSparesPublication
-----------------------------------------------------------------------------
(***************************************************************************)
(* The table implements WorkspaceReservation: creating a job reserves its  *)
(* workspace, completing or cancelling the holder releases it, and every   *)
(* other step, a second cancellation included, leaves both alone.          *)
(***************************************************************************)

\* The jobs that held a reservation and gave it back.
SpentJobs == {j \in JobIds : status[j] # "absent" /\ \A w \in Workspaces : lock[w] # j}

\* Taking a job out of the table of reservations is a release, or changes nothing.
LEMMA ReleaseStep ==
  ASSUME TypeOK, HolderUnfinished, NEW j \in JobIds, status[j] # "absent",
         lock' = LockWithout(j),
         \A k \in JobIds : status'[k] = "absent" <=> status[k] = "absent"
  PROVE  \/ UNCHANGED <<lock, SpentJobs>>
         \/ \E w \in Workspaces : Reservation!Release(w)
<1>1. CASE \A w \in Workspaces : lock[w] # j
  <2>1. lock' = lock
    BY <1>1 DEF LockWithout, TypeOK
  <2>2. SpentJobs' = SpentJobs
    BY <2>1 DEF SpentJobs
  <2> QED
    BY <2>1, <2>2
<1>2. ASSUME NEW w \in Workspaces, lock[w] = j
      PROVE  Reservation!Release(w)
  <2>1. \A v \in Workspaces : lock[v] = j => v = w
    BY <1>2 DEF HolderUnfinished
  <2>2. lock' = [lock EXCEPT ![w] = None]
    BY <1>2, <2>1 DEF LockWithout, TypeOK
  <2>3. SpentJobs' = SpentJobs \cup {j}
    <3>1. \A k \in JobIds : k # j =>
            ((\A v \in Workspaces : lock'[v] # k) <=> (\A v \in Workspaces : lock[v] # k))
      BY <1>2, <2>2, JobsAssumption DEF TypeOK
    <3>2. \A v \in Workspaces : lock'[v] # j
      BY JobsAssumption DEF LockWithout
    <3> QED
      BY <3>1, <3>2 DEF SpentJobs
  <2>4. lock[w] # None
    BY <1>2, JobsAssumption
  <2> QED
    BY <1>2, <2>2, <2>3, <2>4 DEF Reservation!Release, SpentJobs
<1> QED
  BY <1>1, <1>2

\* Creating a job reserves its workspace.
LEMMA ReserveStep ==
  ASSUME TypeOK, HolderUnfinished, NEW j \in JobIds, NEW s \in JobSpecs, Create(j, s)
  PROVE  Reservation!Reserve(s.workspace, j)
<1> DEFINE w == s.workspace
<1>1. w \in Workspaces /\ lock[w] = None /\ status[j] = "absent"
  BY DEF Create, Reservable, JobSpecs
<1>2. \A v \in Workspaces : lock[v] # j
  BY <1>1 DEF HolderUnfinished
<1>3. lock' = [lock EXCEPT ![w] = j]
  BY DEF Create
<1>4. SpentJobs' = SpentJobs
  <2>1. lock'[w] = j
    BY <1>1, <1>3 DEF TypeOK
  <2>2. \A k \in JobIds : k # j =>
          /\ status'[k] = status[k]
          /\ (\A v \in Workspaces : lock'[v] # k) <=> (\A v \in Workspaces : lock[v] # k)
    BY <1>1, <1>3, JobsAssumption DEF Create, TypeOK
  <2> QED
    BY <1>1, <2>1, <2>2 DEF SpentJobs
<1>5. j \notin SpentJobs
  BY <1>1 DEF SpentJobs
<1> QED
  BY <1>1, <1>2, <1>3, <1>4, <1>5 DEF Reservation!Reserve, SpentJobs

\* A workspace is reserved for one job at a time, and a job holds a reservation once,
\* for any number of workspaces, jobs, runs and requests.
THEOREM ReservationImplemented == Spec => ReservationHeldOnce
<1>1. Init => Reservation!Init
  BY DEF Init, Reservation!Init
<1>2. ASSUME Inv, Next  PROVE Reservation!Next \/ UNCHANGED Reservation!vars
  <2> DEFINE Goal == Reservation!Next \/ UNCHANGED Reservation!vars
  <2>0. UNCHANGED <<lock, SpentJobs>> => UNCHANGED Reservation!vars
    BY DEF Reservation!vars, SpentJobs
  <2>1. CASE UNCHANGED jobVars
    BY <2>0, <2>1 DEF jobVars, SpentJobs
  <2>2. ASSUME NEW j \in JobIds, NEW s \in JobSpecs, Create(j, s)  PROVE Goal
    BY <1>2, <2>2, ReserveStep DEF Reservation!Next, Inv, JobSpecs
  <2>3. ASSUME NEW j \in JobIds, Cancel(j)  PROVE Goal
    <3>1. /\ status[j] # "absent" /\ lock' = LockWithout(j)
          /\ \A k \in JobIds : status'[k] = "absent" <=> status[k] = "absent"
      BY <1>2, <2>3 DEF Cancel, Cancellable, Inv, TypeOK
    <3> QED
      BY <1>2, <2>0, <3>1, ReleaseStep DEF Reservation!Next, Inv
  <2>4. ASSUME NEW j \in JobIds, Fail(j), status[j] # "absent"  PROVE Goal
    <3>1. /\ lock' = lock
          /\ \A k \in JobIds : status'[k] = "absent" <=> status[k] = "absent"
      BY <1>2, <2>4 DEF Fail, Inv, TypeOK
    <3> QED
      BY <2>0, <3>1 DEF SpentJobs
  <2>5. ASSUME NEW q \in Requests, Commit(q)  PROVE Goal
    <3> DEFINE j == request[q].job
    <3>1. j \in JobIds /\ status[j] # "absent"
      BY <1>2, <2>5 DEF Commit, Inv, TypeOK, Created
    <3>2. \A k \in JobIds : status'[k] = "absent" <=> status[k] = "absent"
      BY <1>2, <2>5, <3>1 DEF Commit, Inv, TypeOK
    <3>3. CASE request[q].to = "complete"
      BY <1>2, <2>0, <2>5, <3>1, <3>2, <3>3, ReleaseStep DEF Commit, Reservation!Next, Inv
    <3>4. CASE request[q].to # "complete"
      BY <2>0, <2>5, <3>2, <3>4 DEF Commit, SpentJobs
    <3> QED
      BY <3>3, <3>4
  <2>6. ASSUME NEW q \in Requests, RecordRetrying(q)  PROVE Goal
    <3>1. request[q].job \in JobIds /\ status[request[q].job] # "absent"
      BY <1>2, <2>6 DEF RecordRetrying, Inv, TypeOK, Created
    <3>2. /\ lock' = lock
          /\ \A k \in JobIds : status'[k] = "absent" <=> status[k] = "absent"
      BY <1>2, <2>6, <3>1 DEF RecordRetrying, Inv, TypeOK
    <3> QED
      BY <2>0, <3>2 DEF SpentJobs
  <2> QED
    BY <1>2, RowSteps, <2>1, <2>2, <2>3, <2>4, <2>5, <2>6 DEF RowStep, Inv
<1>3. ASSUME UNCHANGED vars  PROVE UNCHANGED Reservation!vars
  BY <1>3 DEF vars, Reservation!vars
<1>4. Inv /\ [Next]_vars => [Reservation!Next]_(Reservation!vars)
  BY <1>2, <1>3
<1> QED
  BY <1>1, <1>4, Invariance, PTL DEF Spec, ReservationHeldOnce, Reservation!Spec

=============================================================================
