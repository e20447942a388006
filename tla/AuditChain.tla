------------------------------ MODULE AuditChain ------------------------------
(***************************************************************************)
(* The audit log of one organization: appends that take the next sequence  *)
(* number and the hash of the newest event, the retention pass that        *)
(* deletes the oldest events, and the verification of what is left.        *)
(*                                                                         *)
(* Each statement sees the rows that were committed when it began, as      *)
(* PostgreSQL's READ COMMITTED has it.  SELECT ... FOR UPDATE waits for    *)
(* the newest row of its snapshot, passes over rows that were deleted in   *)
(* the meantime, and does not see the rows that were inserted.             *)
(*                                                                         *)
(* The hash of an event is its number in the history of all events ever    *)
(* recorded: different events have different hashes.  Rows are not         *)
(* altered, so that recomputing their hashes always succeeds.              *)
(***************************************************************************)
EXTENDS Naturals, Sequences, FiniteSets

CONSTANTS
  Appends,      \* slots of appends in progress (bound)
  Purges,       \* slots of retention passes in progress (bound)
  Days,         \* the retention windows an administrator may set, in ticks
  Floor,        \* AUDIT_RETENTION_FLOOR_DAYS, in ticks
  MaxAttempts,  \* attempts of an append (4)
  MaxEvents,    \* bound on the events recorded
  MaxClock      \* bound on time

ASSUME AuditAssumption ==
  /\ Days \subseteq Nat \ {0}
  /\ Floor \in Nat
  /\ MaxAttempts \in Nat \ {0}
  /\ MaxEvents \in Nat
  /\ MaxClock \in Nat

VARIABLES
  chain,    \* rag_audit_events
  clock,
  append,   \* appends in progress
  purge,    \* retention passes in progress
  \* History variables, which guide no action but for hashes and the bound on events:
  history,  \* every event ever recorded, in the order they were
  emptied,  \* a retention pass has deleted every event there was
  stranded  \* one deleted all that an append had seen, and not the events after those

vars == <<chain, clock, append, purge, history, emptied, stranded>>
marks == <<emptied, stranded>>
-----------------------------------------------------------------------------
Events == [sequence : Nat, prev : Nat, hash : Nat, at : Nat]

\* What stands before the first event: no row, and GENESIS_HASH.
Genesis == [sequence |-> 0, prev |-> 0, hash |-> 0, at |-> 0]

IdleAppend == [pc |-> "off", at |-> 0, attempt |-> 0, view |-> {}, last |-> Genesis, since |-> 0]
IdlePurge == [pc |-> "off", moment |-> 0, cutoff |-> 0, boundary |-> 0]

AppendType ==
  [pc : {"off", "select", "lock", "insert", "dropped"}, at : Nat, attempt : 0 .. MaxAttempts,
   view : SUBSET Events, last : Events, since : Nat]
PurgeType == [pc : {"off", "read", "delete"}, moment : Nat, cutoff : Nat, boundary : Nat]

\* Types of the rows and the slots; sequence numbers are unique.
TypeOK ==
  /\ chain \in SUBSET Events
  /\ history \in Seq(Events)
  /\ emptied \in BOOLEAN
  /\ stranded \in BOOLEAN
  /\ clock \in Nat
  /\ append \in [Appends -> AppendType]
  /\ purge \in [Purges -> PurgeType]
  /\ \A e, f \in chain : e.sequence = f.sequence => e = f

Init ==
  /\ chain = {}
  /\ history = <<>>
  /\ clock = 0
  /\ append = [a \in Appends |-> IdleAppend]
  /\ purge = [p \in Purges |-> IdlePurge]
  /\ emptied = FALSE
  /\ stranded = FALSE

Newest(events) ==
  IF events = {} THEN Genesis
  ELSE CHOOSE e \in events : \A f \in events : f.sequence <= e.sequence

Locked(e) == \E a \in Appends : append[a].pc = "insert" /\ append[a].last = e
-----------------------------------------------------------------------------
(* append: up to MaxAttempts transactions, one time stamp *)

Start(a) ==
  /\ append[a].pc = "off"
  /\ append' = [append EXCEPT ![a] =
       [IdleAppend EXCEPT !.pc = "select", !.at = clock, !.since = Len(history)]]
  /\ UNCHANGED <<chain, history, clock, purge, marks>>

\* The select statement of an attempt begins.
Select(a) ==
  /\ append[a].pc = "select"
  /\ append' = [append EXCEPT ![a].pc = "lock", ![a].view = chain]
  /\ UNCHANGED <<chain, history, clock, purge, marks>>

\* It gets the newest row of its snapshot that still exists, or none.
Lock(a) ==
  LET e == Newest(append[a].view \cap chain) IN
  /\ append[a].pc = "lock"
  /\ e # Genesis => ~Locked(e)
  /\ append' = [append EXCEPT ![a].pc = "insert", ![a].last = e, ![a].view = {}]
  /\ UNCHANGED <<chain, history, clock, purge, marks>>

\* Mutant: nothing keeps a sequence number from being used twice.
NeverTaken(n) == FALSE

\* UniqueConstraint("org_id", "sequence")
Taken(n) == \E e \in chain : e.sequence = n

Insert(a) ==
  LET e == [sequence |-> append[a].last.sequence + 1, prev |-> append[a].last.hash,
            hash |-> Len(history) + 1, at |-> append[a].at] IN
  /\ append[a].pc = "insert"
  /\ ~Taken(e.sequence)
  /\ Len(history) < MaxEvents
  /\ chain' = chain \cup {e}
  /\ history' = Append(history, e)
  /\ append' = [append EXCEPT ![a] = IdleAppend]
  /\ UNCHANGED <<clock, purge, marks>>

\* Mutants: one attempt too few; a loop that does not count.
LastOneEarly(a) == append[a].attempt + 2 >= MaxAttempts
LastNever(a) == FALSE

LastAttempt(a) == append[a].attempt + 1 = MaxAttempts

\* Another append took the number: the transaction is rolled back and tried again.
Conflict(a) ==
  /\ append[a].pc = "insert"
  /\ Taken(append[a].last.sequence + 1)
  /\ append' = [append EXCEPT
       ![a].pc = IF LastAttempt(a) THEN "dropped" ELSE "select",
       ![a].attempt = @ + 1,
       ![a].last = Genesis]
  /\ UNCHANGED <<chain, history, clock, purge, marks>>

\* record() logs that the event is lost; or the instance, or the database, fails.
GiveUp(a) ==
  /\ append[a].pc # "off"
  /\ append' = [append EXCEPT ![a] = IdleAppend]
  /\ UNCHANGED <<chain, history, clock, purge, marks>>
-----------------------------------------------------------------------------
(* apply_retention and purge_before *)

\* Mutant: the window is applied as it was set.
EffectiveAsSet(days) == days

Effective(days) == IF days > Floor THEN days ELSE Floor

Schedule(p, days) ==
  /\ purge[p].pc = "off"
  /\ clock >= Effective(days)
  /\ purge' = [purge EXCEPT ![p] =
       [pc |-> "read", moment |-> clock, cutoff |-> clock - Effective(days), boundary |-> 0]]
  /\ UNCHANGED <<chain, history, clock, append, marks>>

\* Mutant: every event that is old enough, wherever it stands.
RemovableAnywhere(cutoff) == {e \in chain : e.at < cutoff}

\* The events before the first one that has to stay.
Removable(cutoff) ==
  {e \in chain : \A f \in chain : f.sequence <= e.sequence => f.at < cutoff}

PurgeRead(p) ==
  /\ purge[p].pc = "read"
  /\ \E e \in Removable(purge[p].cutoff) :
       /\ \A f \in Removable(purge[p].cutoff) : f.sequence <= e.sequence
       /\ purge' = [purge EXCEPT ![p].pc = "delete", ![p].boundary = e.sequence]
  /\ UNCHANGED <<chain, history, clock, append, marks>>

\* An append whose insert will start the numbers again, unless number 1 is taken.
Restarts(a, rows) ==
  \/ append[a].pc = "lock" /\ append[a].view \cap rows = {}
  \/ append[a].pc = "insert" /\ append[a].last = Genesis

\* Mutant: the rows that are old enough, whatever their number.
VictimsByAge(p) == {e \in chain : e.at < purge[p].cutoff}

Victims(p) == {e \in chain : e.sequence <= purge[p].boundary}

\* The rows up to the boundary, once nobody holds a lock on one.
PurgeDelete(p) ==
  LET victims == Victims(p) IN
  /\ purge[p].pc = "delete"
  /\ \A e \in victims : ~Locked(e)
  /\ chain' = chain \ victims
  /\ purge' = [purge EXCEPT ![p] = IdlePurge]
  /\ emptied' = (emptied \/ (victims # {} /\ victims = chain))
  /\ stranded' =
       (stranded \/ (victims # chain /\ \E a \in Appends : Restarts(a, chain \ victims)))
  /\ UNCHANGED <<history, clock, append>>

\* There is nothing to remove, or only to be counted, or the pass fails.
PurgeStops(p) ==
  /\ purge[p].pc # "off"
  /\ purge' = [purge EXCEPT ![p] = IdlePurge]
  /\ UNCHANGED <<chain, history, clock, append, marks>>
-----------------------------------------------------------------------------
\* Time passes, also over an organization that records nothing.  An append or a retention
\* pass, of a few statements, is over before a second tick, of many days.
Tick ==
  /\ clock < MaxClock
  /\ \A a \in Appends : append[a].pc # "off" => append[a].at = clock
  /\ \A p \in Purges : purge[p].pc # "off" => purge[p].moment = clock
  /\ clock' = clock + 1
  /\ UNCHANGED <<chain, history, append, purge, marks>>

Next ==
  \/ \E a \in Appends :
       Start(a) \/ Select(a) \/ Lock(a) \/ Insert(a) \/ Conflict(a) \/ GiveUp(a)
  \/ \E p \in Purges :
       (\E days \in Days : Schedule(p, days)) \/ PurgeRead(p) \/ PurgeDelete(p) \/ PurgeStops(p)
  \/ Tick

Spec == Init /\ [][Next]_vars
-----------------------------------------------------------------------------
(* Properties *)

\* verify_chain: in the order of their numbers, the first event is number 1 or an anchor,
\* and every other one follows the event before it, in number and in hash.
Verified(events) ==
  \A e \in events :
    /\ \A f \in events : e.sequence = f.sequence => e = f
    /\ \/ \A f \in events : e.sequence <= f.sequence /\ (e.sequence = 1 => e.prev = Genesis.hash)
       \/ \E f \in events : e.sequence = f.sequence + 1 /\ e.prev = f.hash

\* "retention may delete an oldest contiguous prefix ... which shows up as pruned_through
\* rather than a break": whatever appends and retention passes race, what they leave in the
\* table verifies, short of one case in which it does not: a pass that deletes all that an
\* append in progress has seen, and leaves events recorded since.
ChainVerifies == ~stranded => Verified(chain)

\* "so the hash chain stays continuous": the events ever recorded are numbered from 1
\* without a gap or a restart, and each is linked to the one recorded before it.
Continuous ==
  \A i \in 1 .. Len(history) : history[i].sequence = i /\ history[i].prev = i - 1

\* It does not: a retention pass that deletes every event there is, as of an organization
\* that was quiet for long, or all that an append has seen, starts the numbers again.
\* Nothing else does, no order of appends, conflicts, failures and other passes.
ContinuousUnlessEmptied == ~emptied /\ ~stranded => Continuous

\* "Audit history is retained at least this long regardless of a shorter retention
\* policy": no event is deleted before it is older than the floor, also when it was
\* recorded out of the order of the time stamps; until the numbers start again, when a
\* number that a pass has read may be that of a later event.
PurgeSparesRecent ==
  [][~emptied /\ ~stranded => \A e \in chain \ chain' : e.at + Floor < clock]_vars

\* An append is given up for contention only if as many events were recorded meanwhile
\* as it made attempts.
DroppedOutrun ==
  \A a \in Appends :
    append[a].pc = "dropped" => append[a].since + MaxAttempts <= Len(history)
-----------------------------------------------------------------------------
(* The inductive invariant *)

\* A set of rows is empty or has a newest.
HasNewest(rows) ==
  rows # {} => \E e \in rows : \A f \in rows : f.sequence <= e.sequence

\* The hash of a row tells which event it is, and the first number is 1.
Rows ==
  /\ \A e \in chain : e.hash \in 1 .. Len(history) /\ e = history[e.hash] /\ e.sequence >= 1
  /\ \A i \in 1 .. Len(history) : history[i].hash = i
  /\ HasNewest(chain)

\* What an append knows: the row it has locked is not deleted, and each attempt that
\* fails stands for an event recorded since it began.
AppendSees(a) ==
  LET w == append[a] IN
  /\ w.pc \in {"select", "lock", "insert"} =>
       w.attempt < MaxAttempts /\ w.since + w.attempt <= Len(history)
  /\ HasNewest(w.view \cap chain)
  /\ \A e \in w.view : e.hash <= Len(history)
  /\ w.pc = "lock" => \A e \in chain \ w.view : e.hash > w.since + w.attempt
  /\ w.pc = "insert" =>
       /\ w.last = Genesis \/ w.last \in chain
       /\ \A e \in chain : e.sequence = w.last.sequence + 1 => e.hash > w.since + w.attempt
  /\ w.pc = "dropped" => w.since + MaxAttempts <= Len(history)

\* The rows are an interval of numbers, each linked to the one before it.
Linked ==
  /\ \A e, f \in chain : \A n \in e.sequence .. f.sequence : Taken(n)
  /\ \A e, f \in chain : e.sequence = f.sequence + 1 => e.prev = f.hash
  /\ \A e \in chain : e.sequence = 1 => e.prev = Genesis.hash

\* An append that would start the numbers again finds the table empty, or number 1 taken.
FindsFirst(a) == Restarts(a, chain) => chain = {} \/ Taken(1)

\* The rows are the newest part of the history, and not none of it.
Suffix ==
  /\ Continuous
  /\ Len(history) > 0 => history[Len(history)] \in chain

\* A retention pass removes what is old only.
PurgeOld(p) ==
  LET w == purge[p] IN
  w.pc = "delete" =>
    w.boundary <= Len(history) /\ \A e \in chain : e.sequence <= w.boundary => e.at < w.cutoff

Inv ==
  /\ TypeOK
  /\ Rows
  /\ \A a \in Appends : AppendSees(a)
  /\ \A p \in Purges : purge[p].pc # "off" => purge[p].cutoff + Floor <= clock
  /\ ~stranded => Linked /\ \A a \in Appends : FindsFirst(a)
  /\ ~emptied /\ ~stranded => Suffix /\ \A p \in Purges : PurgeOld(p)
=============================================================================
