------------------------------- MODULE RateLimit -------------------------------
(***************************************************************************)
(* One counter of requests per window of time: core/rate_limit.py and the  *)
(* throttle of app/auth/service.py, which are alike.                       *)
(*                                                                         *)
(* A request reads the clock once for its window and again when it prunes. *)
(* Its transaction inserts the row of the window in a savepoint, adds to   *)
(* the count, and deletes the rows of past windows.  If the row was there, *)
(* nothing holds it until the addition; if not, nobody sees it before the  *)
(* transaction ends, so that the whole transaction is one step.            *)
(***************************************************************************)
EXTENDS Naturals, FiniteSets

CONSTANTS
  Limits,     \* slots of requests in progress (bound)
  Width,      \* window_seconds
  Limit,      \* requests of a caller a window admits
  MaxTime,    \* bound on time
  MaxCount    \* bound on the requests counted in a window

ASSUME LimitAssumption ==
  /\ Width \in Nat \ {0}
  /\ Limit \in Nat
  /\ MaxTime \in Nat
  /\ MaxCount \in Nat

VARIABLES
  backend,   \* "postgresql", or "memory" of one process
  now,       \* the clock
  count,     \* the counters by window, 0 where there is no row
  lcall,     \* requests in progress
  admitted   \* requests admitted by windows, those alone that were counted before the row expired

limitVars == <<backend, now, count, lcall, admitted>>
-----------------------------------------------------------------------------
Windows == 0 .. MaxTime
LimitCall == [state : {"none", "asked", "found", "gone"}, window : Windows]

\* Types of the counters and the calls.
LimitTypeOK ==
  /\ backend \in {"postgresql", "memory"}
  /\ now \in 0 .. MaxTime
  /\ count \in [Windows -> Nat]
  /\ lcall \in [Limits -> LimitCall]
  /\ admitted \in [Windows -> Nat]

NoLimitCall == [state |-> "none", window |-> 0]

LimitInit ==
  /\ backend \in {"postgresql", "memory"}
  /\ now = 0
  /\ count = [w \in Windows |-> 0]
  /\ lcall = [c \in Limits |-> NoLimitCall]
  /\ admitted = [w \in Windows |-> 0]

Expiry(w) == (w + 1) * Width

WindowOf(t) == t \div Width

\* Mutant: the row of the window that ends just now goes as well.
ExpiredEarly(w) == Expiry(w) <= now

\* The rows a transaction deletes, and the entries the dictionary drops.
Expired(w) == IF backend = "memory" THEN Expiry(w) <= now ELSE Expiry(w) < now

WithinLimit(n) == n <= Limit

\* The request is counted in window w, the past windows are pruned, and it is admitted or not.
CountIn(w) ==
  LET n == count[w] + 1 IN
  /\ n <= MaxCount
  /\ count' = [v \in Windows |-> IF Expired(v) THEN 0 ELSE IF v = w THEN n ELSE count[v]]
  /\ admitted' = IF WithinLimit(n) /\ now <= Expiry(w)
                 THEN [admitted EXCEPT ![w] = @ + 1] ELSE admitted

Finish(c) == lcall' = [lcall EXCEPT ![c] = NoLimitCall]
-----------------------------------------------------------------------------
Tick ==
  /\ now < MaxTime
  /\ now' = now + 1
  /\ UNCHANGED <<backend, count, lcall, admitted>>

\* _check_memory: no other task runs in between.
CheckMemory ==
  /\ backend = "memory"
  /\ CountIn(WindowOf(now))
  /\ UNCHANGED <<backend, now, lcall>>

\* _check_engine: the window of the request is that of the clock as it begins.
AskLimit(c) ==
  /\ backend = "postgresql"
  /\ lcall[c].state = "none"
  /\ lcall' = [lcall EXCEPT ![c] = [state |-> "asked", window |-> WindowOf(now)]]
  /\ UNCHANGED <<backend, now, count, admitted>>

\* There is no row: it is inserted, counted and pruned in one transaction.
CountFirst(c) ==
  /\ lcall[c].state = "asked"
  /\ count[lcall[c].window] = 0
  /\ CountIn(lcall[c].window)
  /\ Finish(c)
  /\ UNCHANGED <<backend, now>>

\* The savepoint is undone, as the row is there ...
FindRow(c) ==
  /\ lcall[c].state = "asked"
  /\ count[lcall[c].window] > 0
  /\ lcall' = [lcall EXCEPT ![c].state = "found"]
  /\ UNCHANGED <<backend, now, count, admitted>>

\* ... and it is counted there,
CountNext(c) ==
  /\ lcall[c].state = "found"
  /\ count[lcall[c].window] > 0
  /\ CountIn(lcall[c].window)
  /\ Finish(c)
  /\ UNCHANGED <<backend, now>>

\* or another request has pruned it, and the statement returns no row: the request fails.
CountGone(c) ==
  /\ lcall[c].state = "found"
  /\ count[lcall[c].window] = 0
  /\ lcall' = [lcall EXCEPT ![c].state = "gone"]
  /\ UNCHANGED <<backend, now, count, admitted>>

LimitNext ==
  \/ Tick
  \/ CheckMemory
  \/ \E c \in Limits : AskLimit(c) \/ CountFirst(c) \/ FindRow(c) \/ CountNext(c) \/ CountGone(c)

LimitSpec == LimitInit /\ [][LimitNext]_limitVars
-----------------------------------------------------------------------------
(* Properties *)

\* A window admits no more than the limit, counting the requests that reached its row before it
\* expired; one that is so slow that the row was pruned may be admitted beyond it.
WindowHolds == \A w \in Windows : admitted[w] <= Limit
=============================================================================
