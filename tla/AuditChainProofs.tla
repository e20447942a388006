--------------------------- MODULE AuditChainProofs ---------------------------
(* Theorems about AuditChain, for any number of appends and retention passes, any windows *)
(* and any time; none of them depends on how time passes. *)
EXTENDS AuditChain, TLAPS

\* What the arithmetic of the proof needs of the constants.
LEMMA Constants == MaxAttempts \in Nat \ {0} /\ Floor \in Nat
BY AuditAssumption

\* Among rows of the table, the newest is one that is chosen, if there is one.
LEMMA NewestOf ==
  ASSUME NEW events, events # {}, HasNewest(events)
  PROVE  Newest(events) \in events /\ \A f \in events : f.sequence <= Newest(events).sequence
BY DEF HasNewest, Newest

\* Rows from which those up to a number are taken away still have a newest, if any is left.
LEMMA PrefixGone ==
  ASSUME NEW rows, \A f \in rows : f.sequence \in Nat, HasNewest(rows), NEW b \in Nat
  PROVE  HasNewest({f \in rows : ~(f.sequence <= b)})
<1> SUFFICES ASSUME NEW g \in rows, ~(g.sequence <= b)
             PROVE  \E e \in rows : /\ ~(e.sequence <= b)
                                    /\ \A f \in rows : f.sequence <= e.sequence
  BY DEF HasNewest
<1>1. PICK e \in rows : \A f \in rows : f.sequence <= e.sequence
  BY DEF HasNewest
<1>2. ~(e.sequence <= b)
  BY <1>1
<1> QED
  BY <1>1, <1>2

\* What a slot that is not in use holds is well typed.
LEMMA IdleType == Genesis \in Events /\ IdleAppend \in AppendType /\ IdlePurge \in PurgeType
<1>1. Genesis \in Events /\ 0 \in 0 .. MaxAttempts
  BY Constants DEF Genesis, Events
<1> QED
  BY <1>1 DEF IdleAppend, IdlePurge, AppendType, PurgeType

-----------------------------------------------------------------------------
(* The table verifies *)

\* An interval of numbers that is linked is in order.
LEMMA LinkedVerifies ==
  ASSUME TypeOK, Linked
  PROVE  Verified(chain)
<1> SUFFICES ASSUME NEW e \in chain
             PROVE  \/ \A f \in chain : e.sequence <= f.sequence
                                        /\ (e.sequence = 1 => e.prev = Genesis.hash)
                    \/ \E f \in chain : e.sequence = f.sequence + 1 /\ e.prev = f.hash
  BY DEF Verified, TypeOK
<1>1. \A f \in chain : f.sequence \in Nat
  BY DEF TypeOK, Events
<1>2. CASE \A f \in chain : e.sequence <= f.sequence
  BY <1>2 DEF Linked
<1>3. CASE \E f \in chain : ~(e.sequence <= f.sequence)
  <2>1. PICK f \in chain : ~(e.sequence <= f.sequence)
    BY <1>3
  <2>2. e.sequence - 1 \in f.sequence .. e.sequence
    BY <1>1, <2>1
  <2>3. PICK g \in chain : g.sequence = e.sequence - 1
    BY <2>2 DEF Linked, Taken
  <2>4. e.sequence = g.sequence + 1
    BY <1>1, <2>3
  <2> QED
    BY <2>4 DEF Linked
<1> QED
  BY <1>2, <1>3

-----------------------------------------------------------------------------
(* Inv holds at the beginning *)

\* An organization without events has no appends or retention passes in progress.
LEMMA InitInv == Init => Inv
<1> SUFFICES ASSUME Init
             PROVE  Inv
  OBVIOUS
<1>1. TypeOK
  <2>1. history \in Seq(Events)
    BY DEF Init
  <2>2. append \in [Appends -> AppendType] /\ purge \in [Purges -> PurgeType]
    BY IdleType DEF Init
  <2> QED
    BY <2>1, <2>2 DEF Init, TypeOK
<1>2. Len(history) = 0 /\ chain = {}
  BY DEF Init
<1>3. Rows /\ Linked /\ Suffix
  BY <1>2 DEF Rows, HasNewest, Linked, Suffix, Continuous
<1>4. ASSUME NEW a \in Appends PROVE AppendSees(a) /\ FindsFirst(a)
  BY <1>2 DEF Init, AppendSees, IdleAppend, HasNewest, FindsFirst
<1>5. ASSUME NEW p \in Purges PROVE purge[p].pc = "off" /\ PurgeOld(p)
  BY DEF Init, PurgeOld, IdlePurge
<1> QED
  BY <1>1, <1>3, <1>4, <1>5 DEF Inv

-----------------------------------------------------------------------------
(* The steps of an append *)

\* A step that changes one append only has to keep what holds of that append.
LEMMA OneAppend ==
  ASSUME Inv, NEW a \in Appends, NEW w \in AppendType,
         append' = [append EXCEPT ![a] = w],
         UNCHANGED <<chain, history, clock, purge, marks>>,
         AppendSees(a)', ~stranded => FindsFirst(a)'
  PROVE  Inv'
<1>1. TypeOK'
  BY DEF Inv, TypeOK, marks
<1>2. Rows'
  BY DEF Inv, Rows, HasNewest
<1>3. ASSUME NEW b \in Appends, b # a
      PROVE  AppendSees(b)' /\ (~stranded => FindsFirst(b)')
  <2>1. append'[b] = append[b]
    BY <1>3 DEF Inv, TypeOK
  <2> QED
    BY <2>1 DEF Inv, AppendSees, HasNewest, FindsFirst, Restarts, Taken
<1>4. ~stranded => Linked'
  BY DEF Inv, Linked, Taken
<1>5. \A p \in Purges : purge'[p].pc # "off" => purge'[p].cutoff + Floor <= clock'
  BY DEF Inv
<1>6. ~emptied /\ ~stranded => Suffix' /\ \A p \in Purges : PurgeOld(p)'
  BY DEF Inv, Suffix, Continuous, PurgeOld
<1>7. emptied' = emptied /\ stranded' = stranded
  BY DEF marks
<1> QED
  BY <1>1, <1>2, <1>3, <1>4, <1>5, <1>6, <1>7 DEF Inv

\* The slot of an append that is over holds nothing.
LEMMA IdleSees ==
  ASSUME NEW a \in Appends, append'[a] = IdleAppend
  PROVE  AppendSees(a)' /\ FindsFirst(a)'
BY DEF AppendSees, IdleAppend, HasNewest, FindsFirst, Restarts

\* An append stamps the time once and begins its first attempt.
LEMMA StartInv ==
  ASSUME Inv, NEW a \in Appends, Start(a)
  PROVE  Inv'
<1> DEFINE w == [IdleAppend EXCEPT !.pc = "select", !.at = clock, !.since = Len(history)]
<1>1. clock \in Nat /\ Len(history) \in Nat
  BY DEF Inv, TypeOK
<1>2. w \in AppendType
  BY <1>1, IdleType DEF IdleAppend, AppendType
<1>3. append'[a] = w /\ UNCHANGED <<chain, history, clock, purge, marks>>
  BY DEF Start, Inv, TypeOK
<1>4. w.pc = "select" /\ w.attempt = 0 /\ w.since = Len(history) /\ w.view = {}
  BY DEF IdleAppend
<1>5. AppendSees(a)' /\ FindsFirst(a)'
  BY <1>1, <1>3, <1>4, Constants DEF AppendSees, HasNewest, FindsFirst, Restarts
<1> QED
  BY <1>2, <1>5, OneAppend DEF Start

\* An append that is given up leaves nothing behind.
LEMMA GiveUpInv ==
  ASSUME Inv, NEW a \in Appends, GiveUp(a)
  PROVE  Inv'
<1>1. append'[a] = IdleAppend
  BY DEF GiveUp, Inv, TypeOK
<1> QED
  BY <1>1, IdleSees, IdleType, OneAppend DEF GiveUp

\* The statement sees every row there is.
LEMMA SelectInv ==
  ASSUME Inv, NEW a \in Appends, Select(a)
  PROVE  Inv'
<1> DEFINE w == [append[a] EXCEPT !.pc = "lock", !.view = chain]
<1>1. TypeOK /\ Rows /\ AppendSees(a) /\ append[a] \in AppendType /\ append[a].pc = "select"
  BY DEF Inv, TypeOK, Select
<1>2. w \in AppendType
  BY <1>1 DEF TypeOK, AppendType
<1>3. append' = [append EXCEPT ![a] = w] /\ UNCHANGED <<chain, history, clock, purge, marks>>
  BY DEF Select
<1>4. append'[a] = w
  BY <1>1, <1>3 DEF TypeOK
<1>5. /\ w.pc = "lock" /\ w.view = chain
      /\ w.since = append[a].since /\ w.attempt = append[a].attempt
  BY <1>1 DEF AppendType
<1>6. append[a].attempt < MaxAttempts /\ append[a].since + append[a].attempt <= Len(history)
  BY <1>1 DEF AppendSees
<1>7. HasNewest(chain) /\ \A e \in chain : e.hash <= Len(history)
  BY <1>1 DEF Rows, TypeOK
<1> HIDE DEF w
<1>8. w.view \cap chain = chain /\ chain \ w.view = {}
  BY <1>5
<1>9. AppendSees(a)'
  BY <1>3, <1>4, <1>5, <1>6, <1>7, <1>8 DEF AppendSees, HasNewest
<1>10. FindsFirst(a)'
  BY <1>3, <1>4, <1>5, <1>8 DEF FindsFirst, Restarts
<1> QED
  BY <1>2, <1>3, <1>9, <1>10, OneAppend

\* The row that is locked is the newest that the statement has seen: a row with the next
\* number was not seen, and was recorded after the append began.
LEMMA LockInv ==
  ASSUME Inv, NEW a \in Appends, Lock(a)
  PROVE  Inv'
<1> DEFINE rows == append[a].view \cap chain
           n == Newest(rows)
           w == [append[a] EXCEPT !.pc = "insert", !.last = n, !.view = {}]
<1>1. TypeOK /\ AppendSees(a) /\ append[a] \in AppendType /\ append[a].pc = "lock"
  BY DEF Inv, TypeOK, Lock
<1>2. UNCHANGED <<chain, history, clock, purge, marks>> /\ append' = [append EXCEPT ![a] = w]
  BY DEF Lock
<1>3. rows = {} => n = Genesis
  BY DEF Newest
<1>4. rows # {} => n \in rows /\ \A f \in rows : f.sequence <= n.sequence
  BY <1>1, NewestOf DEF AppendSees
<1>5. n \in Events
  BY <1>1, <1>3, <1>4, IdleType DEF TypeOK
<1>6. w \in AppendType
  BY <1>1, <1>5 DEF AppendType
<1>7. append'[a] = w
  BY <1>1, <1>2 DEF TypeOK
<1>8. /\ w.pc = "insert" /\ w.last = n /\ w.view = {}
      /\ w.since = append[a].since /\ w.attempt = append[a].attempt
  BY <1>1 DEF AppendType
<1>9. /\ append[a].attempt < MaxAttempts
      /\ append[a].since + append[a].attempt <= Len(history)
      /\ \A e \in chain \ append[a].view : e.hash > append[a].since + append[a].attempt
  BY <1>1 DEF AppendSees
<1>10. \A e \in chain : e.sequence \in Nat
  BY <1>1 DEF TypeOK, Events
<1>11. ASSUME NEW e \in chain, e.sequence = n.sequence + 1
       PROVE  e.hash > append[a].since + append[a].attempt
  <2>1. e \notin rows
    <3>1. SUFFICES ASSUME e \in rows PROVE FALSE
      OBVIOUS
    <3>2. n \in rows /\ e.sequence <= n.sequence
      BY <1>4, <3>1
    <3>3. n.sequence \in Nat
      BY <1>5 DEF Events
    <3> HIDE DEF n, rows
    <3> QED
      BY <1>11, <3>2, <3>3
  <2> QED
    BY <1>9, <2>1
<1>12. n = Genesis \/ n \in chain
  BY <1>3, <1>4
<1>13. ~stranded => FindsFirst(a)'
  <2>1. SUFFICES ASSUME ~stranded, n = Genesis
                 PROVE  chain = {} \/ Taken(1)
    BY <1>2, <1>7, <1>8 DEF FindsFirst, Restarts, Taken
  <2>2. CASE rows = {}
    BY <1>1, <2>1, <2>2 DEF Inv, FindsFirst, Restarts
  <2>3. CASE rows # {}
    <3>1. n \in chain /\ n.sequence >= 1
      BY <1>4, <2>3 DEF Inv, Rows
    <3> QED
      BY <2>1, <3>1 DEF Genesis
  <2> QED
    BY <2>2, <2>3
<1> HIDE DEF w, n, rows
<1>14. AppendSees(a)'
  BY <1>2, <1>7, <1>8, <1>9, <1>11, <1>12 DEF AppendSees, HasNewest
<1> QED
  BY <1>2, <1>6, <1>13, <1>14, OneAppend

\* An append whose number was taken has been overtaken by an event.
LEMMA ConflictInv ==
  ASSUME Inv, NEW a \in Appends, Conflict(a)
  PROVE  Inv'
<1> DEFINE pc == IF LastAttempt(a) THEN "dropped" ELSE "select"
           w == [append[a] EXCEPT !.pc = pc, !.attempt = append[a].attempt + 1, !.last = Genesis]
<1>1. /\ TypeOK /\ Rows /\ AppendSees(a)
      /\ append[a] \in AppendType /\ append[a].pc = "insert"
  BY DEF Inv, TypeOK, Conflict
<1>2. UNCHANGED <<chain, history, clock, purge, marks>> /\ append' = [append EXCEPT ![a] = w]
  BY DEF Conflict
<1>3. append[a].attempt < MaxAttempts
  BY <1>1 DEF AppendSees
<1>4. append[a].since \in Nat /\ append[a].attempt \in Nat /\ Len(history) \in Nat
  BY <1>1, Constants DEF TypeOK, AppendType
<1>5. append[a].attempt + 1 \in 0 .. MaxAttempts
  BY <1>3, <1>4, Constants
<1>6. w \in AppendType
  BY <1>1, <1>5, IdleType DEF AppendType
<1>7. append'[a] = w
  BY <1>1, <1>2 DEF TypeOK
<1>8. /\ w.pc = pc /\ w.since = append[a].since /\ w.view = append[a].view
      /\ w.attempt = append[a].attempt + 1
  BY <1>1 DEF AppendType
<1>9. append[a].since + append[a].attempt + 1 <= Len(history)
  <2>1. PICK f \in chain : f.sequence = append[a].last.sequence + 1
    BY DEF Conflict, Taken
  <2>2. f.hash > append[a].since + append[a].attempt
    BY <1>1, <2>1 DEF AppendSees
  <2>3. f.hash \in 1 .. Len(history)
    BY <1>1 DEF Rows
  <2> QED
    BY <1>4, <2>2, <2>3
<1>10. HasNewest(w.view \cap chain) /\ \A e \in w.view : e.hash <= Len(history)
  BY <1>1, <1>8 DEF AppendSees
<1> HIDE DEF w
<1>11. AppendSees(a)'
  <2>1. CASE LastAttempt(a)
    <3>1. append[a].attempt + 1 = MaxAttempts /\ w.pc = "dropped"
      BY <1>8, <2>1 DEF LastAttempt
    <3>2. w.since + MaxAttempts <= Len(history)
      BY <1>4, <1>8, <1>9, <3>1, Constants
    <3> QED
      BY <1>2, <1>7, <1>10, <3>1, <3>2 DEF AppendSees, HasNewest
  <2>2. CASE ~LastAttempt(a)
    <3>1. w.pc = "select" /\ append[a].attempt + 1 < MaxAttempts
      BY <1>3, <1>4, <1>8, <2>2, Constants DEF LastAttempt
    <3>2. w.since + w.attempt <= Len(history)
      BY <1>4, <1>8, <1>9
    <3> QED
      BY <1>2, <1>7, <1>8, <1>10, <3>1, <3>2 DEF AppendSees, HasNewest
  <2> QED
    BY <2>1, <2>2
<1>12. FindsFirst(a)'
  BY <1>7, <1>8 DEF FindsFirst, Restarts
<1> QED
  BY <1>2, <1>6, <1>11, <1>12, OneAppend

\* As long as nothing was stranded, an append whose number is free holds the newest row,
\* or there is none.
LEMMA HoldsNewest ==
  ASSUME TypeOK, Rows, Linked, NEW a \in Appends, AppendSees(a), FindsFirst(a),
         append[a].pc = "insert", ~Taken(append[a].last.sequence + 1)
  PROVE  \/ append[a].last = Genesis /\ chain = {}
         \/ append[a].last \in chain /\ \A f \in chain : f.sequence <= append[a].last.sequence
<1> DEFINE last == append[a].last
<1>1. CASE last = Genesis
  BY <1>1 DEF FindsFirst, Restarts, Genesis
<1>2. CASE last \in chain
  <2>1. \A f \in chain : f.sequence \in Nat
    BY DEF TypeOK, Events
  <2>2. ASSUME NEW f \in chain, ~(f.sequence <= last.sequence)
        PROVE  FALSE
    <3>1. last.sequence + 1 \in last.sequence .. f.sequence
      BY <1>2, <2>1, <2>2
    <3> QED
      BY <1>2, <3>1 DEF Linked
  <2> QED
    BY <1>2, <2>2
<1> QED
  BY <1>1, <1>2 DEF AppendSees

\* A row that follows the newest keeps the rows linked.
LEMMA InsertLinked ==
  ASSUME TypeOK, Rows, Linked, NEW e \in Events, NEW last \in Events,
         chain' = chain \cup {e}, ~Taken(e.sequence),
         e.sequence = last.sequence + 1, e.prev = last.hash,
         \/ last = Genesis /\ chain = {}
         \/ last \in chain /\ \A f \in chain : f.sequence <= last.sequence
  PROVE  Linked'
<1>1. \A f \in chain' : f.sequence \in Nat
  BY DEF TypeOK, Events
<1>2. last.sequence \in Nat
  BY DEF Events
<1>3. \A n : Taken(n)' <=> Taken(n) \/ n = e.sequence
  BY DEF Taken
<1>4. CASE last = Genesis /\ chain = {}
  BY <1>1, <1>3, <1>4 DEF Linked, Genesis
<1>5. CASE last \in chain /\ \A f \in chain : f.sequence <= last.sequence
  <2>1. ASSUME NEW f \in chain', NEW g \in chain', NEW n \in f.sequence .. g.sequence
        PROVE  Taken(n)'
    <3>1. CASE n = e.sequence
      BY <1>3, <3>1
    <3>2. CASE n # e.sequence
      <4>1. f \in chain
        BY <1>1, <1>2, <1>5, <2>1, <3>2
      <4>2. n \in f.sequence .. last.sequence
        BY <1>1, <1>2, <1>5, <2>1, <3>2
      <4> QED
        BY <1>3, <1>5, <4>1, <4>2 DEF Linked
    <3> QED
      BY <3>1, <3>2
  <2>2. ASSUME NEW f \in chain', NEW g \in chain', f.sequence = g.sequence + 1
        PROVE  f.prev = g.hash
    <3>1. CASE f = e
      <4>1. g.sequence = last.sequence /\ g # e
        BY <1>1, <1>2, <2>2, <3>1
      <4>2. g = last
        BY <1>5, <4>1 DEF TypeOK
      <4> QED
        BY <3>1, <4>2
    <3>2. CASE f \in chain
      <4>1. g \in chain
        BY <1>1, <1>2, <1>5, <2>2, <3>2
      <4> QED
        BY <2>2, <3>2, <4>1 DEF Linked
    <3> QED
      BY <3>1, <3>2
  <2>3. ASSUME NEW f \in chain', f.sequence = 1
        PROVE  f.prev = Genesis.hash
    <3>1. f \in chain
      BY <1>1, <1>2, <1>5, <2>3 DEF Rows
    <3> QED
      BY <2>3, <3>1 DEF Linked
  <2> QED
    BY <2>1, <2>2, <2>3 DEF Linked
<1> QED
  BY <1>4, <1>5

\* The event that is recorded has a number of its own and is the newest part of the history;
\* where nothing was stranded it is linked to the row before it.
LEMMA InsertInv ==
  ASSUME Inv, NEW a \in Appends, Insert(a)
  PROVE  Inv'
<1> DEFINE n == Len(history)
           last == append[a].last
           e == [sequence |-> append[a].last.sequence + 1, prev |-> append[a].last.hash,
                 hash |-> Len(history) + 1, at |-> append[a].at]
<1>1. /\ TypeOK /\ Rows /\ AppendSees(a)
      /\ append[a] \in AppendType /\ append[a].pc = "insert"
  BY DEF Inv, TypeOK, Insert
<1>2. /\ chain' = chain \cup {e} /\ history' = Append(history, e) /\ ~Taken(e.sequence)
      /\ append' = [append EXCEPT ![a] = IdleAppend]
      /\ clock' = clock /\ purge' = purge /\ emptied' = emptied /\ stranded' = stranded
  BY DEF Insert, marks
<1>3. n \in Nat /\ append[a].at \in Nat /\ last \in Events /\ history \in Seq(Events)
  BY <1>1 DEF TypeOK, AppendType
<1>4. e.sequence = last.sequence + 1 /\ e.prev = last.hash /\ e.hash = n + 1
  OBVIOUS
<1>5. last.sequence \in Nat /\ last.hash \in Nat
  BY <1>3 DEF Events
<1>6. e \in Events
  BY <1>3, <1>5 DEF Events
<1> HIDE DEF e
<1>7. /\ history' \in Seq(Events) /\ Len(history') = n + 1
      /\ \A i \in 1 .. n : history'[i] = history[i]
      /\ history'[n + 1] = e
  BY <1>2, <1>3, <1>6
<1>8. \A i \in 1 .. n + 1 : i \in 1 .. n \/ i = n + 1
  BY <1>3
<1>9. \A f \in chain : f.hash \in 1 .. n /\ f.sequence \in Nat
  BY <1>1 DEF Rows, TypeOK, Events
<1>10. TypeOK'
  <2>1. \A f, g \in chain' : f.sequence = g.sequence => f = g
    BY <1>1, <1>2 DEF TypeOK, Taken
  <2> QED
    BY <1>1, <1>2, <1>6, <1>7, <2>1, IdleType DEF TypeOK
<1>11. Rows'
  <2>1. ASSUME NEW f \in chain'
        PROVE  f.hash \in 1 .. n + 1 /\ f = history'[f.hash] /\ f.sequence >= 1
    <3>1. CASE f = e
      BY <1>3, <1>4, <1>5, <1>7, <3>1
    <3>2. CASE f \in chain
      <4>1. f.hash \in 1 .. n /\ f = history[f.hash] /\ f.sequence >= 1
        BY <1>1, <3>2 DEF Rows
      <4> QED
        BY <1>3, <1>7, <4>1
    <3> QED
      BY <1>2, <3>1, <3>2
  <2>2. \A i \in 1 .. n + 1 : history'[i].hash = i
    BY <1>1, <1>4, <1>7, <1>8 DEF Rows
  <2>3. HasNewest(chain')
    <3>1. CASE chain = {}
      BY <1>2, <1>4, <1>5, <3>1 DEF HasNewest
    <3>2. CASE chain # {}
      <4>1. PICK m \in chain : \A f \in chain : f.sequence <= m.sequence
        BY <1>1, <3>2 DEF Rows, HasNewest
      <4>2. CASE m.sequence <= e.sequence
        <5>1. \A f \in chain' : f.sequence <= e.sequence
          BY <1>2, <1>4, <1>5, <1>9, <4>1, <4>2
        <5> QED
          BY <1>2, <5>1 DEF HasNewest
      <4>3. CASE ~(m.sequence <= e.sequence)
        <5>1. \A f \in chain' : f.sequence <= m.sequence
          BY <1>2, <1>4, <1>5, <1>9, <4>1, <4>3
        <5> QED
          BY <1>2, <4>1, <5>1 DEF HasNewest
      <4> QED
        BY <4>2, <4>3
    <3> QED
      BY <3>1, <3>2
  <2> QED
    BY <1>7, <2>1, <2>2, <2>3 DEF Rows, HasNewest
<1>12. ASSUME NEW b \in Appends, b # a PROVE AppendSees(b)'
  <2> DEFINE w == append[b]
  <2>1. append'[b] = w /\ w \in AppendType /\ AppendSees(b)
    BY <1>1, <1>2, <1>12 DEF Inv, TypeOK
  <2>2. w.since \in Nat /\ w.attempt \in Nat /\ w.view \subseteq Events
    BY <2>1, Constants DEF AppendType
  <2>3. \A f \in w.view : f.hash <= n
    BY <2>1 DEF AppendSees
  <2>4. w.view \cap chain' = w.view \cap chain
    BY <1>2, <1>3, <1>4, <2>3
  <2>5. \A f \in w.view : f.hash <= n + 1
    BY <1>3, <2>2, <2>3 DEF Events
  <2>6. /\ w.pc \in {"select", "lock", "insert"} =>
             w.attempt < MaxAttempts /\ w.since + w.attempt <= n
        /\ w.pc = "lock" => \A f \in chain \ w.view : f.hash > w.since + w.attempt
        /\ w.pc = "insert" =>
             /\ w.last = Genesis \/ w.last \in chain
             /\ \A f \in chain : f.sequence = w.last.sequence + 1 => f.hash > w.since + w.attempt
        /\ w.pc = "dropped" => w.since + MaxAttempts <= n
        /\ HasNewest(w.view \cap chain)
    BY <2>1 DEF AppendSees
  <2>7. w.pc \in {"select", "lock", "insert"} =>
          w.since + w.attempt <= n + 1 /\ e.hash > w.since + w.attempt
    BY <1>3, <1>4, <2>2, <2>6
  <2>8. w.pc = "dropped" => w.since + MaxAttempts <= n + 1
    BY <1>3, <2>2, <2>6, Constants
  <2> HIDE DEF w
  <2> QED
    BY <1>2, <1>7, <2>1, <2>4, <2>5, <2>6, <2>7, <2>8 DEF AppendSees, HasNewest
<1>13. \A b \in Appends : AppendSees(b)'
  BY <1>1, <1>2, <1>12, IdleSees DEF TypeOK
<1>14. ASSUME ~stranded
       PROVE  \/ last = Genesis /\ chain = {}
              \/ last \in chain /\ \A f \in chain : f.sequence <= last.sequence
  BY <1>1, <1>2, <1>4, <1>14, HoldsNewest DEF Inv
<1>15. ASSUME ~stranded
       PROVE  Linked' /\ \A b \in Appends : FindsFirst(b)'
  <2>1. Linked'
    BY <1>1, <1>2, <1>3, <1>4, <1>6, <1>14, <1>15, InsertLinked DEF Inv
  <2>2. \A m : Taken(m) => Taken(m)'
    BY <1>2 DEF Taken
  <2>3. chain = {} => Taken(1)'
    BY <1>2, <1>4, <1>14, <1>15 DEF Taken, Genesis
  <2>4. ASSUME NEW b \in Appends, b # a
        PROVE  FindsFirst(b)'
    <3>1. append'[b] = append[b]
      BY <1>1, <1>2, <2>4 DEF TypeOK
    <3>2. Restarts(b, chain)' => Restarts(b, chain)
      BY <1>2, <3>1 DEF Restarts
    <3>3. FindsFirst(b)
      BY <1>15 DEF Inv
    <3> QED
      BY <2>2, <2>3, <3>2, <3>3 DEF FindsFirst
  <2>5. FindsFirst(a)'
    BY <1>1, <1>2, IdleSees DEF TypeOK
  <2> QED
    BY <2>1, <2>4, <2>5
<1>16. \A p \in Purges : purge'[p].pc # "off" => purge'[p].cutoff + Floor <= clock'
  BY <1>2 DEF Inv
<1>17. ASSUME ~emptied, ~stranded
       PROVE  Suffix' /\ \A p \in Purges : PurgeOld(p)'
  <2>1. Suffix
    BY <1>17 DEF Inv
  <2>2. last.sequence = n /\ last.hash = n
    <3>1. CASE last = Genesis /\ chain = {}
      BY <1>3, <2>1, <3>1 DEF Suffix, Genesis
    <3>2. CASE last \in chain /\ \A f \in chain : f.sequence <= last.sequence
      <4>1. last.hash \in 1 .. n /\ last = history[last.hash]
        BY <1>1, <3>2 DEF Rows
      <4>2. last.sequence = last.hash
        BY <2>1, <4>1 DEF Suffix, Continuous
      <4>3. history[n] \in chain /\ history[n].sequence = n
        BY <1>3, <2>1, <4>1 DEF Suffix, Continuous
      <4>4. n <= last.sequence
        BY <3>2, <4>3
      <4> QED
        BY <1>3, <1>5, <4>1, <4>2, <4>4
    <3> QED
      BY <1>14, <1>17, <3>1, <3>2
  <2>3. e.sequence = n + 1 /\ e.prev = (n + 1) - 1
    BY <1>3, <1>4, <2>2
  <2>4. Continuous'
    BY <1>7, <1>8, <2>1, <2>3 DEF Suffix, Continuous
  <2>5. Suffix'
    BY <1>2, <1>7, <2>4 DEF Suffix
  <2>6. ASSUME NEW p \in Purges PROVE PurgeOld(p)'
    <3>1. PurgeOld(p) /\ purge[p] \in PurgeType
      BY <1>1, <1>17 DEF Inv, TypeOK
    <3>2. purge[p].boundary \in Nat
      BY <3>1 DEF PurgeType
    <3> QED
      BY <1>2, <1>3, <1>7, <2>3, <3>1, <3>2 DEF PurgeOld
  <2> QED
    BY <2>5, <2>6
<1> QED
  BY <1>2, <1>10, <1>11, <1>13, <1>15, <1>16, <1>17 DEF Inv

-----------------------------------------------------------------------------
(* The steps of a retention pass *)

\* A step that changes one retention pass only has to keep what holds of that pass.
LEMMA OnePurge ==
  ASSUME Inv, NEW p \in Purges, NEW w \in PurgeType,
         purge' = [purge EXCEPT ![p] = w],
         UNCHANGED <<chain, history, clock, append, marks>>,
         w.pc # "off" => w.cutoff + Floor <= clock,
         ~emptied /\ ~stranded => PurgeOld(p)'
  PROVE  Inv'
<1>1. TypeOK'
  BY DEF Inv, TypeOK, marks
<1>2. emptied' = emptied /\ stranded' = stranded /\ purge'[p] = w
  BY DEF marks, Inv, TypeOK
<1>3. Rows'
  BY DEF Inv, Rows, HasNewest
<1>4. ~stranded => Linked'
  BY DEF Inv, Linked, Taken
<1>5. ASSUME NEW a \in Appends PROVE AppendSees(a)' /\ (~stranded => FindsFirst(a)')
  BY DEF Inv, AppendSees, HasNewest, FindsFirst, Restarts, Taken
<1>6. ASSUME NEW r \in Purges, r # p
      PROVE  /\ purge'[r].pc # "off" => purge'[r].cutoff + Floor <= clock'
             /\ ~emptied /\ ~stranded => PurgeOld(r)'
  <2>1. purge'[r] = purge[r]
    BY <1>6 DEF Inv, TypeOK
  <2> QED
    BY <2>1 DEF Inv, PurgeOld
<1>7. ~emptied /\ ~stranded => Suffix'
  BY DEF Inv, Suffix, Continuous
<1> QED
  BY <1>1, <1>2, <1>3, <1>4, <1>5, <1>6, <1>7 DEF Inv

\* The cutoff of a pass is older than the floor.
LEMMA ScheduleInv ==
  ASSUME Inv, NEW p \in Purges, NEW days \in Days, Schedule(p, days)
  PROVE  Inv'
<1> DEFINE w == [pc |-> "read", moment |-> clock, cutoff |-> clock - Effective(days),
                 boundary |-> 0]
<1>1. clock \in Nat /\ purge \in [Purges -> PurgeType]
  BY DEF Inv, TypeOK
<1>2. Effective(days) \in Nat /\ Effective(days) >= Floor /\ clock >= Effective(days)
  BY AuditAssumption DEF Effective, Schedule
<1>3. clock - Effective(days) \in Nat /\ clock - Effective(days) + Floor <= clock
  BY <1>1, <1>2, Constants
<1>4. w \in PurgeType
  BY <1>1, <1>3 DEF PurgeType
<1>5. purge' = [purge EXCEPT ![p] = w] /\ UNCHANGED <<chain, history, clock, append, marks>>
  BY DEF Schedule
<1>6. PurgeOld(p)'
  BY <1>1, <1>5 DEF PurgeOld
<1> QED
  BY <1>3, <1>4, <1>5, <1>6, OnePurge

\* The boundary that a pass reads has only old events up to it.
LEMMA PurgeReadInv ==
  ASSUME Inv, NEW p \in Purges, PurgeRead(p)
  PROVE  Inv'
<1>1. TypeOK /\ Rows /\ purge[p] \in PurgeType /\ purge[p].pc = "read"
  BY DEF Inv, TypeOK, PurgeRead
<1>2. PICK e \in Removable(purge[p].cutoff) :
        purge' = [purge EXCEPT ![p].pc = "delete", ![p].boundary = e.sequence]
  BY DEF PurgeRead
<1>3. UNCHANGED <<chain, history, clock, append, marks>>
  BY DEF PurgeRead
<1> DEFINE w == [purge[p] EXCEPT !.pc = "delete", !.boundary = e.sequence]
<1>4. e \in chain /\ \A f \in chain : f.sequence <= e.sequence => f.at < purge[p].cutoff
  BY <1>2 DEF Removable
<1>5. e.sequence \in Nat
  BY <1>1, <1>4 DEF TypeOK, Events
<1>6. w \in PurgeType
  BY <1>1, <1>5 DEF PurgeType
<1>7. purge' = [purge EXCEPT ![p] = w]
  BY <1>2
<1>8. purge'[p] = w
  BY <1>1, <1>7 DEF TypeOK
<1>9. w.pc = "delete" /\ w.boundary = e.sequence /\ w.cutoff = purge[p].cutoff
  BY <1>1 DEF PurgeType
<1>10. purge[p].cutoff + Floor <= clock
  BY <1>1 DEF Inv
<1> HIDE DEF w
<1>11. ASSUME ~emptied, ~stranded
       PROVE  PurgeOld(p)'
  <2>1. e.hash \in 1 .. Len(history) /\ e = history[e.hash]
    BY <1>1, <1>4 DEF Rows
  <2>2. e.sequence = e.hash
    BY <1>11, <2>1 DEF Inv, Suffix, Continuous
  <2>3. e.sequence <= Len(history)
    BY <1>1, <2>1, <2>2 DEF TypeOK
  <2> QED
    BY <1>3, <1>4, <1>8, <1>9, <2>3 DEF PurgeOld
<1> QED
  BY <1>3, <1>6, <1>7, <1>9, <1>10, <1>11, OnePurge

\* A pass that stops has removed nothing.
LEMMA PurgeStopsInv ==
  ASSUME Inv, NEW p \in Purges, PurgeStops(p)
  PROVE  Inv'
<1>1. purge'[p] = IdlePurge
  BY DEF PurgeStops, Inv, TypeOK
<1>2. IdlePurge.pc = "off"
  BY DEF IdlePurge
<1>3. PurgeOld(p)'
  BY <1>1, <1>2 DEF PurgeOld
<1> QED
  BY <1>2, <1>3, IdleType, OnePurge DEF PurgeStops

\* What a pass deletes is older than its cutoff, if the numbers did not start again.
LEMMA VictimsOld ==
  ASSUME Inv, ~emptied, ~stranded, NEW p \in Purges, PurgeDelete(p),
         NEW e \in chain, e \notin chain'
  PROVE  e.at < purge[p].cutoff
BY DEF Inv, PurgeOld, PurgeDelete, Victims

\* It takes a prefix away: it spares the rows that appends hold, and what is left is linked.
LEMMA PurgeDeleteInv ==
  ASSUME Inv, NEW p \in Purges, PurgeDelete(p)
  PROVE  Inv'
<1> DEFINE boundary == purge[p].boundary
           victims == Victims(p)
<1>1. TypeOK /\ Rows /\ purge[p] \in PurgeType /\ purge[p].pc = "delete"
  BY DEF Inv, TypeOK, PurgeDelete
<1>2. /\ history' = history /\ clock' = clock /\ append' = append
      /\ purge' = [purge EXCEPT ![p] = IdlePurge]
  BY DEF PurgeDelete
<1>3. /\ chain' = chain \ victims
      /\ emptied' = (emptied \/ (victims # {} /\ victims = chain))
      /\ stranded' =
           (stranded \/ (victims # chain /\ \E a \in Appends : Restarts(a, chain \ victims)))
  BY DEF PurgeDelete
<1>4. chain' = {e \in chain : ~(e.sequence <= boundary)}
  BY <1>3 DEF Victims
<1>5. /\ Len(history) \in Nat /\ boundary \in Nat
      /\ \A e \in chain : e \in Events /\ e.sequence \in Nat
  BY <1>1 DEF TypeOK, PurgeType, Events
<1>6. TypeOK'
  <2>1. emptied' \in BOOLEAN /\ stranded' \in BOOLEAN
    BY <1>3
  <2> QED
    BY <1>1, <1>2, <1>4, <2>1, IdleType DEF TypeOK
<1>7. Rows'
  <2>1. HasNewest(chain')
    BY <1>1, <1>4, <1>5, PrefixGone DEF Rows
  <2> QED
    BY <1>1, <1>2, <1>4, <2>1 DEF Rows, HasNewest
<1>8. ASSUME NEW a \in Appends PROVE AppendSees(a)'
  <2>1. AppendSees(a)
    BY DEF Inv
  <2> DEFINE rows == append[a].view \cap chain
  <2>2. HasNewest(rows) /\ \A f \in rows : f.sequence \in Nat
    BY <1>5, <2>1 DEF AppendSees
  <2>3. HasNewest({f \in rows : ~(f.sequence <= boundary)})
    BY <1>5, <2>2, PrefixGone
  <2>4. append[a].view \cap chain' = {f \in rows : ~(f.sequence <= boundary)}
    BY <1>4
  <2>5. append[a].pc = "insert" /\ append[a].last \in chain => append[a].last \in chain'
    BY DEF PurgeDelete, Victims, Locked
  <2> HIDE DEF rows
  <2>6. HasNewest(append[a].view \cap chain')
    BY <2>3, <2>4
  <2> QED
    BY <1>2, <1>4, <2>1, <2>5, <2>6 DEF AppendSees, HasNewest
<1>9. ASSUME NEW r \in Purges
      PROVE  /\ purge'[r].pc # "off" => purge'[r].cutoff + Floor <= clock'
             /\ r = p => purge'[r].pc = "off"
             /\ r # p => purge'[r] = purge[r]
  BY <1>1, <1>2 DEF Inv, TypeOK, IdlePurge
<1>10. ASSUME ~stranded'
       PROVE  Linked' /\ \A a \in Appends : FindsFirst(a)'
  <2>1. ~stranded /\ Linked
    BY <1>3, <1>10 DEF Inv
  <2>2. ASSUME NEW e \in chain', NEW f \in chain', NEW n \in e.sequence .. f.sequence
        PROVE  Taken(n)'
    <3>1. PICK g \in chain : g.sequence = n
      BY <1>4, <2>1, <2>2 DEF Linked, Taken
    <3>2. ~(g.sequence <= boundary)
      BY <1>4, <1>5, <2>2, <3>1
    <3> QED
      BY <1>4, <3>1, <3>2 DEF Taken
  <2>3. Linked'
    BY <1>4, <2>1, <2>2 DEF Linked
  <2>4. CASE victims = chain
    BY <1>3, <2>3, <2>4 DEF FindsFirst
  <2>5. CASE victims # chain
    <3>1. \A a \in Appends : ~Restarts(a, chain')
      BY <1>3, <1>10, <2>5
    <3> QED
      BY <1>2, <2>3, <3>1 DEF FindsFirst, Restarts
  <2> QED
    BY <2>4, <2>5
<1>11. ASSUME ~emptied', ~stranded'
       PROVE  Suffix' /\ \A r \in Purges : PurgeOld(r)'
  <2>1. ~emptied /\ ~stranded
    BY <1>3, <1>11
  <2>2. Suffix /\ \A r \in Purges : PurgeOld(r)
    BY <2>1 DEF Inv
  <2>3. ASSUME Len(history) > 0
        PROVE  history[Len(history)] \in chain'
    <3>1. history[Len(history)] \in chain /\ history[Len(history)].sequence = Len(history)
      BY <1>5, <2>2, <2>3 DEF Suffix, Continuous
    <3>2. SUFFICES ASSUME Len(history) <= boundary PROVE FALSE
      BY <1>4, <3>1
    <3>3. ASSUME NEW e \in chain PROVE e.sequence <= boundary
      <4>1. e.hash \in 1 .. Len(history) /\ e = history[e.hash]
        BY <1>1 DEF Rows
      <4>2. e.sequence = e.hash
        BY <2>2, <4>1 DEF Suffix, Continuous
      <4> QED
        BY <1>5, <3>2, <4>1, <4>2
    <3>4. victims = chain
      BY <3>3 DEF Victims
    <3> QED
      BY <1>3, <1>11, <3>1, <3>4
  <2>4. Suffix'
    BY <1>2, <2>2, <2>3 DEF Suffix, Continuous
  <2>5. ASSUME NEW r \in Purges PROVE PurgeOld(r)'
    BY <1>2, <1>4, <1>9, <2>2 DEF PurgeOld
  <2> QED
    BY <2>4, <2>5
<1> QED
  BY <1>6, <1>7, <1>8, <1>9, <1>10, <1>11 DEF Inv

-----------------------------------------------------------------------------
\* Time only makes what is removed older.
LEMMA TickInv ==
  ASSUME Inv, Tick
  PROVE  Inv'
<1>1. /\ clock' = clock + 1 /\ chain' = chain /\ history' = history /\ append' = append
      /\ purge' = purge /\ emptied' = emptied /\ stranded' = stranded
  BY DEF Tick, marks
<1>2. TypeOK /\ clock \in Nat
  BY DEF Inv, TypeOK
<1>3. TypeOK'
  BY <1>1, <1>2 DEF TypeOK
<1>4. ASSUME NEW p \in Purges
      PROVE  purge'[p].pc # "off" => purge'[p].cutoff + Floor <= clock'
  <2>1. purge[p].cutoff \in Nat
    BY <1>2 DEF TypeOK, PurgeType
  <2> QED
    BY <1>1, <1>2, <2>1, Constants DEF Inv
<1>5. Rows' /\ \A a \in Appends : AppendSees(a)'
  BY <1>1 DEF Inv, Rows, HasNewest, AppendSees
<1>6. ~stranded' => Linked' /\ \A a \in Appends : FindsFirst(a)'
  BY <1>1 DEF Inv, Linked, FindsFirst, Restarts, Taken
<1>7. ~emptied' /\ ~stranded' => Suffix' /\ \A p \in Purges : PurgeOld(p)'
  BY <1>1 DEF Inv, Suffix, Continuous, PurgeOld
<1> QED
  BY <1>3, <1>4, <1>5, <1>6, <1>7 DEF Inv

-----------------------------------------------------------------------------
(* The theorems *)

\* Every step keeps the invariant.
LEMMA NextInv ==
  ASSUME Inv, [Next]_vars
  PROVE  Inv'
<1>1. CASE UNCHANGED vars
  BY <1>1 DEF vars, Inv, TypeOK, Rows, HasNewest, AppendSees, Linked, FindsFirst, Restarts,
              Taken, Suffix, Continuous, PurgeOld
<1>2. ASSUME NEW a \in Appends,
             Start(a) \/ Select(a) \/ Lock(a) \/ Insert(a) \/ Conflict(a) \/ GiveUp(a)
      PROVE  Inv'
  BY <1>2, StartInv, SelectInv, LockInv, InsertInv, ConflictInv, GiveUpInv
<1>3. ASSUME NEW p \in Purges,
             \/ \E days \in Days : Schedule(p, days)
             \/ PurgeRead(p) \/ PurgeDelete(p) \/ PurgeStops(p)
      PROVE  Inv'
  BY <1>3, ScheduleInv, PurgeReadInv, PurgeDeleteInv, PurgeStopsInv
<1>4. CASE Tick
  BY <1>4, TickInv
<1> QED
  BY <1>1, <1>2, <1>3, <1>4 DEF Next

\* The inductive invariant: the rows are a linked interval of numbers until a retention pass
\* strands an append, and the newest part of the history until one empties the table.
THEOREM Invariance == Spec => []Inv
<1>1. Init => Inv
  BY InitInv
<1>2. Inv /\ [Next]_vars => Inv'
  BY NextInv
<1> QED
  BY <1>1, <1>2, PTL DEF Spec

\* The rows and the slots keep their types, and sequence numbers are unique.
THEOREM TypeCorrect == Spec => []TypeOK
<1>1. Inv => TypeOK
  BY DEF Inv
<1> QED
  BY <1>1, Invariance, PTL

\* verify_chain finds the table in order at any time, unless a retention pass deleted all
\* that an append in progress had seen and left later events.
THEOREM VerifiesUnlessStranded == Spec => []ChainVerifies
<1>1. Inv => ChainVerifies
  BY LinkedVerifies DEF Inv, ChainVerifies
<1> QED
  BY <1>1, Invariance, PTL

\* Events are numbered and linked without a gap or a restart from the first one on, unless
\* a retention pass deleted all there were, or all that an append in progress had seen.
THEOREM ContinuousOtherwise == Spec => []ContinuousUnlessEmptied
<1>1. Inv => ContinuousUnlessEmptied
  BY DEF Inv, Suffix, ContinuousUnlessEmptied
<1> QED
  BY <1>1, Invariance, PTL

\* An append is dropped only after as many events were recorded as it made attempts.
THEOREM OutrunWhenDropped == Spec => []DroppedOutrun
<1>1. Inv => DroppedOutrun
  BY DEF Inv, DroppedOutrun, AppendSees
<1> QED
  BY <1>1, Invariance, PTL

\* Only a retention pass deletes rows, and only rows that are older than the floor.
LEMMA StepSpares ==
  ASSUME Inv, [Next]_vars, ~emptied, ~stranded, NEW e \in chain, e \notin chain'
  PROVE  e.at + Floor < clock
<1>1. PICK p \in Purges : PurgeDelete(p)
  <2>1. chain' # chain /\ ~(chain \subseteq chain')
    OBVIOUS
  <2> QED
    BY <2>1 DEF Next, vars, Start, Select, Lock, Insert, Conflict, GiveUp, Schedule,
                PurgeRead, PurgeStops, Tick
<1>2. e.at < purge[p].cutoff
  BY <1>1, VictimsOld
<1>3. purge[p].cutoff + Floor <= clock
  BY <1>1 DEF Inv, PurgeDelete
<1>4. e.at \in Nat /\ clock \in Nat /\ purge[p].cutoff \in Nat
  BY DEF Inv, TypeOK, Events, PurgeType
<1> QED
  BY <1>2, <1>3, <1>4, Constants

\* No event is deleted before it is older than the floor, as long as the numbers were not
\* started again.
THEOREM RecentEventsSpared == Spec => PurgeSparesRecent
<1>1. Inv /\ [Next]_vars
        => [~emptied /\ ~stranded => \A e \in chain \ chain' : e.at + Floor < clock]_vars
  BY StepSpares
<1> QED
  BY <1>1, Invariance, PTL DEF Spec, PurgeSparesRecent
=============================================================================
