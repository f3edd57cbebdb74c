------------------------ MODULE DigestDeliveryProofs ------------------------
(***************************************************************************)
(* Theorems about DigestDelivery, for every set of subscriptions and every *)
(* number of days, attempts, rows in a batch, clicks and kills.            *)
(***************************************************************************)
EXTENDS DigestDelivery, FiniteSetTheorems, TLAPS

\* The constants, one by one.
LEMMA Constants ==
    /\ Days \subseteq Nat \ {0} /\ 1 \in Days
    /\ MaxAttempts \in Nat \ {0} /\ MaxClicks \in Nat /\ MaxKills \in Nat
    /\ \A r \in Rows : Sub(r) \in Subs /\ Edition(r) \in Days
BY MaxDayAssumption, DeliveryAssumption DEF Days, Rows, Sub, Edition

(***************************************************************************)
(* The inductive invariant                                                 *)
(***************************************************************************)
\* A row that can still be handled has attempts left, and a due row is open.
RowsUpToDate ==
    /\ \A r \in Rows : status[r] \notin Final => attempts[r] < MaxAttempts
    /\ \A r \in due : status[r] \in Open

\* A batch holds rows that are open or were cancelled since it was read; a pass
\* repairs published editions only.
PassUpToDate ==
    /\ \A r \in run.batch : status[r] \in Open \cup {"cancelled"}
    /\ run.row \subseteq run.batch
    /\ \A d \in run.todo \cup unqueued : published[d] # Unpublished

\* A subscription that is on was confirmed on the day it was switched on or later,
\* and no later than today.
SubscriptionsUpToDate ==
    \A s \in Subs : /\ confirmed[s] <= day
                    /\ active[s] => since[s] \in Days /\ since[s] <= confirmed[s]

IInv == TypeOK /\ RowsUpToDate /\ PassUpToDate /\ SubscriptionsUpToDate

\* Nothing has happened yet.
LEMMA InitInvariant == Init => IInv
BY Constants, MaxDayAssumption
DEF Init, IInv, TypeOK, EditionsInit, EditionsTypeOK, RowsUpToDate, PassUpToDate,
    SubscriptionsUpToDate, Idle, Statuses, Phases, Open, Final, Unpublished, Days

LEMMA RestTypes ==
    ASSUME NEW batch \in SUBSET Rows
    PROVE  /\ Rest(batch) \in [pc : Phases, todo : SUBSET Days, batch : SUBSET Rows, row : SUBSET Rows]
           /\ Rest(batch).batch = batch /\ Rest(batch).row = {} /\ Rest(batch).todo = {}
BY DEF Rest, Idle, Phases

\* Days are numbers.
LEMMA DayTypes ==
    ASSUME TypeOK
    PROVE  /\ day \in Days /\ day \in Nat \ {0}
           /\ \A s \in Subs : confirmed[s] \in Nat /\ since[s] \in Nat
<1>1. day \in Days
  BY DEF TypeOK, EditionsTypeOK
<1>2. confirmed \in [Subs -> Days \cup {0}] /\ since \in [Subs -> Days \cup {0}]
  BY DEF TypeOK
<1>3. ASSUME NEW d \in Days \cup {0} PROVE d \in Nat /\ (d \in Days => d # 0)
  BY Constants
<1> QED
  BY <1>1, <1>2, <1>3

\* Queueing touches rows that do not exist yet and makes them pending.
LEMMA QueueStep ==
    ASSUME TypeOK, NEW d \in Days, Queue(d)
    PROVE  /\ attempts' = attempts
           /\ status' \in [Rows -> Statuses]
           /\ due' \subseteq Rows
           /\ \A r \in Rows :
                /\ r \in due' => r \in due \/ status'[r] = "pending"
                /\ status'[r] = status[r] \/ (status[r] = "none" /\ status'[r] = "pending")
                /\ status'[r] # status[r] =>
                     ~Late(d) /\ r \in Missing(d) /\ Edition(r) = d
<1>1. CASE Late(d)
  BY <1>1 DEF Queue, rowVars, TypeOK
<1>2. CASE ~Late(d)
  <2>1. /\ status' = [o \in Rows |-> IF o \in Missing(d) THEN "pending" ELSE status[o]]
        /\ due' = due \cup Missing(d)
        /\ attempts' = attempts
    BY <1>2 DEF Queue
  <2>2. Missing(d) \subseteq Rows /\ \A o \in Missing(d) : status[o] = "none" /\ Edition(o) = d
    BY DEF Missing, Rows, Edition
  <2>3. "pending" \in Statuses
    BY DEF Statuses, Open
  <2> QED
    BY <1>2, <2>1, <2>2, <2>3 DEF TypeOK
<1> QED
  BY <1>1, <1>2

(***************************************************************************)
(* The steps                                                               *)
(***************************************************************************)
\* Clicks.
LEMMA ClickSteps ==
    ASSUME IInv, NEW s \in Subs, Subscribe(s) \/ Unsubscribe(s)
    PROVE  IInv'
<1> USE Constants DEF IInv
<1>1. CASE Subscribe(s)
  <2>1. TypeOK'
    BY <1>1 DEF TypeOK, EditionsTypeOK, Subscribe, editionVars, rowVars
  <2>2. SubscriptionsUpToDate'
    <3>1. ASSUME NEW t \in Subs, t # s
          PROVE  active'[t] = active[t] /\ confirmed'[t] = confirmed[t] /\ since'[t] = since[t]
      BY <1>1, <3>1 DEF Subscribe, TypeOK
    <3>2. /\ confirmed'[s] = day /\ day' = day
          /\ since'[s] = day \/ (active[s] /\ since'[s] = since[s])
      BY <1>1 DEF Subscribe, TypeOK, editionVars
    <3>3. day \in Days /\ day \in Nat /\ confirmed[s] \in Nat
      BY DayTypes
    <3>4. ASSUME NEW t \in Subs
          PROVE  /\ confirmed'[t] <= day'
                 /\ active'[t] => since'[t] \in Days /\ since'[t] <= confirmed'[t]
      <4>1. CASE t = s
        <5>1. active[s] => since[s] \in Days /\ since[s] <= confirmed[s] /\ confirmed[s] <= day
          BY DEF SubscriptionsUpToDate
        <5>2. since[s] \in Nat
          BY DayTypes
        <5>3. since'[s] \in Days /\ since'[s] <= day
          BY <3>2, <3>3, <5>1, <5>2
        <5> QED
          BY <3>2, <3>3, <4>1, <5>3
      <4>2. CASE t # s
        BY <3>1, <3>2, <4>2 DEF SubscriptionsUpToDate
      <4> QED
        BY <4>1, <4>2
    <3> QED
      BY <3>4 DEF SubscriptionsUpToDate
  <2>3. RowsUpToDate' /\ PassUpToDate'
    BY <1>1 DEF RowsUpToDate, PassUpToDate, Subscribe, editionVars, rowVars
  <2> QED
    BY <2>1, <2>2, <2>3
<1>2. CASE Unsubscribe(s)
  <2>1. TypeOK'
    BY <1>2 DEF TypeOK, EditionsTypeOK, Unsubscribe, editionVars, rowVars
  <2>2. SubscriptionsUpToDate'
    BY <1>2 DEF SubscriptionsUpToDate, Unsubscribe, TypeOK, editionVars
  <2>3. RowsUpToDate' /\ PassUpToDate'
    BY <1>2 DEF RowsUpToDate, PassUpToDate, Unsubscribe, editionVars, rowVars
  <2> QED
    BY <2>1, <2>2, <2>3
<1> QED
  BY <1>1, <1>2

\* The publisher and the calendar.
LEMMA PublisherSteps ==
    ASSUME IInv,
           Tomorrow \/ \E d \in Days : Publish(d) \/ QueueAfterPublish(d) \/ PublisherDies(d)
    PROVE  IInv'
<1> USE Constants DEF IInv
<1>1. CASE Tomorrow
  <2>1. TypeOK'
    BY <1>1, MaxDayAssumption DEF TypeOK, EditionsTypeOK, Tomorrow, NextDay, subVars, rowVars, Days
  <2>2. SubscriptionsUpToDate'
    <3>1. day \in Nat /\ \A s \in Subs : confirmed[s] \in Nat
      BY DayTypes
    <3>2. day' = day + 1 /\ UNCHANGED <<active, confirmed, since>>
      BY <1>1 DEF Tomorrow, NextDay, subVars
    <3> QED
      BY <3>1, <3>2 DEF SubscriptionsUpToDate
  <2> QED
    BY <1>1, <2>1, <2>2 DEF RowsUpToDate, PassUpToDate, Tomorrow, NextDay, rowVars
<1>2. ASSUME NEW d \in Days, Publish(d) PROVE IInv'
  <2>1. TypeOK'
    BY <1>2 DEF TypeOK, EditionsTypeOK, Publish, PublishEdition, subVars, rowVars
  <2>2. PassUpToDate'
    BY <1>2 DEF PassUpToDate, Publish, PublishEdition, rowVars, TypeOK, EditionsTypeOK, Unpublished
  <2> QED
    BY <1>2, <2>1, <2>2 DEF RowsUpToDate, SubscriptionsUpToDate, Publish, PublishEdition, subVars, rowVars
<1>3. ASSUME NEW d \in Days, QueueAfterPublish(d) PROVE IInv'
  <2>1. TypeOK'
    BY <1>3, QueueStep DEF TypeOK, EditionsTypeOK, QueueAfterPublish, editionVars, subVars
  <2>2. RowsUpToDate'
    BY <1>3, <2>1, QueueStep DEF RowsUpToDate, QueueAfterPublish, TypeOK, Open, Final
  <2>3. PassUpToDate'
    BY <1>3, QueueStep DEF PassUpToDate, QueueAfterPublish, TypeOK, Open, editionVars
  <2> QED
    BY <1>3, <2>1, <2>2, <2>3 DEF SubscriptionsUpToDate, QueueAfterPublish, editionVars, subVars
<1>4. ASSUME NEW d \in Days, PublisherDies(d) PROVE IInv'
  <2>1. TypeOK'
    BY <1>4 DEF TypeOK, EditionsTypeOK, PublisherDies, editionVars, subVars, rowVars
  <2> QED
    BY <1>4, <2>1 DEF RowsUpToDate, PassUpToDate, SubscriptionsUpToDate, PublisherDies,
       editionVars, subVars, rowVars
<1> QED
  BY <1>1, <1>2, <1>3, <1>4

\* The deliverer before it handles a row, and the clock.
LEMMA PassSteps ==
    ASSUME IInv,
           \/ StartPass \/ SelectBatch \/ Kill
           \/ \E d \in Days : Repair(d)
           \/ \E r \in Rows : TakeRow(r) \/ Send(r) \/ BackoffElapses(r)
    PROVE  IInv'
<1> USE Constants DEF IInv
<1>1. CASE StartPass
  <2>1. run' = [Idle EXCEPT !.pc = "repair", !.todo = Published] /\ Published \subseteq Days
    BY <1>1 DEF StartPass, Published
  <2>2. TypeOK'
    BY <1>1, <2>1 DEF TypeOK, EditionsTypeOK, StartPass, DelivererFrame, editionVars, rowVars,
       Idle, Phases
  <2>3. PassUpToDate'
    BY <1>1, <2>1 DEF PassUpToDate, StartPass, DelivererFrame, editionVars, rowVars, Idle, Published
  <2> QED
    BY <1>1, <2>2, <2>3 DEF RowsUpToDate, SubscriptionsUpToDate, StartPass, DelivererFrame,
       editionVars, rowVars
<1>2. ASSUME NEW d \in Days, Repair(d) PROVE IInv'
  <2>1. TypeOK'
    BY <1>2, QueueStep DEF TypeOK, EditionsTypeOK, Repair, DelivererFrame, editionVars
  <2>2. RowsUpToDate'
    BY <1>2, <2>1, QueueStep DEF RowsUpToDate, Repair, TypeOK, Open, Final
  <2>3. run'.batch = run.batch /\ run'.row = run.row /\ run'.todo = run.todo \ {d}
    BY <1>2 DEF Repair, TypeOK
  <2>4. PassUpToDate'
    BY <1>2, <2>3, QueueStep DEF PassUpToDate, Repair, DelivererFrame, TypeOK, Open, editionVars
  <2> QED
    BY <1>2, <2>1, <2>2, <2>4 DEF SubscriptionsUpToDate, Repair, DelivererFrame, editionVars
<1>3. CASE SelectBatch
  <2>1. PICK batch \in SUBSET due : run' = Rest(batch)
    BY <1>3 DEF SelectBatch
  <2>2. batch \in SUBSET Rows
    BY <2>1 DEF TypeOK
  <2>3. TypeOK'
    BY <1>3, <2>1, <2>2, RestTypes
    DEF TypeOK, EditionsTypeOK, SelectBatch, DelivererFrame, editionVars, rowVars
  <2>4. PassUpToDate'
    BY <1>3, <2>1, <2>2, RestTypes
    DEF PassUpToDate, RowsUpToDate, SelectBatch, DelivererFrame, editionVars, rowVars
  <2> QED
    BY <1>3, <2>3, <2>4 DEF RowsUpToDate, SubscriptionsUpToDate, SelectBatch, DelivererFrame,
       editionVars, rowVars
<1>4. ASSUME NEW r \in Rows, TakeRow(r) PROVE IInv'
  <2>1. TypeOK'
    BY <1>4 DEF TypeOK, EditionsTypeOK, TakeRow, DelivererFrame, editionVars, rowVars, Phases
  <2>2. PassUpToDate'
    BY <1>4 DEF PassUpToDate, TakeRow, DelivererFrame, editionVars, rowVars, TypeOK
  <2> QED
    BY <1>4, <2>1, <2>2 DEF RowsUpToDate, SubscriptionsUpToDate, TakeRow, DelivererFrame,
       editionVars, rowVars
<1>5. ASSUME NEW r \in Rows, Send(r) PROVE IInv'
  <2>1. /\ \E pc \in {"delivered", "failed", "suspended"} : run' = [run EXCEPT !.pc = pc]
        /\ \/ sent' = sent
           \/ sent' = [sent EXCEPT ![r] = SentAfter(r)]
    BY <1>5 DEF Send
  <2>2. SentAfter(r) \in Nat
    BY DEF SentAfter, TypeOK
  <2>3. run' \in [pc : Phases, todo : SUBSET Days, batch : SUBSET Rows, row : SUBSET Rows]
    BY <2>1 DEF TypeOK, Phases
  <2>4. sent' \in [Rows -> Nat]
    BY <2>1, <2>2 DEF TypeOK
  <2>5. TypeOK'
    BY <1>5, <2>3, <2>4 DEF TypeOK, EditionsTypeOK, Send, DelivererFrame, editionVars, rowVars
  <2>6. run'.batch = run.batch /\ run'.row = run.row /\ run'.todo = run.todo
    BY <2>1 DEF TypeOK
  <2>7. PassUpToDate'
    BY <1>5, <2>6 DEF PassUpToDate, Send, DelivererFrame, editionVars, rowVars
  <2> QED
    BY <1>5, <2>5, <2>7 DEF RowsUpToDate, SubscriptionsUpToDate, Send, DelivererFrame, editionVars, rowVars
<1>6. CASE Kill
  <2>1. TypeOK'
    BY <1>6 DEF TypeOK, EditionsTypeOK, Kill, editionVars, subVars, rowVars, Idle, Phases
  <2> QED
    BY <1>6, <2>1 DEF RowsUpToDate, PassUpToDate, SubscriptionsUpToDate, Kill, editionVars,
       subVars, rowVars, Idle
<1>7. ASSUME NEW r \in Rows, BackoffElapses(r) PROVE IInv'
  <2>1. TypeOK'
    BY <1>7 DEF TypeOK, EditionsTypeOK, BackoffElapses, editionVars, subVars
  <2> QED
    BY <1>7, <2>1 DEF RowsUpToDate, PassUpToDate, SubscriptionsUpToDate, BackoffElapses,
       editionVars, subVars, Open
<1> QED
  BY <1>1, <1>2, <1>3, <1>4, <1>5, <1>6, <1>7

\* A handled row is one of the batch and is not final yet.
LEMMA HandledRow ==
    ASSUME IInv, NEW r \in Rows, NEW pc, Handling(r, pc), NextRow
    PROVE  /\ r \in run.batch
           /\ status[r] \in Open \cup {"cancelled"}
           /\ attempts[r] \in Nat /\ attempts[r] + 1 \in 0..MaxAttempts
           /\ run' \in [pc : Phases, todo : SUBSET Days, batch : SUBSET Rows, row : SUBSET Rows]
           /\ run'.batch = run.batch \ {r} /\ run'.row = {} /\ run'.todo = {}
<1> USE Constants DEF IInv
<1>1. r \in run.batch /\ run.row = {r}
  BY DEF PassUpToDate, Handling
<1>2. status[r] \in Open \cup {"cancelled"} /\ status[r] \notin Final
  BY <1>1 DEF PassUpToDate, Open, Final
<1>3. attempts[r] \in 0..MaxAttempts /\ attempts[r] < MaxAttempts
  BY <1>2 DEF RowsUpToDate, TypeOK
<1>4. run' = Rest(run.batch \ {r}) /\ run.batch \ {r} \in SUBSET Rows
  BY <1>1 DEF NextRow, TypeOK
<1> QED
  BY <1>1, <1>2, <1>3, <1>4, RestTypes

\* The four ways in which a row is recorded.
LEMMA RecordSteps ==
    ASSUME IInv, NEW r \in Rows,
           CancelRow(r) \/ RecordDelivered(r) \/ RecordFailure(r) \/ RecordSuspended(r)
    PROVE  IInv'
<1> USE Constants DEF IInv
<1>0. r \in run.batch /\ attempts[r] \in Nat /\ attempts[r] + 1 \in 0..MaxAttempts
  BY HandledRow DEF CancelRow, RecordDelivered, RecordFailure, RecordSuspended
<1>a. /\ run' \in [pc : Phases, todo : SUBSET Days, batch : SUBSET Rows, row : SUBSET Rows]
      /\ run'.batch = run.batch \ {r} /\ run'.row = {} /\ run'.todo = {}
  BY HandledRow DEF CancelRow, RecordDelivered, RecordFailure, RecordSuspended
<1>b. /\ UNCHANGED <<day, published, unqueued, confirmed, clicks, kills, sent>>
  BY DEF CancelRow, RecordDelivered, RecordFailure, RecordSuspended, DelivererFrame, editionVars
<1>1. CASE CancelRow(r)
  <2>1. UNCHANGED <<active, since, attempts>> /\ due' = due \ {r}
    BY <1>1 DEF CancelRow
  <2>2. status' = [status EXCEPT ![r] = "cancelled"]
    BY <1>1 DEF CancelRow
  <2>3. TypeOK'
    BY <1>a, <1>b, <2>1, <2>2 DEF TypeOK, EditionsTypeOK, Statuses
  <2>4. RowsUpToDate'
    BY <1>0, <2>1, <2>2 DEF RowsUpToDate, TypeOK
  <2>5. PassUpToDate'
    BY <1>a, <1>b, <2>2 DEF PassUpToDate, TypeOK
  <2> QED
    BY <1>b, <2>1, <2>3, <2>4, <2>5 DEF SubscriptionsUpToDate
<1>2. CASE RecordDelivered(r) \/ RecordFailure(r)
  <2>1. UNCHANGED <<active, since>> /\ due' = due \ {r}
        /\ attempts' = [attempts EXCEPT ![r] = attempts[r] + 1]
    BY <1>2 DEF RecordDelivered, RecordFailure
  <2>2. PICK new \in {"delivered", "failed", "retry"} :
          /\ status' = [status EXCEPT ![r] = new]
          /\ new = "retry" => attempts[r] + 1 < MaxAttempts
    BY <1>0, <1>2 DEF RecordDelivered, RecordFailure, AfterFailure
  <2>3. TypeOK'
    BY <1>0, <1>a, <1>b, <2>1, <2>2 DEF TypeOK, EditionsTypeOK, Statuses, Open, Final
  <2>4. RowsUpToDate'
    BY <1>0, <2>1, <2>2 DEF RowsUpToDate, TypeOK, Final
  <2>5. PassUpToDate'
    BY <1>a, <1>b, <2>2 DEF PassUpToDate, TypeOK
  <2> QED
    BY <1>b, <2>1, <2>3, <2>4, <2>5 DEF SubscriptionsUpToDate
<1>3. CASE RecordSuspended(r)
  <2>1. /\ due' = due \ (OtherOpenRows(r) \cup {r})
        /\ attempts' = [attempts EXCEPT ![r] = attempts[r] + 1]
        /\ active' = [active EXCEPT ![Sub(r)] = FALSE]
        /\ since' = [since EXCEPT ![Sub(r)] = 0]
    BY <1>3 DEF RecordSuspended
  <2>2. status' = [o \in Rows |-> IF o = r THEN "suspended"
                     ELSE IF o \in OtherOpenRows(r) THEN "cancelled" ELSE status[o]]
    BY <1>3 DEF RecordSuspended
  <2>3. \A o \in OtherOpenRows(r) : o \in Rows /\ status[o] \in Open
    BY DEF OtherOpenRows
  <2>4. TypeOK'
    <3>1. status' \in [Rows -> Statuses]
      BY <2>2 DEF TypeOK, Statuses, Final
    <3> QED
      BY <1>0, <1>a, <1>b, <2>1, <3>1 DEF TypeOK, EditionsTypeOK
  <2>5. RowsUpToDate'
    BY <1>0, <2>1, <2>2, <2>3 DEF RowsUpToDate, TypeOK, Final, Open
  <2>6. PassUpToDate'
    BY <1>a, <1>b, <2>2 DEF PassUpToDate, TypeOK
  <2>7. SubscriptionsUpToDate'
    BY <1>b, <2>1 DEF SubscriptionsUpToDate, TypeOK
  <2> QED
    BY <2>4, <2>5, <2>6, <2>7
<1> QED
  BY <1>1, <1>2, <1>3

\* Every step keeps the inductive invariant.
LEMMA StepInvariant == IInv /\ [Next]_vars => IInv'
<1> SUFFICES ASSUME IInv, [Next]_vars PROVE IInv'
  OBVIOUS
<1>1. CASE UNCHANGED vars
  BY <1>1 DEF IInv, TypeOK, EditionsTypeOK, RowsUpToDate, PassUpToDate, SubscriptionsUpToDate,
     vars, editionVars, subVars, rowVars
<1>2. CASE Next
  BY <1>2, ClickSteps, PublisherSteps, PassSteps, RecordSteps DEF Next, Pass
<1> QED
  BY <1>1, <1>2

LEMMA Invariance == Spec => []IInv
<1>1. Init => IInv
  BY InitInvariant
<1>2. IInv /\ [Next]_vars => IInv'
  BY StepInvariant
<1> QED
  BY <1>1, <1>2, PTL DEF Spec

(***************************************************************************)
(* The theorems                                                            *)
(***************************************************************************)
\* For every value of the constants each reachable state is well typed: no row is
\* attempted more than MaxAttempts times.
THEOREM TypeCorrect == Spec => []TypeOK
<1>1. IInv => TypeOK
  BY DEF IInv
<1> QED
  BY <1>1, Invariance, PTL

\* What a step may do to a row: only a missing row of an edition that is queued is
\* created, only a row that is not final is recorded.
LEMMA RowStep ==
    ASSUME IInv, [Next]_vars, NEW r \in Rows, status'[r] # status[r]
    PROVE  \/ /\ status[r] = "none"
              /\ published[Edition(r)] # Unpublished
              /\ ~Late(Edition(r))
              /\ r \in Missing(Edition(r))
           \/ status[r] \in Open \cup {"cancelled"}
<1> USE Constants DEF IInv
<1>1. CASE UNCHANGED status
  BY <1>1
<1>2. ASSUME NEW d \in Days, QueueAfterPublish(d) \/ Repair(d)
      PROVE  /\ status[r] = "none"
             /\ published[Edition(r)] # Unpublished
             /\ ~Late(Edition(r))
             /\ r \in Missing(Edition(r))
  <2>1. Queue(d) /\ published[d] # Unpublished
    BY <1>2 DEF QueueAfterPublish, Repair, PassUpToDate
  <2> QED
    BY <2>1, QueueStep
<1>3. ASSUME NEW o \in Rows,
             CancelRow(o) \/ RecordDelivered(o) \/ RecordFailure(o) \/ RecordSuspended(o)
      PROVE  status[r] \in Open \cup {"cancelled"}
  <2>1. status[o] \in Open \cup {"cancelled"}
    BY <1>3, HandledRow DEF CancelRow, RecordDelivered, RecordFailure, RecordSuspended
  <2>2. r = o \/ status[r] \in Open
    BY <1>3 DEF CancelRow, RecordDelivered, RecordFailure, RecordSuspended, OtherOpenRows, TypeOK
  <2> QED
    BY <2>1, <2>2
<1> QED
  BY <1>1, <1>2, <1>3 DEF Next, Pass, vars, rowVars, Kill, Tomorrow, Subscribe, Unsubscribe,
     Publish, PublisherDies, BackoffElapses, StartPass, SelectBatch, TakeRow, Send

\* A row that was delivered, exhausted or suspended is never touched again.
THEOREM FinalRowsStay == Spec => FinalStays
<1>1. IInv /\ [Next]_vars => [\A r \in Rows : status[r] \in Final => status'[r] = status[r]]_vars
  BY RowStep DEF Open, Final
<1> QED
  BY <1>1, Invariance, PTL DEF Spec, FinalStays

\* No row is ever created for an edition published too late, nor for a subscription
\* that was switched on after the period of the edition.
THEOREM NothingBackfilled == Spec => NeverBackfills
<1>1. IInv /\ [Next]_vars =>
        [\A r \in Rows :
           status[r] = "none" /\ status'[r] # "none" =>
             /\ published[Edition(r)] # Unpublished
             /\ published[Edition(r)] - Edition(r) <= MaxLateness
             /\ since[Sub(r)] \in 1..Edition(r)]_vars
  <2> SUFFICES ASSUME IInv, [Next]_vars, NEW r \in Rows, status[r] = "none", status'[r] # "none"
               PROVE  /\ published[Edition(r)] # Unpublished
                      /\ published[Edition(r)] - Edition(r) <= MaxLateness
                      /\ since[Sub(r)] \in 1..Edition(r)
    OBVIOUS
  <2>1. /\ published[Edition(r)] # Unpublished /\ ~Late(Edition(r))
        /\ r \in Missing(Edition(r))
    BY RowStep DEF Open
  <2>2. Sub(r) \in Subs /\ Edition(r) \in Nat
    BY Constants
  <2>3. published[Edition(r)] \in Nat /\ MaxLateness \in Nat
    <3>1. published \in [Days -> Days \cup {Unpublished}]
      BY DEF IInv, TypeOK, EditionsTypeOK
    <3>2. ASSUME NEW d \in Days \cup {Unpublished} PROVE d \in Nat
      BY Constants DEF Unpublished
    <3>3. published[Edition(r)] \in Nat
      BY <3>1, <3>2, Constants
    <3>4. MaxLateness \in Nat
      BY DeliveryAssumption
    <3> QED
      BY <3>3, <3>4
  <2>4. published[Edition(r)] - Edition(r) <= MaxLateness
    BY <2>1, <2>2, <2>3 DEF Late
  <2>5. active[Sub(r)] /\ confirmed[Sub(r)] <= Edition(r)
    BY <2>1 DEF Missing, EligibleFor
  <2>6. since[Sub(r)] \in Days /\ since[Sub(r)] <= confirmed[Sub(r)]
    BY <2>2, <2>5 DEF IInv, SubscriptionsUpToDate
  <2>7. confirmed[Sub(r)] \in Nat /\ since[Sub(r)] \in Nat \ {0}
    BY <2>2, <2>6, DayTypes, Constants DEF IInv
  <2> QED
    BY <2>1, <2>2, <2>4, <2>5, <2>6, <2>7
<1> QED
  BY <1>1, Invariance, PTL DEF Spec, NeverBackfills

\* Sending puts one message in hand at most.
LEMMA SendStep ==
    ASSUME IInv, SentAsRecorded, NEW o \in Rows, Send(o)
    PROVE  SentAsRecorded'
<1>1. UNCHANGED <<status, attempts, kills>> /\ Handling(o, "send")
  BY DEF Send, DelivererFrame, rowVars
<1>2. sent \in [Rows -> Nat] /\ attempts \in [Rows -> Nat] /\ kills \in Nat
  BY Constants DEF IInv, TypeOK
<1>3. PICK pc \in {"delivered", "failed", "suspended"} :
        /\ run' = [run EXCEPT !.pc = pc]
        /\ \/ pc # "suspended" /\ sent' = [sent EXCEPT ![o] = SentAfter(o)]
           \/ pc # "delivered" /\ sent' = sent
  BY DEF Send
<1>4. run'.pc = pc /\ run'.row = {o} /\ run.pc = "send" /\ run.row = {o}
  BY <1>1, <1>3 DEF Handling, IInv, TypeOK
<1>5. SentAfter(o) \in {sent[o], sent[o] + 1} /\ SentAfter(o) >= 1
      /\ (Sub(o) \notin EmailSubs /\ sent[o] <= 1 => SentAfter(o) <= 1)
  BY <1>2 DEF SentAfter
<1>6. ASSUME NEW r \in Rows, r # o
      PROVE  sent'[r] = sent[r] /\ InHand(r) = 0 /\ InHand(r)' = 0 /\ ~Handling(r, "delivered")'
  BY <1>2, <1>3, <1>4, <1>6 DEF InHand, Handling
<1>7. ASSUME NEW r \in Rows, r # o
      PROVE  /\ status'[r] = "delivered" \/ Handling(r, "delivered")' => sent'[r] >= 1
             /\ sent'[r] <= attempts'[r] + kills' + InHand(r)'
             /\ Sub(r) \notin EmailSubs => sent'[r] <= 1
  BY <1>1, <1>6, <1>7 DEF SentAsRecorded
<1>8. sent[o] <= attempts[o] + kills /\ InHand(o)' = (IF pc = "suspended" THEN 0 ELSE 1)
  BY <1>2, <1>4 DEF SentAsRecorded, InHand
<1>9. Handling(o, "delivered")' <=> pc = "delivered"
  BY <1>4 DEF Handling
<1>10. sent[o] \in Nat /\ attempts[o] \in Nat
  BY <1>2
<1>11. /\ status[o] = "delivered" => sent[o] >= 1
       /\ Sub(o) \notin EmailSubs => sent[o] <= 1
  BY DEF SentAsRecorded
<1>12. CASE pc # "suspended" /\ sent' = [sent EXCEPT ![o] = SentAfter(o)]
  <2>1. sent'[o] = SentAfter(o) /\ InHand(o)' = 1
    BY <1>2, <1>8, <1>12
  <2>2. sent'[o] <= attempts'[o] + kills' + InHand(o)'
    BY <1>1, <1>2, <1>5, <1>8, <1>10, <2>1
  <2> QED
    BY <1>1, <1>5, <1>7, <1>11, <2>1, <2>2 DEF SentAsRecorded
<1>13. CASE pc # "delivered" /\ sent' = sent
  <2>1. sent'[o] <= attempts'[o] + kills' + InHand(o)'
    BY <1>1, <1>2, <1>8, <1>10, <1>13
  <2> QED
    BY <1>1, <1>7, <1>9, <1>11, <1>13, <2>1 DEF SentAsRecorded
<1> QED
  BY <1>3, <1>12, <1>13

\* Recording a row uses up the message in hand.
LEMMA RecordSentStep ==
    ASSUME IInv, SentAsRecorded, NEW o \in Rows,
           CancelRow(o) \/ RecordDelivered(o) \/ RecordFailure(o) \/ RecordSuspended(o)
    PROVE  SentAsRecorded'
<1>1. sent \in [Rows -> Nat] /\ attempts \in [Rows -> Nat] /\ kills \in Nat
  BY Constants DEF IInv, TypeOK
<1>2. UNCHANGED <<sent, kills>>
  BY DEF CancelRow, RecordDelivered, RecordFailure, RecordSuspended, DelivererFrame
<1>3. run'.row = {}
  BY HandledRow DEF CancelRow, RecordDelivered, RecordFailure, RecordSuspended
<1>4. \A r \in Rows : InHand(r)' = 0 /\ ~Handling(r, "delivered")'
  BY <1>3 DEF InHand, Handling
<1>5. attempts'[o] = attempts[o] + 1 \/ (attempts' = attempts /\ InHand(o) = 0)
  BY <1>1 DEF CancelRow, RecordDelivered, RecordFailure, RecordSuspended, Handling, InHand
<1>6. run.row = {o}
  BY DEF CancelRow, RecordDelivered, RecordFailure, RecordSuspended, Handling
<1>7. ASSUME NEW r \in Rows, r # o PROVE attempts'[r] = attempts[r] /\ InHand(r) = 0
  BY <1>1, <1>6, <1>7 DEF CancelRow, RecordDelivered, RecordFailure, RecordSuspended, InHand
<1>8. InHand(o) \in {0, 1}
  BY DEF InHand
<1>9. ASSUME NEW r \in Rows
      PROVE  status'[r] = "delivered" => status[r] = "delivered" \/ Handling(r, "delivered")
  <2>1. status \in [Rows -> Statuses]
    BY DEF IInv, TypeOK
  <2>2. CASE CancelRow(o)
    BY <2>1, <2>2 DEF CancelRow
  <2>3. CASE RecordDelivered(o)
    BY <2>1, <2>3 DEF RecordDelivered
  <2>4. CASE RecordFailure(o)
    BY <2>1, <2>4 DEF RecordFailure, AfterFailure
  <2>5. CASE RecordSuspended(o)
    BY <2>1, <2>5 DEF RecordSuspended
  <2> QED
    BY <2>2, <2>3, <2>4, <2>5
<1>10. ASSUME NEW r \in Rows
       PROVE  sent'[r] <= attempts'[r] + kills' + InHand(r)'
  <2>1. sent[r] <= attempts[r] + kills + InHand(r) /\ sent[r] \in Nat /\ attempts[r] \in Nat
    BY <1>1 DEF SentAsRecorded
  <2>2. CASE r = o
    BY <1>1, <1>2, <1>4, <1>5, <1>8, <2>1, <2>2
  <2>3. CASE r # o
    BY <1>1, <1>2, <1>4, <1>7, <2>1, <2>3
  <2> QED
    BY <2>2, <2>3
<1> QED
  BY <1>2, <1>4, <1>9, <1>10 DEF SentAsRecorded

\* The other steps of the deliverer have no message in hand; a kill drops it.
LEMMA QuietStep ==
    ASSUME IInv, SentAsRecorded, UNCHANGED <<attempts, sent>>,
           UNCHANGED <<run, kills>>
             \/ (UNCHANGED kills /\ run.pc \in {"idle", "repair", "next"}
                   /\ run'.pc \in {"idle", "repair", "next", "send", "cancel"})
             \/ Kill,
           \A r \in Rows : status'[r] = status[r] \/ status'[r] # "delivered"
    PROVE  SentAsRecorded'
<1>1. sent \in [Rows -> Nat] /\ attempts \in [Rows -> Nat] /\ kills \in Nat
  BY Constants DEF IInv, TypeOK
<1>2. ASSUME NEW r \in Rows
      PROVE  /\ Handling(r, "delivered")' => Handling(r, "delivered")
             /\ InHand(r)' + kills' >= InHand(r) + kills /\ InHand(r)' \in Nat /\ kills' \in Nat
  BY <1>1 DEF Handling, InHand, Kill, Idle
<1>3. \A r \in Rows : InHand(r) \in Nat
  BY DEF InHand
<1>4. ASSUME NEW r \in Rows PROVE sent'[r] <= attempts'[r] + kills' + InHand(r)'
  BY <1>1, <1>2, <1>3 DEF SentAsRecorded
<1> QED
  BY <1>2, <1>4 DEF SentAsRecorded

\* For every value of the constants: a row marked delivered has reached its
\* subscriber, no talk page has two sections of an edition, and an e-mail was sent
\* again only after an attempt that failed or a run that was killed.
THEOREM NothingRepeated == Spec => []SentAsRecorded
<1>1. Init => SentAsRecorded
  BY DEF Init, SentAsRecorded, Handling, InHand, Idle
<1>2. IInv /\ SentAsRecorded /\ [Next]_vars => SentAsRecorded'
  <2> SUFFICES ASSUME IInv, SentAsRecorded, [Next]_vars PROVE SentAsRecorded'
    OBVIOUS
  <2>1. CASE UNCHANGED vars
    BY <2>1, QuietStep DEF vars, rowVars
  <2>2. ASSUME NEW s \in Subs, Subscribe(s) \/ Unsubscribe(s) PROVE SentAsRecorded'
    BY <2>2, QuietStep DEF Subscribe, Unsubscribe, rowVars
  <2>3. ASSUME NEW d \in Days, Publish(d) \/ PublisherDies(d) \/ Tomorrow PROVE SentAsRecorded'
    BY <2>3, QuietStep DEF Publish, PublisherDies, Tomorrow, rowVars
  <2>4. ASSUME NEW d \in Days, QueueAfterPublish(d) PROVE SentAsRecorded'
    BY <2>4, QuietStep, QueueStep DEF QueueAfterPublish, IInv
  <2>5. ASSUME NEW d \in Days, Repair(d) PROVE SentAsRecorded'
    <3>1. run'.pc = "repair" /\ run.pc = "repair"
      BY <2>5 DEF Repair, IInv, TypeOK
    <3> QED
      BY <2>5, <3>1, QuietStep, QueueStep DEF Repair, DelivererFrame, IInv
  <2>6. CASE StartPass \/ SelectBatch
    <3>1. run.pc \in {"idle", "repair"} /\ run'.pc \in {"idle", "repair", "next"}
      <4>1. CASE StartPass
        BY <4>1 DEF StartPass, Idle
      <4>2. ASSUME NEW batch, run.pc = "repair", run' = Rest(batch)
            PROVE  run'.pc \in {"idle", "next"}
        <5>1. CASE batch = {}
          BY <4>2, <5>1 DEF Rest, Idle
        <5>2. CASE batch # {}
          BY <4>2, <5>2 DEF Rest, Idle
        <5> QED
          BY <5>1, <5>2
      <4> QED
        BY <2>6, <4>1, <4>2 DEF SelectBatch
    <3> QED
      BY <2>6, <3>1, QuietStep DEF StartPass, SelectBatch, DelivererFrame, rowVars
  <2>7. ASSUME NEW r \in Rows, TakeRow(r) PROVE SentAsRecorded'
    <3>1. run.pc = "next" /\ run'.pc \in {"send", "cancel"}
      BY <2>7 DEF TakeRow, IInv, TypeOK
    <3> QED
      BY <2>7, <3>1, QuietStep DEF TakeRow, DelivererFrame, rowVars
  <2>8. CASE Kill
    BY <2>8, QuietStep DEF Kill, rowVars
  <2>9. ASSUME NEW r \in Rows, BackoffElapses(r) PROVE SentAsRecorded'
    BY <2>9, QuietStep DEF BackoffElapses
  <2> QED
    BY <2>1, <2>2, <2>3, <2>4, <2>5, <2>6, <2>7, <2>8, <2>9, SendStep, RecordSentStep, Constants
    DEF Next, Pass
<1> QED
  BY <1>1, <1>2, Invariance, PTL DEF Spec
=============================================================================
