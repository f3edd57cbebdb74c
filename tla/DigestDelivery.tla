--------------------------- MODULE DigestDelivery ---------------------------
(***************************************************************************)
(* The delivery outbox (proxy/digest_deliver.py,                           *)
(* proxy/backend/digest_delivery.py) and the subscriptions it serves       *)
(* (proxy/backend/v1_digests.py).                                          *)
(*                                                                         *)
(* Editions are published as DigestEditions says; the publisher then       *)
(* queues their rows, or dies before it can.  One deliverer holds the      *)
(* advisory lock "digest-deliver": a pass repairs missing rows, takes a    *)
(* bounded batch of the rows whose time has come, and handles them one by  *)
(* one.  Each step is one transaction or one request, and users subscribe  *)
(* and unsubscribe between any two of them.                                *)
(*                                                                         *)
(* One cadence is modelled, the daily one.  next_attempt_at is abstracted: *)
(* "due" holds the rows whose time has come, and a batch takes BatchLimit  *)
(* of them in any order (the code: the oldest first).                      *)
(***************************************************************************)
EXTENDS DigestEditions, FiniteSets

CONSTANTS
    Subs,           \* subscriptions: one user, channel, cadence and wiki each
    EmailSubs,      \* those of the e-mail channel; the others are talk pages
    MaxLateness,    \* DIGEST_MAX_PUBLICATION_LATENESS_DAYS
    MaxAttempts,    \* MAX_ATTEMPTS
    BatchLimit,     \* DIGEST_DELIVERY_LIMIT
    Reposts,        \* do users post a subscription that is active already?
    MaxClicks,      \* bound: requests to subscribe or unsubscribe
    MaxKills        \* bound: deliverer runs killed

ASSUME DeliveryAssumption ==
    /\ EmailSubs \subseteq Subs
    /\ IsFiniteSet(Subs)
    /\ {MaxLateness, MaxAttempts, BatchLimit} \subseteq Nat \ {0}
    /\ Reposts \in BOOLEAN
    /\ {MaxClicks, MaxKills} \subseteq Nat

VARIABLES
    unqueued,       \* the published edition its publisher is about to queue
    active,         \* digest_subscriptions.active
    confirmed,      \* digest_subscriptions.confirmed_at, 0 for no row
    status,         \* digest_deliveries.status of each row, "none" without one
    attempts,       \* digest_deliveries.attempts
    due,            \* pending and retry rows with next_attempt_at in the past
    sent,           \* messages that reached the subscriber (external)
    run,            \* the deliverer's local state
    clicks, kills,
    since           \* history: the day a subscription was last switched on

subVars == <<active, confirmed, since, clicks>>
rowVars == <<status, attempts, due>>
vars == <<editionVars, unqueued, subVars, rowVars, sent, run, kills>>

Rows == Days \X Subs
Edition(r) == r[1]
Sub(r) == r[2]

Open == {"pending", "retry"}
Final == {"delivered", "failed", "suspended"}
Statuses == Open \cup Final \cup {"none", "cancelled"}
Phases == {"idle", "repair", "next", "send", "cancel", "delivered", "failed", "suspended"}

\* row is the row of the batch that is being handled, in a set.
Idle == [pc |-> "idle", todo |-> {}, batch |-> {}, row |-> {}]

Init ==
    /\ EditionsInit
    /\ unqueued = {}
    /\ active = [s \in Subs |-> FALSE]
    /\ confirmed = [s \in Subs |-> 0]
    /\ status = [r \in Rows |-> "none"]
    /\ attempts = [r \in Rows |-> 0]
    /\ due = {}
    /\ sent = [r \in Rows |-> 0]
    /\ run = Idle
    /\ clicks = 0 /\ kills = 0
    /\ since = [s \in Subs |-> 0]

(***************************************************************************)
(* Subscriptions                                                           *)
(***************************************************************************)
\* subscriptions_post: switched on and confirmed now, whatever it was before.
Subscribe(s) ==
    /\ clicks < MaxClicks
    /\ active[s] => Reposts
    /\ clicks' = clicks + 1
    /\ active' = [active EXCEPT ![s] = TRUE]
    /\ confirmed' = [confirmed EXCEPT ![s] = day]
    /\ since' = IF active[s] THEN since ELSE [since EXCEPT ![s] = day]
    /\ UNCHANGED <<editionVars, unqueued, rowVars, sent, run, kills>>

\* subscriptions_delete, or the signed link of a message: rows stay queued.
Unsubscribe(s) ==
    /\ active[s]
    /\ clicks < MaxClicks
    /\ clicks' = clicks + 1
    /\ active' = [active EXCEPT ![s] = FALSE]
    /\ since' = [since EXCEPT ![s] = 0]
    /\ UNCHANGED <<editionVars, unqueued, confirmed, rowVars, sent, run, kills>>

(***************************************************************************)
(* Queueing                                                                *)
(***************************************************************************)
\* _queue_deliveries_once: an edition that is still news, and the subscriptions
\* confirmed before its period ended (faults: lateness is measured against the
\* clock; confirmation against the day of publication).
LateNow(d) == day - d > MaxLateness
Late(d) == published[d] - d > MaxLateness
ConfirmedByNow(s, d) == active[s] /\ confirmed[s] # 0
EligibleFor(s, d) == active[s] /\ confirmed[s] # 0 /\ confirmed[s] <= d

\* A row of any status, a cancelled one included, is never queued again.
Missing(d) == {r \in {d} \X Subs : EligibleFor(Sub(r), d) /\ status[r] = "none"}

Queue(d) ==
    IF Late(d)
    THEN UNCHANGED rowVars
    ELSE /\ status' = [r \in Rows |-> IF r \in Missing(d) THEN "pending" ELSE status[r]]
         /\ due' = due \cup Missing(d)
         /\ UNCHANGED attempts

\* publish_edition's last transaction, then publish_pending's queue_deliveries,
\* before the next edition and within the half hour after 06:15.
Publish(d) ==
    /\ unqueued = {}
    /\ PublishEdition(d)
    /\ unqueued' = {d}
    /\ UNCHANGED <<subVars, rowVars, sent, run, kills>>

QueueAfterPublish(d) ==
    /\ d \in unqueued
    /\ unqueued' = {}
    /\ Queue(d)
    /\ UNCHANGED <<editionVars, subVars, sent, run, kills>>

\* The publisher is killed in between.
PublisherDies(d) ==
    /\ d \in unqueued
    /\ unqueued' = {}
    /\ UNCHANGED <<editionVars, subVars, rowVars, sent, run, kills>>

Tomorrow ==
    /\ unqueued = {}
    /\ NextDay
    /\ UNCHANGED <<unqueued, subVars, rowVars, sent, run, kills>>

(***************************************************************************)
(* The deliverer                                                           *)
(***************************************************************************)
DelivererFrame == UNCHANGED <<editionVars, unqueued, confirmed, clicks, kills>>

\* queue_published_editions
Published == {d \in Days : published[d] # Unpublished}

StartPass ==
    /\ run.pc = "idle"
    /\ run' = [Idle EXCEPT !.pc = "repair", !.todo = Published]
    /\ UNCHANGED <<active, since, rowVars, sent>>
    /\ DelivererFrame

Repair(d) ==
    /\ run.pc = "repair"
    /\ d \in run.todo
    /\ Queue(d)
    /\ run' = [run EXCEPT !.todo = run.todo \ {d}]
    /\ UNCHANGED <<active, since, sent>>
    /\ DelivererFrame

\* deliver_pending: the ids of one batch are read once; the pass ends with it.
Rest(batch) == IF batch = {} THEN Idle ELSE [Idle EXCEPT !.pc = "next", !.batch = batch]

SelectBatch ==
    /\ run.pc = "repair"
    /\ run.todo = {}
    /\ \E batch \in SUBSET due :
         /\ Cardinality(batch) <= BatchLimit
         /\ batch # due => Cardinality(batch) = BatchLimit
         /\ run' = Rest(batch)
    /\ UNCHANGED <<active, since, rowVars, sent>>
    /\ DelivererFrame

\* _deliver_one looks at the subscription, not at the row's status.
TakeRow(r) ==
    /\ run.pc = "next"
    /\ r \in run.batch
    /\ run' = [run EXCEPT !.row = {r}, !.pc = IF active[Sub(r)] THEN "send" ELSE "cancel"]
    /\ UNCHANGED <<active, since, rowVars, sent>>
    /\ DelivererFrame

Handling(r, pc) == run.pc = pc /\ run.row = {r}
NextRow == run' = Rest(run.batch \ run.row)

\* _current_identity and _deliver.  A talk section is only appended to a page
\* without the edition's marker (fault: the marker is not looked for); an e-mail
\* is sent whenever it is asked for.  The message may arrive and its answer not.
SentAgain(r) == sent[r] + 1
SentAfter(r) == IF Sub(r) \in EmailSubs \/ sent[r] = 0 THEN sent[r] + 1 ELSE sent[r]

Send(r) ==
    /\ Handling(r, "send")
    /\ \/ /\ sent' = [sent EXCEPT ![r] = SentAfter(r)]
          /\ \E answer \in {"delivered", "failed"} : run' = [run EXCEPT !.pc = answer]
       \/ /\ \E answer \in {"failed", "suspended"} : run' = [run EXCEPT !.pc = answer]
          /\ UNCHANGED sent
    /\ UNCHANGED <<active, since, rowVars>>
    /\ DelivererFrame

CancelRow(r) ==
    /\ Handling(r, "cancel")
    /\ status' = [status EXCEPT ![r] = "cancelled"]
    /\ due' = due \ {r}
    /\ NextRow
    /\ UNCHANGED <<active, since, attempts, sent>>
    /\ DelivererFrame

RecordDelivered(r) ==
    /\ Handling(r, "delivered")
    /\ status' = [status EXCEPT ![r] = "delivered"]
    /\ attempts' = [attempts EXCEPT ![r] = attempts[r] + 1]
    /\ due' = due \ {r}
    /\ NextRow
    /\ UNCHANGED <<active, since, sent>>
    /\ DelivererFrame

\* _record_failure: back-off, or the end after MAX_ATTEMPTS.
AfterFailure(r) == IF attempts[r] + 1 >= MaxAttempts THEN "failed" ELSE "retry"

RecordFailure(r) ==
    /\ Handling(r, "failed")
    /\ status' = [status EXCEPT ![r] = AfterFailure(r)]
    /\ attempts' = [attempts EXCEPT ![r] = attempts[r] + 1]
    /\ due' = due \ {r}
    /\ NextRow
    /\ UNCHANGED <<active, since, sent>>
    /\ DelivererFrame

\* A permanent failure of the recipient switches the subscription off and cancels
\* its other open rows (fault: all its other rows).
OtherRows(r) == {o \in Rows : Sub(o) = Sub(r) /\ o # r /\ status[o] # "none"}
OtherOpenRows(r) == {o \in Rows : Sub(o) = Sub(r) /\ o # r /\ status[o] \in Open}

RecordSuspended(r) ==
    /\ Handling(r, "suspended")
    /\ status' = [o \in Rows |-> IF o = r THEN "suspended"
                                 ELSE IF o \in OtherOpenRows(r) THEN "cancelled" ELSE status[o]]
    /\ due' = due \ (OtherOpenRows(r) \cup {r})
    /\ attempts' = [attempts EXCEPT ![r] = attempts[r] + 1]
    /\ active' = [active EXCEPT ![Sub(r)] = FALSE]
    /\ since' = [since EXCEPT ![Sub(r)] = 0]
    /\ NextRow
    /\ UNCHANGED sent
    /\ DelivererFrame

Kill ==
    /\ run.pc # "idle"
    /\ kills < MaxKills
    /\ kills' = kills + 1
    /\ run' = Idle
    /\ UNCHANGED <<editionVars, unqueued, subVars, rowVars, sent>>

\* next_attempt_at of a row in back-off passes.
BackoffElapses(r) ==
    /\ status[r] = "retry"
    /\ r \notin due
    /\ due' = due \cup {r}
    /\ UNCHANGED <<editionVars, unqueued, subVars, status, attempts, sent, run, kills>>

(***************************************************************************)
(* The specification                                                       *)
(***************************************************************************)
Pass ==
    \/ StartPass \/ SelectBatch
    \/ \E d \in Days : Repair(d)
    \/ \E r \in Rows : \/ TakeRow(r) \/ Send(r) \/ CancelRow(r) \/ RecordDelivered(r)
                       \/ RecordFailure(r) \/ RecordSuspended(r)

Next ==
    \/ Pass \/ Kill \/ Tomorrow
    \/ \E s \in Subs : Subscribe(s) \/ Unsubscribe(s)
    \/ \E d \in Days : Publish(d) \/ QueueAfterPublish(d) \/ PublisherDies(d)
    \/ \E r \in Rows : BackoffElapses(r)

Spec == Init /\ [][Next]_vars

\* The scheduler starts a pass every five minutes, one that is not killed goes on,
\* and back-offs elapse.
FairSpec == Spec /\ WF_vars(Pass) /\ \A r \in Rows : WF_vars(BackoffElapses(r))

(***************************************************************************)
(* Properties                                                              *)
(***************************************************************************)
TypeOK ==
    /\ EditionsTypeOK
    /\ unqueued \subseteq Days
    /\ active \in [Subs -> BOOLEAN] /\ confirmed \in [Subs -> Days \cup {0}]
    /\ status \in [Rows -> Statuses] /\ attempts \in [Rows -> 0..MaxAttempts]
    /\ due \subseteq Rows
    /\ sent \in [Rows -> Nat]
    /\ run \in [pc : Phases, todo : SUBSET Days, batch : SUBSET Rows, row : SUBSET Rows]
    /\ clicks \in 0..MaxClicks /\ kills \in 0..MaxKills
    /\ since \in [Subs -> Days \cup {0}]

\* docs/DIGESTS.md: talk pages get "a section carrying the edition's idempotency
\* marker".  What subscribers got agrees with the rows through lost answers, kills,
\* retries and new subscriptions: a delivered row has arrived, no talk page gets two
\* sections of an edition, and an e-mail comes again only after a failed attempt or a
\* killed run.
InHand(r) == IF run.pc \in {"delivered", "failed"} /\ run.row = {r} THEN 1 ELSE 0
SentAsRecorded ==
    \A r \in Rows :
      /\ status[r] = "delivered" \/ Handling(r, "delivered") => sent[r] >= 1
      /\ sent[r] <= attempts[r] + kills + InHand(r)
      /\ Sub(r) \notin EmailSubs => sent[r] <= 1

\* A delivered, exhausted or suspended row is never touched again, whatever is in a
\* batch, in back-off or cancelled at that moment.
FinalStays ==
    [][\A r \in Rows : status[r] \in Final => status'[r] = status[r]]_vars

\* docs/DIGESTS.md: "Delivery eligibility begins at confirmation; subscribing never
\* backfills historical editions".  A row appears only for an edition published in
\* time, and for a subscription on since before the end of its period.
NeverBackfills ==
    [][\A r \in Rows :
         status[r] = "none" /\ status'[r] # "none" =>
           /\ published[Edition(r)] # Unpublished
           /\ published[Edition(r)] - Edition(r) <= MaxLateness
           /\ since[Sub(r)] \in 1..Edition(r)]_vars

\* The same passage, the other way round: an edition published in time reaches a
\* final state for every subscription on since before the end of its period that
\* stays on, whether or not the publisher lived to queue it.
Entitled(r) ==
    /\ published[Edition(r)] # Unpublished
    /\ published[Edition(r)] - Edition(r) <= MaxLateness
    /\ since[Sub(r)] \in 1..Edition(r)
EntitledServed ==
    \A r \in Rows : Entitled(r) ~> status[r] \in Final \/ ~Entitled(r)
=============================================================================
