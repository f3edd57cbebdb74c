--------------------------- MODULE PeopleReconcile ---------------------------
(***************************************************************************)
(* backend/people_reconcile.py and the writers around it.  The mirror      *)
(* changes, retires and brings back records and queues their names; users  *)
(* claim tools; the modes of the people-reconcile job, one at a time under *)
(* its lock, drain the queue, rebuild everything, link a wiki username to  *)
(* a person, and decide the backlog again.                                 *)
(*                                                                         *)
(* A transaction is a step, except where it reads early and writes late:   *)
(* a queue row and the rebuild decide on the snapshot they started with.   *)
(***************************************************************************)
EXTENDS PeopleEvidence

CONSTANTS
    Records,        \* the author fields a record may have, sets of authors
    Nobody,
    Account,        \* the person a wiki username turns out to belong to, or Nobody
    QueueLimit,     \* rows in a batch of the queue
    ChunkSize,      \* rows in a chunk of the backlog
    MaxChanges,     \* bound: changes, retirements and returns of records
    MaxClaims,      \* bound: claims made and revoked
    MaxFails        \* bound: kills and failed rows

ASSUME ReconcileAssumption ==
    /\ Records \subseteq SUBSET Authors
    /\ Nobody \notin Persons
    /\ Account \in [Handles -> People \cup {Nobody}]
    /\ {QueueLimit, ChunkSize} \subseteq Nat \ {0}
    /\ {MaxChanges, MaxClaims, MaxFails} \subseteq Nat

VARIABLES
    live,           \* the tools with a row in canonical_tool_cache
    record,         \* their authors
    claims,         \* tool_author_claims that are not revoked, <<tool, person>>
    mapping,        \* applied person_reconciliation_mappings, or Nobody
    queue,          \* person_reconciliation_queue, oldest enqueued_at first
    unsent,         \* records committed and not yet queued
    looked,         \* usernames whose remote lookup is done
    cursor,         \* unresolved_reconverge_cursor
    pc, batch, seen,\* the job: where it is, its names, its snapshot
    spent           \* how much of each bound is used

canonVars == <<live, record, unsent>>
jobVars == <<pc, batch, seen>>
vars == <<evidenceVars, canonVars, claims, mapping, queue, looked, cursor, jobVars, spent>>

Bound == [change |-> MaxChanges, claim |-> MaxClaims, fail |-> MaxFails]
Spend(kind) == spent[kind] < Bound[kind] /\ spent' = [spent EXCEPT ![kind] = @ + 1]

Nothing == [live |-> {}, record |-> [t \in Tools |-> {}], claims |-> {}, reason |-> "none"]
Snapshot(reason) == [live |-> live, record |-> record, claims |-> claims, reason |-> reason]

Init ==
    /\ EvidenceInit
    /\ live = {} /\ record = [t \in Tools |-> {}] /\ unsent = {}
    /\ claims = {} /\ looked = {} /\ queue = <<>> /\ cursor = 0
    /\ mapping = [h \in Handles |-> Nobody]
    /\ pc = "idle" /\ batch = <<>> /\ seen = Nothing
    /\ spent = [kind \in DOMAIN Bound |-> 0]

(***************************************************************************)
(* The queue                                                               *)
(***************************************************************************)
Pending(t) == \E i \in DOMAIN queue : queue[i].tool = t
RowOf(t) == queue[CHOOSE i \in DOMAIN queue : queue[i].tool = t]
Without(q, t) == SelectSeq(q, LAMBDA row : row.tool # t)

\* enqueue_tool_names_in_session: an upsert that is due at once, with a new
\* enqueued_at.
Enqueue(t, reason) ==
    queue' = Append(Without(queue, t), [tool |-> t, reason |-> reason, due |-> TRUE])

(***************************************************************************)
(* The mirror                                                              *)
(***************************************************************************)
\* upsert_records commits the row; _queue_reconciliation follows.
Upsert(t, authors) ==
    /\ t \notin live \/ record[t] # authors
    /\ live' = live \cup {t}
    /\ record' = [record EXCEPT ![t] = authors]
    /\ unsent' = unsent \cup {t}
    /\ Spend("change")
    /\ UNCHANGED <<evidenceVars, claims, mapping, queue, looked, cursor, jobVars>>

QueueChanged(t) ==
    /\ t \in unsent
    /\ unsent' = unsent \ {t}
    /\ Enqueue(t, "canonical_fetch")
    /\ UNCHANGED <<evidenceVars, live, record, claims, mapping, looked, cursor, jobVars, spent>>

\* _publish_snapshot: a retirement and its queue row are one transaction.
Retire(t) ==
    /\ t \in live
    /\ live' = live \ {t}
    /\ record' = [record EXCEPT ![t] = {}]
    /\ Enqueue(t, "canonical_retired")
    /\ Spend("change")
    /\ UNCHANGED <<evidenceVars, unsent, claims, mapping, looked, cursor, jobVars>>

MirrorDies ==
    /\ unsent # {}
    /\ unsent' = {}
    /\ Spend("fail")
    /\ UNCHANGED <<evidenceVars, live, record, claims, mapping, queue, looked, cursor, jobVars>>

(***************************************************************************)
(* Claims                                                                  *)
(***************************************************************************)
Claimants(held, t) == {p \in People : <<t, p>> \in held}

\* sync_author_claim_edges for one tool, from the claims of the users asked for.
SyncClaims(t, people) == Commit(Replace(Store, {t}, "claim", [o \in {t} |-> people]), {t})

\* v1_tools and v1_claims pass the caller as user_ids.
OnlyCaller(held, t, p) == Claimants(held, t) \cap {p}

MakeClaim(t, p) ==
    /\ t \in live
    /\ <<t, p>> \notin claims
    /\ claims' = claims \cup {<<t, p>>}
    /\ SyncClaims(t, OnlyCaller(claims', t, p))
    /\ Spend("claim")
    /\ UNCHANGED <<canonVars, mapping, queue, looked, cursor, jobVars>>

RevokeClaim(t, p) ==
    /\ <<t, p>> \in claims
    /\ claims' = claims \ {<<t, p>>}
    /\ SyncClaims(t, OnlyCaller(claims', t, p))
    /\ Spend("claim")
    /\ UNCHANGED <<canonVars, mapping, queue, looked, cursor, jobVars>>

\* build_local_tool_summary, when a tool's page is read, syncs every claim on it.
ReadSummary(t) ==
    /\ t \in live
    /\ SyncClaims(t, Claimants(claims, t))
    /\ UNCHANGED <<canonVars, claims, mapping, queue, looked, cursor, jobVars, spent>>

(***************************************************************************)
(* The job                                                                 *)
(***************************************************************************)
\* apply_durable_mappings_for_tool moves a mapped username's evidence.
Moved(S, ts) ==
    [S EXCEPT !.ev = {IF e.tool \in ts /\ e.who \in Handles /\ mapping[e.who] # Nobody
                      THEN [e EXCEPT !.who = mapping[e.who]] ELSE e : e \in S.ev}]

\* _reconcile_tool, from the snapshot s (fault: mappings are applied before the
\* author evidence is written).
Metadata(S, ts, s) == Replace(S, ts \cap s.live, "author", s.record)
ClaimsOf(S, ts, s) == Replace(S, ts, "claim", [t \in ts |-> Claimants(s.claims, t)])
MapsFirst(S, ts, s) == ClaimsOf(Metadata(Moved(S, ts), ts, s), ts, s)
Reconcile(S, ts, s) == Moved(ClaimsOf(Metadata(S, ts, s), ts, s), ts)
Process(S, ts, s) ==
    IF s.reason = "canonical_retired" THEN Withdrawn(S, ts) ELSE Reconcile(S, ts, s)

\* process_queue lists the due names.
Due == SelectSeq(queue, LAMBDA row : row.due)
ListBatch ==
    /\ pc = "idle"
    /\ Due # <<>>
    /\ pc' = "row"
    /\ batch' = [i \in 1..(IF Len(Due) < QueueLimit THEN Len(Due) ELSE QueueLimit) |-> Due[i].tool]
    /\ UNCHANGED <<evidenceVars, canonVars, claims, mapping, queue, looked, cursor, seen, spent>>

\* The transaction of a row starts: one that is gone is skipped.
ReadRow ==
    /\ pc = "row"
    /\ IF batch = <<>> THEN pc' = "idle" /\ UNCHANGED <<batch, seen>>
       ELSE IF Pending(Head(batch))
       THEN /\ pc' = "work"
            /\ seen' = Snapshot(RowOf(Head(batch)).reason)
            /\ UNCHANGED batch
       ELSE batch' = Tail(batch) /\ UNCHANGED <<pc, seen>>
    /\ UNCHANGED <<evidenceVars, canonVars, claims, mapping, queue, looked, cursor, spent>>

\* It commits what it made of its snapshot and deletes the row, whatever the row says
\* by now.
FinishRow ==
    /\ pc = "work"
    /\ Commit(Process(Store, {Head(batch)}, seen), {Head(batch)})
    /\ queue' = Without(queue, Head(batch))
    /\ pc' = "row" /\ batch' = Tail(batch) /\ seen' = Nothing
    /\ UNCHANGED <<canonVars, claims, mapping, looked, cursor, spent>>

\* A row that raises is put off, in a transaction of its own.
FailRow ==
    /\ pc = "work"
    /\ queue' = [i \in DOMAIN queue |-> IF queue[i].tool = Head(batch)
                                       THEN [queue[i] EXCEPT !.due = FALSE] ELSE queue[i]]
    /\ pc' = "row" /\ batch' = Tail(batch) /\ seen' = Nothing
    /\ Spend("fail")
    /\ UNCHANGED <<evidenceVars, canonVars, claims, mapping, looked, cursor>>

BackoffElapses(t) ==
    /\ \E i \in DOMAIN queue : queue[i].tool = t /\ ~queue[i].due
    /\ queue' = [i \in DOMAIN queue |-> [queue[i] EXCEPT !.due = @ \/ queue[i].tool = t]]
    /\ UNCHANGED <<evidenceVars, canonVars, claims, mapping, looked, cursor, jobVars, spent>>

\* run with rebuild_tools: every tool that has a record, a claim or evidence (fault:
\* only those with evidence).
EvidenceTools == {e.tool : e \in evidence}
PlannedTools == seen.live \cup {claim[1] : claim \in seen.claims} \cup {e.tool : e \in evidence}
StartRebuild ==
    /\ pc = "idle"
    /\ pc' = "rebuild"
    /\ seen' = Snapshot("rebuild")
    /\ UNCHANGED <<evidenceVars, canonVars, claims, mapping, queue, looked, cursor, batch, spent>>

FinishRebuild ==
    /\ pc = "rebuild"
    /\ Commit(Reconcile(Store, PlannedTools, seen), Tools)
    /\ pc' = "idle" /\ seen' = Nothing
    /\ UNCHANGED <<canonVars, claims, mapping, queue, looked, cursor, batch, spent>>

\* resolve_remote_batches asks about usernames with edges, before the lock is taken.
LookUp(h) ==
    /\ h \notin looked
    /\ mapping[h] = Nobody
    /\ activity[h] # {}
    /\ looked' = looked \cup {h}
    /\ UNCHANGED <<evidenceVars, canonVars, claims, mapping, queue, cursor, jobVars, spent>>

\* discover_identity_candidates records the answer and apply_mapping moves the
\* evidence the username has by now.
Link(h) ==
    /\ pc = "idle"
    /\ h \in looked
    /\ looked' = looked \ {h}
    /\ mapping' = [mapping EXCEPT ![h] = Account[h]]
    /\ LET Is(e) == e.who = h /\ Account[h] # Nobody
           ts == {e.tool : e \in {x \in evidence : Is(x)}}
       IN  Commit([Store EXCEPT !.ev = {IF Is(e) THEN [e EXCEPT !.who = Account[h]] ELSE e :
                                          e \in evidence}], ts)
    /\ UNCHANGED <<canonVars, claims, queue, cursor, jobVars, spent>>

\* _reconverge_batch: the next open rows on whose tool another source proves somebody.
Eligible == {i \in DOMAIN backlog :
               /\ backlog[i].open
               /\ \E e \in evidence : Supports(e, backlog[i].tool, "author")}
Chunk == LET ahead == {i \in Eligible : i > cursor}
         IN  {i \in ahead : Cardinality({j \in ahead : j < i}) < ChunkSize}

\* The cursor goes to the last row read, and back to the head after a short chunk
\* (fault: every pass starts at the head).
FromTheHead(chunk) == 0
NextCursor(chunk) == IF Cardinality(chunk) < ChunkSize THEN 0 ELSE Max(chunk)

Reconverge ==
    /\ pc = "idle"
    /\ LET after == Promote(Store, Chunk)
       IN  Commit(after, {backlog[i].tool : i \in {j \in Chunk : ~after.log[j].open}})
    /\ cursor' = NextCursor(Chunk)
    /\ UNCHANGED <<canonVars, claims, mapping, queue, looked, jobVars, spent>>

JobDies ==
    /\ pc # "idle"
    /\ pc' = "idle" /\ batch' = <<>> /\ seen' = Nothing
    /\ Spend("fail")
    /\ UNCHANGED <<evidenceVars, canonVars, claims, mapping, queue, looked, cursor>>

Incremental == ListBatch \/ ReadRow \/ FinishRow

Next ==
    \/ \E t \in Tools : \E authors \in Records : Upsert(t, authors)
    \/ \E t \in Tools : QueueChanged(t) \/ Retire(t) \/ ReadSummary(t) \/ BackoffElapses(t)
    \/ \E t \in Tools, p \in People : MakeClaim(t, p) \/ RevokeClaim(t, p)
    \/ \E h \in Handles : LookUp(h) \/ Link(h)
    \/ Incremental \/ FailRow \/ StartRebuild \/ FinishRebuild \/ Reconverge
    \/ MirrorDies \/ JobDies

Spec == Init /\ [][Next]_vars

\* A job that is not killed goes on; the queue and the backlog come up again and again
\* although other modes take the lock in between; a process that committed a row goes
\* on to queue it.  Whether the weekly rebuild runs is left to the properties.
FairSpec ==
    /\ Spec
    /\ SF_vars(ListBatch) /\ WF_vars(ReadRow \/ FinishRow)
    /\ WF_vars(FinishRebuild)
    /\ SF_vars(Reconverge)
    /\ \A t \in Tools : WF_vars(QueueChanged(t)) /\ WF_vars(BackoffElapses(t))

(***************************************************************************)
(* Properties                                                              *)
(***************************************************************************)
\* What is published about a tool is what its current evidence says: whoever wrote,
\* no edge outlives its evidence and no evidence lacks its edge.
EdgesAreEvidence ==
    \A t \in Tools, p \in Persons :
      p \in edges[t] <=> \E e \in evidence : e.tool = t /\ e.who = p

\* The directory's summary of a person counts the tools that person has an edge to,
\* though only those a transaction believes it affected are recounted.
ActivityAgrees == \A p \in Persons : activity[p] = {t \in Tools : p \in edges[t]}

\* apply_durable_mappings_for_tool: "reapply [...] mappings after an evidence refresh".
\* A username that was linked to a person never holds evidence again, however often a
\* record that names it is read again.
MappingHolds == \A e \in evidence : e.who \in Handles => mapping[e.who] = Nobody

\* A label is attributed or waits in the backlog, never both.
OneVerdict ==
    \A i \in DOMAIN backlog :
      backlog[i].open =>
        ~\E e \in evidence : e.tool = backlog[i].tool /\ e.of = backlog[i].label

\* What the directory shows is one consistent answer, whichever of the writers came last.
IndexAgrees == EdgesAreEvidence /\ ActivityAgrees /\ OneVerdict

\* The index follows the mirror: once records rest, each author a record names is
\* attributed or in the backlog, and nobody else is, although queue rows are lost,
\* fail, or are deleted for a change they did not see; the weekly rebuild mends that.
Attributed(t) == {e.of : e \in {x \in evidence : x.tool = t /\ x.source = "author"}}
Waiting(t) == {backlog[i].label : i \in {j \in DOMAIN backlog : backlog[j].tool = t /\ backlog[j].open}}
RecordsReflected ==
    []<><<FinishRebuild>>_vars =>
      \A t \in Tools : <>[](t \in live => Attributed(t) \cup Waiting(t) = record[t])

\* reconverge_attributions: "a permanently unresolvable row cannot starve the ones
\* behind it".  A label that another source proves does not wait for ever, rebuild or
\* not.
LabelsResolve ==
    \A t \in Tools, l \in Labels :
      []<>~(l \in Waiting(t) /\ Corroborated(evidence, t, l, "author") # {})
=============================================================================
