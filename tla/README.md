# TLA+ specifications of Toolhub Evolved

Toolhub Evolved mirrors the official Toolhub catalog on Toolforge, publishes digests of what was
added, reads the tools' repositories, gadgets and user scripts, works out who is behind them, and lets
people edit on top of it. Most of what can go wrong in it goes wrong *between* steps: scheduled jobs
talk to an upstream that changes while it is being read, are killed at their timeout, repeat what they
did, and hand work to each other through database rows. This directory holds specifications of those
parts, the TLC configurations that check small instances, and TLAPS proofs of what matters most for
every instance.

- [What the system consists of](#what-the-system-consists-of)
- [What makes it hard](#what-makes-it-hard)
- [The modules](#the-modules)
- [The runs](#the-runs)
- [Fairness](#fairness)
- [What is proved](#what-is-proved)
- [What is only model-checked](#what-is-only-model-checked)
- [Assumptions, and what the code does without them](#assumptions-and-what-the-code-does-without-them)
- [What is left out](#what-is-left-out)
- [Running it](#running-it)

Paths below are relative to the repository (`src/`).

## What the system consists of

A Flask service (`proxy/app.py`, `proxy/backend/*`) and about twenty jobs (`jobs.yaml`) share one
MariaDB database (`proxy/backend/models.py`). Jobs and service never call each other; they meet in
tables, advisory locks and the response cache.

| Component | State it keeps | Operations | Module |
| --- | --- | --- | --- |
| Catalog synchronisation (`proxy/catalog_sync.py`) | `tool_catalog_sync_state`: cursor, checkpoint, retry lists, lane positions, snapshot position | backfill, recent updates, hydration, reconciliation, complete snapshot | `CatalogSync` |
| Canonical tool store (`proxy/backend/canonical_tools.py`, `toolhub.py`) | `canonical_tool_cache`, `catalog_snapshot_stage` | upsert, stage, publish, prune, discard | `CatalogSync`, partly |
| Response cache (`proxy/backend/api_cache.py`, `proxy/cache_invalidation.py`) | `api_cache` | get, put, poll recent changes, invalidate a tool | `CatalogSync`, partly |
| Digest editions (`proxy/backend/digests.py`, `proxy/digest_publish.py`) | `tool_activity_events`, `digest_editions`, `digest_edition_tools` | capture, due periods, draft, store, publish | `DigestEditions`, `DigestPublish` |
| Delivery outbox (`proxy/backend/digest_delivery.py`, `v1_digests.py`, `wikimedia_delivery.py`) | `digest_subscriptions`, `digest_deliveries` | subscribe, unsubscribe, queue, repair, deliver, suspend | `DigestDelivery` |
| Job guard (`tools/job_guard.sh`, `job_watchdog.py`) | lock directory, breaker file | take, refresh, reclaim the lock; trip and reset the breaker | `JobGuard` |
| Job runner (`proxy/backend/job_runner.py`, `db.py`) | advisory locks | claim intent, wait, run, retry | `JobLock`, `JobRuns` |
| People reconciliation (`proxy/backend/people_reconcile.py`, `people_index.py`, `maintainer_index.py`) | a queue, evidence, backlog, edges, activity | enqueue, drain, rebuild, link, reconverge, claim | `PeopleEvidence`, `PeopleReconcile` |
| Official-first writes (`proxy/backend/write_lifecycle.py`, `write_persistence.py`, `v1_write.py`) | local overrides and drafts | write upstream, fall back, retry, discard, delete | `WriteRows`, `Writes` |
| OAuth sessions (`proxy/backend/oauth.py`, `token_crypto.py`) | encrypted token pairs | sign in and out, refresh a rotating token | `Grants` |
| Derived snapshots (`proxy/backend/catalog_projection.py`, `catalog_facets.py`, `toolinfo_enrichment.py`) | projection, facet and graph rows | merge the sources, refresh, sweep, probe | `ProjectionMerge`, `Projection`, partly |
| Repository scanning (`proxy/repository_scan.py`) | `repository_analysis_state` | pace two lanes, look at a head, clone, analyse, store | `ScanVerdicts`, `Scans` |
| User script sweep (`proxy/backend/userscript_*.py`, `userscripts.py`) | pages, directory, a position per wiki | sweep, watch, store, project, catalogue | `ScriptDirectory`, `Userscripts` |
| Inference enrichment and the gadget lane (`proxy/backend/inference_enrichment.py`, `gadget_*.py`, `wiki_schedule.py`) | inventory, readings, a due time per wiki | census, read code, ask, store an answer | `LaneSchedule`, `Gadgets`, `Readings` |
| Account mirrors (`proxy/account_sync.py`, `toolforge_account_sync.py`) | account projections, a page position | read a page, prune, replace | `AccountMirrors` |
| Identity graph (`proxy/backend/identity_graph.py`, `account_linking.py`, `wikimedia_user_reconciliation.py`) | people, identifiers, bindings | ensure, attach, bind, merge, link | `PersonIdentity`, `Identity` |
| Schema migration (`proxy/migrate.py`) | the schema, retired rows | one-off steps at deployment | `DigestPublish!Retire` only |
| Front-end store (`public_html/lib/core/store.js`, `serversync.js`), views; read API | page-local lists | edit, push; read, render | none |

`PROJECT.json` lists the components with their status, and under `hazards` the lines where the
difficulties below bite, with the properties that would catch them going wrong.

What makes each correct, in one line: the **mirror** misses no change, loses no creation, retires only
what Toolhub dropped, and converges once Toolhub rests; **editions** are written once per period,
published once, over nobody else's page; the **outbox** serves whoever is entitled, nobody else, and
repeats itself only when it cannot know; the **runner** runs one instance of a job and starves none; a
**write** is neither lost nor reported wrongly; the **people index** is its evidence and follows the
records; a **projection** agrees with its facets and with the merge; a **verdict** about a commit is what
that commit holds; a **census** ends as the wiki is; an **answer** stands for the text it was asked about;
an **account** belongs to one person, and no later writer moves it.

## What makes it hard

- *An upstream that moves.* `/api/recent/` is paginated by offset and newest first, so every event
  shifts all pages; `/api/tools/` shifts when a tool appears or disappears; account listings, wiki
  page lists and recent changes do the same. A scan takes several fetches and several runs.
- *Kills.* Jobs have timeouts (300 to 1800 s); what a run keeps in local variables is gone, what it
  committed or sent stays. Nearly every operation is several transactions and several requests.
- *Lost answers.* A page edit, an e-mail, a talk section or a write to Toolhub may have arrived although
  the call failed.
- *Decisions from old reads.* Publisher, deliverer, the people job, the projection and the scanner act
  on lists and snapshots they read earlier; a `HEAD` is read once before a decision and once by the
  clone.
- *Two of a kind.* An operator scans beside the worker; two pods of one job, two tabs of one user, a
  sweep and a writer's own refresh overlap.
- *Repair at a distance.* Silent losses are meant to be caught by a later pass of something else: a
  reconciliation lane, a weekly rebuild, a sweep, the next snapshot.

## The modules

A component's state, actions and properties are in one module, which may extend another that holds
the data it works on. `MC*` modules give the constants of an instance; `*Proofs` modules hold theorems:
one per subject, but `PublicationProofs`, which holds those of `DigestPublish` and of `Identity`, two
unrelated ways of publishing what a job has worked out.

| Modules | What they are |
| --- | --- |
| `CatalogSync` | the mirror: all lanes of `catalog_sync.py` with the storage, cache and digest calls they make |
| `DigestEditions` | what publication promises to the outbox: two variables and two actions, no wiki, no passes |
| `DigestPublish` | drafting and publication; implements `DigestEditions` |
| `DigestDelivery` | the outbox and subscriptions, built on `DigestEditions` |
| `JobGuard`, `JobLock`, `JobRuns` | the shell guard; the child's advisory locks; both together, with faults |
| `PeopleEvidence`, `PeopleReconcile` | how observations become evidence, backlog and edges; the queue, the modes of the job, and the writers beside it |
| `Grants`, `WriteRows`, `Writes` | the stored token pair; what is kept locally and at Toolhub; requests, one step at a time |
| `ProjectionMerge`, `Projection` | the precedence of sources; the transactions that write what pages serve |
| `ScanVerdicts`, `Scans` | what is on file about a repository; the scanner's lanes and a second scanner |
| `ScriptDirectory`, `Userscripts` | which pages are one script; the sweeps, watches and projections of one wiki |
| `LaneSchedule`, `Gadgets`, `Readings` | which wiki is next; census and code job; the inference sweep |
| `PersonIdentity`, `AccountMirrors`, `Identity` | operations on the graph of persons; mirrored accounts; everything that binds them |

How they meet. `CatalogSync` captures creations (`capture_recent_rows`) into the store that
`DigestPublish` drafts from; there, *when* a creation is captured is left free. `DigestPublish` shows
by refinement that it keeps the promise of `DigestEditions`, and `DigestDelivery` uses the actions of
`DigestEditions` in place of the whole publisher. So the outbox is checked with every publication
schedule the promise admits, without the publisher's states. `JobGuard` and `JobLock` share the pods:
a child exists only under its guard. The records that `CatalogSync` writes are, for
`PeopleReconcile`, changes that enqueue a name; for `Scans`, an edit of a URL; for `Projection`, new
evidence: each of those takes any record from a small set.

Some definitions come in pairs, such as `FirstScanPage` and `FirstScanPageAfter`. The second is a
plausible mistake in the code the first models; no specification uses it. Replacing the one by the
other makes the property it belongs to fail, which is how every property is shown to depend on the
code (`mutants` in `PROJECT.json`).

### CatalogSync

One run at a time (the advisory lock `toolhub-evolved:catalog-sync`, which this module, like those of
the other jobs, takes to hold; see `JobLock`). `pc` says where the run is;
every fetch and every transaction is an action, so Toolhub may move, the cached details expire, the
poll of `cache_invalidation.py` run, and the job be killed (`Fail`) between any two.

- *Toolhub* (external): `feed` is every event ever published, oldest first; `FeedPage(p)` is the
  newest-first page with the oldest `trimmed` events gone; `ListingPage(p)` the p-th page of the live
  tools by name.
- *Recent lane* (`_recent_updates`, `_recent_rows_since`): `StartRecent`, `ScanMeetsCursor`,
  `ScanGoesOn`, `ScanTooDeep`, `StoreAnchor`, `Capture`, the details (`DetailRefreshed`, `DetailGone`,
  `DetailFails`) and `StoreProgress`. A scan that does not meet the cursor within
  `MaxPagesPerRun` pages stores a checkpoint (page, newest marker, boundary) and goes on in the next
  run one page earlier.
- *Cursor recovery* (`_prepare_recent_cursor_recovery`): the depth guard or a trimmed feed loses the
  cursor; the lane opens a complete snapshot and puts the cursor on the newest marker when it is
  published.
- *Backfill, hydration, reconciliation*: `BackfillFetch`/`BackfillStore`, `Hydrate`,
  `ReconcileDue`/`ReconcileFetch`/`ReconcileStore`.
- *Complete snapshot* (`run_complete`): `BeginSnapshot`, `SnapshotFetch`, `SnapshotStage`,
  `SnapshotAdvance`, `PublishSnapshot`, `EvictRetired`, `RestartSnapshot`, `PublishRefused`.
- *Data*: an event is its position in the feed; a record is the position of the last event of its tool
  that it reflects (`Absent` without a row), so "stale" is a comparison of numbers. `Upserted` sets it
  as a whole; the code merges a record into the row (`_merge_listing_record`), so what is shown is that
  the row reflects the last event, not that a field emptied upstream is emptied here.
- *History variables* (`anchor`, `unasked`, `abandoned`, `steady`) feed properties only.

`NoGap` is stated against Toolhub's answers: `unasked` holds the tools with an event that no fetch of a
detail or listing covered yet. If the cursor has passed the last event of such a tool, the tool must be in
the retry list. A cached answer counts as an answer here. `CreationsCaptured` exempts events that Toolhub
had already dropped and those the depth guard gave up (`abandoned`): both are the code's documented limits.

### DigestEditions, DigestPublish

Days are numbered; the daily period *d* is day *d*, closed on day *d* + 1. `DigestEditions` has two
variables, today and the day each edition was published, and two actions.

`DigestPublish` has one publisher (lock `digest-publish`). A pass reads the due periods (`StartPass`),
drafts (`Draft`, reading the creations captured so far), stores (`StoreEdition`), lists the retryable
editions (`ListPending`), and for each reads the wiki page (`ReadPage`), edits (`EditPage`) and stores
the result (`Record`). Around it: `Capture` of late creations, `StrangerCreatesPage`, the
deployment's `Retire` (`_retire_out_of_scope_digest_editions`), `WikiFails` (a transient error, before
or after the edit arrived), `Kill`, and midnight, which no pass crosses (it starts at 06:15 and is
killed after half an hour). A wiki page is missing, ours (with the marker) or foreign.

### DigestDelivery

One deliverer (lock `digest-deliver`). `StartPass` and `Repair` are `queue_published_editions`,
`SelectBatch` the query of `deliver_pending`, `TakeRow`, `Send` and one of `CancelRow`,
`RecordDelivered`, `RecordFailure`, `RecordSuspended` are `_deliver_one`. The publisher's half is
`Publish`, then `QueueAfterPublish` or `PublisherDies`; users `Subscribe` and `Unsubscribe` at any
time. `next_attempt_at` is abstracted to the set `due` of rows whose time has come; a batch takes
`BatchLimit` of them in *any* order (the code: oldest first), which only adds behaviours.
`since` is history: the day a subscription was last switched on.

Times are compared as the code does: publication happens after 00:00, so
`published_at - period_end > L days` is `published[d] - d > L`, and `confirmed_at <= period_end` is
`confirmed[s] <= d`. `EntitledServed` speaks of subscriptions that stay on, and of editions published in
time. It must hold although the publisher may die before queueing: the deliverer's repair decides by
the stored day of publication, which is why `DigestEditions` promises that this day never changes.

### JobGuard, JobLock, JobRuns

A pod is a slot for an invocation of one job. `JobGuard` is the shell script around it: `Invoke` (mkdir, or
a decision about an existing lock directory), `RemoveStale` and `RetakeLock` (reclaiming a directory whose
heartbeat stopped), `Refuse` (breaker open), `StartChild`, `StoreState`, `Release`, and `Vanish` or
`Terminate` when the pod dies. `JobLock` is `run_job` with `advisory_lock`: `Enter`, `TakeIntent`,
`TakeMutex`, `GiveUp`, `WaitRunsOut`, `LoseRowLock`, `NoticeDrop`, `Retry`, `Finish`, `BodyFails`. Locks
live on a connection of their own, so a cut connection frees the lock while the body may still be working:
`ServerDrops` closes every connection, `LockConnectionDrops` the idle one alone. A body either meets the
loss in its next statement (`NoticeDrop`, and the run is repeated from the start) or does not (`adrift`):
between two transactions the pool reconnects (`pool_pre_ping`), and `process_queue` counts a failed row and
takes the next. A body that is adrift `Works` on without the lock to its end, beside whoever takes the lock
next. `OneBody` is about the bodies that hold their lock's session; that *all* bodies exclude each other, as
`docs/RUNBOOK.md` says of the people jobs, is not so. The models of the single jobs have one process per
lock, which is `OneBody`: what an adrift body does to the tables beside a second one they do not say.
`JobRuns` composes the two modules and bounds the faults. Time is reduced to two facts per job: the lock
directory has gone stale (`LockAges`), the retry delay of the breaker is over (`Cools`).

### PeopleEvidence, PeopleReconcile

Every source states observations about a tool. One that identifies a person becomes evidence; a bare
label becomes evidence only when an independent source proves that the person so named holds this
tool, and waits in the backlog otherwise. `Replace` is `replace_source_evidence`, `Commit` the
transaction that ends with the resolution of the affected tools (edges and summaries). A queue row is
decided on a snapshot read by `ReadRow` and committed by `FinishRow`; so is the weekly `StartRebuild`
/ `FinishRebuild`; between the two the mirror may change, retire or return records
(`Upsert`, `Retire`), users claim (`MakeClaim`, `RevokeClaim`), and the other modes run (`Link` with
durable mappings, `Reconverge` over a chunk of the backlog). `JobDies` and `MirrorDies` cut in anywhere.

### Grants, WriteRows, Writes

A request takes its steps one at a time: `Route`, `ReadGrant` (or `RevokeUnreadable`), `RefreshGrant`,
`StoreRefreshed`, `Call`, then `Persist` (accepted) or `Refuse`/fallback. Toolhub may reject, be away
or lose its reply; grants expire, are withdrawn, or become unreadable when the key rotates; another
tab, `SignIn` by any browser at any moment, `SignOut` in two transactions and `Kill` fall in between.
`crossed` remembers that the last sign-in came between the two transactions of a sign-out, which stores
a grant and leaves its cookie stranded. The content of a write is a number that
grows with every write of the user. `told`, `settled` and `wrote` are history: what the user was told
is kept, what Toolhub took or he let go of, the newest content.

### ProjectionMerge, Projection

The merge is reduced to two fields that stand for the rest: a scalar URL that owners may edit and a
list that a fill-only source may extend. Transactions read a snapshot when they begin and write when
they commit; `Collide` is the duplicate key that two of them run into, `BatchFails` a failing batch, after
which `MarkGraphFailure` and `MarkFailure` store the error in transactions of their own. `SweepGraph`
and `SweepProjection` are the scheduled repairs, `ReadNeverProbed`/`ReadProbed`/`RecordProbe` the link
probe. A projection row is written as the session's UPDATE does: only the columns whose value differs from
what the batch read (`Written`), while its facets are written in full. `overtaken` remembers that the
last batch to commit found the row's record changed behind its back; until the next batch the row may
then be neither its own nor the other's, beside facets of its own. `clock` counts the moments a report
is stored or reviewed; with `Coarse` a report may bear the stamp of a refresh that did not see it, as two
moments of one second do. The times among the merge's sources are left out.

### ScanVerdicts, Scans

`run_continuous` is `Start` and `Take` (which of the two lanes is next, and its queue); a scan goes
through `SettleWithoutRequest` or `RepositoryHead`, `Decide`, `Acquire` (the clone reads the head
again), `StoreReport`/`StoreRefused`, `RefreshCaches`. `ForceScan` is an operator's scan of one tool at
the same time. Outside: `Edit` of a record, `Push`, `GoDown`/`ComeBack`, `Dies`, `Kill`, and a
*poisonous* repository that kills whoever clones it (`Poisoned`). `Content` says of every commit
whether it holds source; the analyzers are not modelled.

### ScriptDirectory, Userscripts

A sweep names every script page (`Enumerate`, or `EnumerateFallback` by search), reads the changed
ones in chunks over several runs (`IngestChunk`, `IngestLagged`, `FinishSweep`), and marks what is
gone (`MarkMissing`). A watch follows recent changes by windows (`ReadWindow`, `NextWindow`,
`FinishWatch`, `FinishBehind`). Each run then dates pages (`Stamp`), folds copies (`Project`, the
`Collapse` of `ScriptDirectory`) and brings the catalogue in step (`Synchronize`). Outside: `Save`,
`Delete`, `Equip` (credentials for the replica appear). A body is the set of its own lines and the pages
it loads. The names of initial state and steps carry the prefix `Census`, because the proofs of the
jobs extend this module beside `JobRuns`.

### LaneSchedule, Gadgets, Readings

`LaneSchedule` orders the wikis of a run and computes when a wiki is due again (cadence, backoff). `Gadgets`
is the census of one wiki (read the definitions, date them, transcribe, settle), the registry's refresh, and
the job that reads the code of stale gadgets. A gadget is a line of a page; it has a storage key and a
`Spelling` (names that differ in case share it), and of the lines that share one only the last gets the
description (`Described`), while the first is stored. A page that was not read, or is `blank`, retires
nothing. `Readings` is the inference sweep: `OpenWindow` picks candidates alternately from scripts and
gadgets by tiers, `AskAccepted`, `AskUnparsed`, `AskFailed` store an answer. A text is represented by what
identifies it; a stored value by the text it was read from, so "an answer to another text" is an inequality.
A script may return to an earlier version; a gadget's code does not (every save is a new stamp).

### PersonIdentity, AccountMirrors, Identity

A graph value holds identifiers, persons and bindings, because a transaction changes it in many steps
and commits once. `AccountMirrors` reads Toolhub's accounts page by page over several runs and prunes
what the finished generation did not see, and replaces LDAP's in one transaction. `Identity` has the
four writers that bind: the projection refresh in two transactions (`ReadInput`, `Publish`), the
user-space rule (`PublishUserSpace`), sign-ins, and challenges signed with an ssh key; plus the weekly
`Rebuild` and markers that make later runs skip work when their input is unchanged. `refresh` is a set:
each refresh under way holds the fingerprint it read, several may be (a deployment starts one outside
the guard), and the mirrors move between the read and the publication.

## The runs

All runs pass and are exhaustive within their bounds. The numbers are distinct states.

| Run | Question | Bounds | States |
| --- | --- | --- | --- |
| `CatalogSync_recent` | Does the search for the cursor ever leave it behind, is a change passed over, a creation missed? | feed pages of 1, 3 pages a run, depth guard 4, retry list 1; 2 tools (one may be edited, removed, come back), 5 events, 1 creation, 1 removal, 1 trimmed, 1 kill | 3.96 M |
| `CatalogSync_snapshot` | Can a complete snapshot, interrupted and resumed, retire a tool that stayed? Does the mirror converge? | 2 tools, listing pages of 1, feed pages of 2, 1 event, 1 removal, 2 kills, with the integrity and polling jobs | 494 k |
| `DigestPublish_pass` | Is every edition drafted and published once, over nobody's page, as promised to the outbox? | 5 days, horizon 2, 2 editions a pass; period 1 malformed, 2 refused by the wiki, 3 may be squatted; 3 kills or lost answers | 51 k |
| `DigestDelivery_rows` | Do rows, messages and subscriptions agree, and is everyone served who is entitled to be? | one subscriber of either channel, 3 days, lateness 1, 2 attempts, batches of 1, 4 clicks, 1 kill | 192 k |
| `JobRuns_fair` | Do children and bodies exclude each other, and does the waiting job come back? | a job with two pods and one that waits; one each of kill, dropped connection (seen or not), timeout, breakage; breaker after 1 failure | 380 k |
| `People_index` | Does the index agree with its evidence, and follow the mirror? | 1 tool, 2 people, 1 username, 2 labels; 2 changes, 2 claims, 1 failure; queue and chunk of 1 | 48 k |
| `Writes_rows` | Is a user's work ever lost, a row wrong about Toolhub, a grant left behind? | 1 tab, 2 contents, 3 token pairs, 2 ids, 3 upsets | 1.9 M |
| `Projection_sweeps` | Do overlapping transactions leave a consistent row, and a good one in the end? | 1 tool, 2 changes of evidence from 3 starting points, 1 fault, 1 writer beside sweep and probe | 351 k |
| `Scans_lanes` | Is a verdict true of its commit, right in the end, and reached despite a poisonous repository? | 2 tools, 2 clones, 1 web page, 1 unsupported URL, 2 heads, 2 upsets | 342 k |
| `Userscripts_census` | Is what is stored the wiki, and is the directory made of it sound? | 3 pages, chunks and windows of 2, 2 edits, 1 trouble | 1.45 M |
| `Readings_lanes` | Is anything put down that nobody said, is every text asked about, and does the catalogue end as its wiki declares? | 2 wikis of one section, 3 gadgets of two keys, 2 files, 1 script of 2 versions, 1 edit, 1 trouble | 1.18 M |
| `Identity_graph` | Does a writer take an id from its owner, and can a marker be trusted? | 2 Toolhub accounts, 1 developer account (connected to a Wikimedia account, or renamed), 2 global ids, listing pages of 1, 1 refresh between read and publication, 2 changes of the outside world | 707 k |

Why the bounds are enough to be interesting. A scan of the feed needs a second run (more than
`MaxPagesPerRun` pages), an event arriving between its fetches, and the overlap page: five events on
pages of one. Losing the cursor needs `MaxScanPages` or a trimmed event. A full retry list needs one name
more than `MaxDetails`. A snapshot needs two pages and a removal between them. A lost answer followed by
a kill needs two failures; the third lets another edition be hit. The outbox needs an edition that is
late, one in time and one before the subscription: three days; exhausting a row needs two attempts; a
batch needs a row left outside it. Exclusion in the guard needs a third invocation while a first is
reclaimed; one pod slot per waiting job suffices because an invocation that ends frees its slot. An old
snapshot in the people job needs a change *and* a claim after it. A merge conflict in the projection
needs two transactions and a report between their reads. A verdict on the wrong commit needs a push
between head and clone: two heads. A census over several runs needs more pages than a window. Two
gadgets of one key need two declarations. The conditions the code compares (cursor above, at, below a
page's end; lateness equal to and above the limit; attempts at and below the maximum; chunk full and
not full) all occur on both sides.

Deadlock is checked except in `Projection`, `Readings`, `Scans`, `Userscripts` and `Writes`: with the
bounded edits used up and nothing left to do, those really stop. `DigestDelivery_rows` uses `MCSpec`,
which lets only one subscription be made, of either channel: the module's rows of two subscriptions
share nothing but the batch.

What the runs exclude beside the hypotheses [below](#assumptions-and-what-the-code-does-without-them). One
period is malformed where a pass may draft two, so as many periods failing for ever as a pass has places
(`digests.py:1198`), which would keep the others waiting, do not occur. In `Readings_lanes` one field is
asked for, and of the edits `Few` keeps those that differ. The fingerprint of a gadget's code never
returns to an old value. `Identity_graph` has one refresh at a time between its read and its publication;
with `Refreshes = 2` it passes as well, in 1.9 million states, and the theorems are for any number. No run
has an integrity snapshot open when the cursor is lost: with 2 tools, listing and feed pages of 1, depth
guard 1, 3 events, 1 kill and `Integrity = TRUE`, `NoGap` passes in 2.04 million states, and
`NothingPassedOver` proves it.

## Fairness

Kills, upstream errors, edits, strangers, clocks that may stop: none of these is fair; each is bounded,
which is what "once the world rests and runs stop failing" means.

- `CatalogSync!FairSpec`: `WF(Progress)`, a run that is not killed goes on and cron starts the next
  one. `SF(ReconcileDue)` and `SF(StartIntegrity)`: the interval and the schedule keep coming up
  between runs, although each run disables them for its duration. `WF(CacheExpires(t))`: entries have a
  lifetime.
- `DigestPublish!FairSpec`: `WF(Pass)`. The schedule is daily and passes end before midnight.
- `DigestDelivery`: `WF(Pass)` (every five minutes) and `WF(BackoffElapses(r))` (a time in the future
  becomes the past). Wiki answers are not fair: every attempt may fail, and a row is then exhausted,
  which counts as served.
- `JobRuns!FairSpec`: `WF(PodStep(p))` (cron goes on starting pods, a living pod goes on), and the two
  facts about time, `LockAges` and `Cools`. A waiter whose place was lost with its connection is in that
  as well: `GET_LOCK` has a timeout, so it gets the lock or gives up, and the next invocation books the
  place again. Without that a job that asks every minute could keep it out for ever. A broken job need
  not be mended: `WaitingJobRuns` has that as its hypothesis.
- `PeopleReconcile!FairSpec`: weak for what a running mode does next, `SF(ListBatch)` and
  `SF(Reconverge)` because the modes share a lock and each start disables the others. That the weekly
  rebuild goes on completing is a hypothesis of `RecordsReflected`, not part of the specification.
- `Projection!FairProjection`: weak for each process's steps (`GoesOn`), the two sweeps, the probe and
  `BackoffEnds`.
- `Scans!FairSpec`: weak for the worker's loop (`Start`, `Take`), for a scan's steps (or the death a
  poisonous repository causes), for backoffs and for hosts that come back.
- `Userscripts`: the lane runs again and again (`[]<><<Run>>_censusVars`).
- `Readings`: each of the lanes (census, registry refresh, code job, sweep, due time) infinitely often
  acts or finds nothing to do.
- `Writes`, `Identity`: safety only.

## What is proved

For every value of the constants, from the assumptions named next to their declaration (sizes are
positive, bounds are naturals, sets of tools and subscriptions are finite). Every theorem has the same
last step: the initial states satisfy an inductive invariant, every step keeps it, it implies the
property, and `PTL` puts the three together. "States" names the property of a run that the theorem is
about: the run shows it on an instance, the theorem for all.

| Theorem | States |
| --- | --- |
| `CatalogProofs!TypeCorrect` | `TypeOK` |
| `CatalogProofs!SearchCorrect` | `ScanNeverOvershoots` |
| `CatalogProofs!CursorNeverBack` | `CursorMovesForward` |
| `CatalogProofs!CreationsInStore` | `CreationsCaptured` |
| `CatalogProofs!NothingPassedOver` | `NoGap`, if Toolhub removes no tool while a recovery is open |
| `CatalogProofs!OnlyGoneRetired` | `NoLiveToolRetired`, if Toolhub removes no tool while a snapshot is open |
| `CatalogProofs!RowsStayTrue` | `RowsAgree`: row, facets and merge agree unless the last batch was overtaken |
| `PublicationProofs!PassCorrect` | `PassSound` |
| `PublicationProofs!ForeignKept` | `ForeignPageKept` |
| `PublicationProofs!PromiseKept` | `KeepsPromise`, the refinement of `DigestEditions` |
| `DigestDeliveryProofs!FinalRowsStay`, `NothingBackfilled`, `NothingRepeated` | `FinalStays`, `NeverBackfills`, `SentAsRecorded` |
| `JobsProofs!GuardExcludes` | `OneChild`, if no two guards reclaim one directory at once |
| `JobsProofs!LockExcludes` | `OneBody`: of the bodies with their lock's session there is one |
| `JobsProofs!LocksAreLive`, `OneProcessPerJob`, `TypesHold` | no lock is left behind; one process does a job's work; types |
| `JobsProofs!ScriptsApart` | `DirectorySound` |
| `JobsProofs!NothingLost` | `CensusSound`, if reads succeed and one road names the pages (`OneRoad`) |
| `PeopleReconcileProofs!IndexIsOne`, `LinksHold` | `IndexAgrees`, `MappingHolds` |
| `PublicationProofs!IdsStay` | `NothingLost` |
| `PublicationProofs!VerifiedOwn`, `EvidenceFollows` | `BindingsOwned`, `RelationshipsFollow`: parts of `GraphAgrees` |
| `PublicationProofs!OneStory` | `GraphAgrees`, if LDAP connects no account to another Wikimedia account (`GlobalsStay`) |
| `WritesProofs!NoWorkLost`, `RowsTellTruth` | `WorkKept`, `RowsTrue`, for a user with one tab |
| `WritesProofs!NothingLeftBehind`, `WellFormedRows` | `SignedOutForgets`: no grant outlives a sign-out but a crossed sign-in's; types, with any number of tabs |
| `ScansProofs!VerdictsHold` | `VerdictTrue` |
| `ReadingsProofs!NothingMadeUp`, `AnswersBearTheirText` | `Truthful`; the first half of `AnswersStand` |

*CatalogSync: the search.* That a checkpoint lies above the cursor is not inductive: a resumed scan
trusts a page number stored by an earlier run, while the feed has grown. The strengthening,
`ScanNeverOvershoots`, says that neither the cursor nor the boundary a resumed scan must meet first lies
*before* the page to be read next (`Reaches`). Growth of the feed only pushes events to later pages, so
`Reaches` is preserved by Toolhub's steps; the overlap of one page and the boundary preserve it across
runs. The proof has one lemma per lane; the cursor's monotonicity falls out of it.

*CatalogSync: what was read.* On top of it, `CaptureInv` says what the stored checkpoint and a scan under
way have already read: everything from the boundary to the newest marker, and everything newer than
the page at hand. `PageRead` is the central lemma: an event that is newer than the end of the page, and
not on the page beyond the boundary, was read before. At the cursor, or where the feed ends or the
guard gives up, that leaves nothing between cursor and newest marker but what was read, trimmed or
abandoned.

*CatalogSync: what was asked.* `GapInv` follows a changed tool from its event to its detail. What is
owed lies beyond what a stored checkpoint has read (`StoredAsked`), beyond what the scan under way has
seen (`ScanAsked`), or in the work of the run (`WorkHeld`); a recovery keeps the anchor it took before
its snapshot began (`AnchorKept`), and by the time the snapshot is published every listed tool that
changed before the anchor was met (`Recovered`). The last is where Toolhub must be calm: a tool removed
before the next offset shifts an unmet one onto a page already read, and one created elsewhere restores
the count, the only thing `catalog_sync.py:744` compares. The theorem therefore assumes `RecoveryCalm`,
`recovering => live \subseteq live'`. Creations, changes, kills, the depth guard and lost cursors stay
free, and so do removals at any other time.

*CatalogSync: what is retired.* `OnlyGoneRetired` assumes `SnapshotCalm`, the same of an open snapshot.
`RetireInv` counts: a tool has one row in a generation (`Keyed`), and the names staged so far, together
with the tools listed all along, lie among as many listed ones as the snapshot counted (`Counted`). A
generation that holds as many names as were counted therefore holds every tool listed all along, and
pruning retires none of them.

*Projection.* `RowsInv` is short. A batch that was not overtaken writes every column in which its result
differs from the row it finds, because that row has the record it read (`WrittenIs`), so row and facets
are of one result. And a batch between its first read and its commit holds evidence that has
been, so the report it shows still exists when it commits (`Grown`: reports are only added, and what one
detected stays). The work is in the merge. Its three loops over a list (`Those`, `Extended`,
`MergeWords`) are recursive functions whose turns are on one fixed list, `Turn`; `LoopsEnd` says that
each recursion has a solution, and `Counting`, induction over a *set* of numbers, carries an invariant
along it. `OrderedAre` then says that the order of the merge is a rearrangement that keeps the asserting
sources, and those that fill, in the order they were listed; `OverlayIs` and `FirstValidIs` turn the last
and first of one order into those of the other; `WordsAre` follows the list through the sources that
declare, where it is exactly what was declared, and then through those that fill. `AssembledAgrees` puts
them together for any sources listed as `Sources` lists them.

*DigestPublish.* `PassUpToDate` relates what the pass holds to what is stored: periods still to be
generated have no edition, editions still to be published are closed and unpublished, and a pass about
to record "published" is looking at its own page. With the type invariant it is inductive. The
refinement needs exactly its second part: `Record` is a publication of a closed, unpublished period.

*DigestDelivery.* `FinalStays` needs that the batch in hand holds no final row, although rows are
cancelled and subscriptions switched on and off while it is worked through; `NeverBackfills` that an
active subscription was confirmed no earlier than it was switched on. `IInv` in the proof module is
the conjunction; `NothingRepeated` adds the message in hand between `Send` and the record.

*JobRuns.* Two invariants about who owns what. A lock directory belongs to the one guard that is past
its `mkdir` (`OwnerKeepsFresh`), and stays stale until its one reclaimer removed it (`ReclaimsStale`,
`OneReclaimer`). An advisory lock belongs to a living child that works or queues (`LocksLive`), a child
lives exactly while its guard waits for it, and a body that is not adrift holds the lock
(`BodyHolds`): a drop sets every body that held one adrift or cuts it, and a cut one begins again by
asking for the lock.

*PeopleReconcile.* `PeopleInv` deliberately assumes nothing of what a job carries from its snapshot: the
transaction that commits an old decision must leave the tables in agreement by itself. One half of the
proof shows that each source, withdrawal, mapping and promotion keeps the pair of tables `Sound` (one
backlog row per label, none of them attributed) and touches only its tools; the other that `Commit` makes
edges and summaries agree whenever only the tools it resolves were touched. For `LinksHold` what
matters is that a row writes its sources first and reapplies the mappings last.

*Writes.* `KeptInv` says what a request carries: a retry what its row still holds, any other write the
newest content there is, and that what Toolhub accepted counts as settled. `TruthInv` says of the state
between an acceptance and the transaction that ends it that *the rows that transaction will leave* agree
with Toolhub. The run has two contents, the theorems any number. `SignedOutForgets` needs that a refreshed
pair is saved over an existing row only, and that a grant stored while some sign-out is between its
transactions counts as crossed until the next sign-in.

*Scans.* `VerdictInv` follows a scan from the head it looked at to the head the clone acquired: a scan
about to store a report carries a commit that holds source, and a copied row names the commit it
was true of.

*The script directory.* `CollapseSound` holds for any stored pages, so the run's types are the only
invariant `ScriptsApart` needs. Likeness is symmetric but not transitive: the proof follows the foldings
in the order of the code. Exact copies give each page an original with the same body and the same age
or more; near copies are folded only into a page that was accepted before, so accepted pages are
pairwise unlike, and each refused one has a nearest that stays; crowded names move whole groups and
never a page that others load. What it rests on is that oldest, closest and accepted pages exist, which
is induction over the order of the pages.

*The census.* That a page is stored as it is, or will be read by the next watch, is not inductive while a
sweep goes over several runs. `CensusInv` adds what the pieces of state stand for. `Recorded`: the pages up
to the remembered place of the list are owed nothing that is not among the changes since the sweep began,
and before a census ends nothing is called gone. `Underway`: what the window of a run owes is among those
changes, or in what the run has still to read; what a watch owes is behind the place it read, or in the
window at hand. A kill at any moment falls back from the second to the first. An edit puts its page among
the changes, and a new page gets an id behind all others, so remembered places keep their meaning
(`SaveKeepsPlaces`). The rest is what the operators do: `SelectOf` (entries of a sequence at some places),
`ListedAll` (the replica names every page, at the place its id has), `WindowIs`, `ChunkIs`, `ReportedIs`,
and `IngestedIs`, which unfolds the recursion of a chunk page by page.

*Readings.* The invariant says what each table may hold: rows whose gadget bears their key, whose files come
from a declaration, and whose author made the very revision the creation date names (`Sourced`); rows and
records of a gadget nobody edits (`Undisturbed`), which an unanswered request may not disturb, nor, where
the gadget is alone under its key, take the description from (`AloneDescribed`); cadences within their
bounds (`Paced`); and, for a question under way, the text its row will name (`AskedOf`).

*Identity.* A transaction of the identity jobs is a loop over accounts, users, memberships or pages, and a
theorem about it is a theorem about a fold. `Runs` says, for a loop whose body is one of the fixed list
of steps `Do`, that the recursion behind `ForEach` has a solution; `SetInduction`, from well-founded
induction over finite sets, then carries a property over the loop. The property is `Develops`: the
graph stays `Sound`, no immutable id loses its owner, no settled account is unsettled. `Sound` says
that the rows of immutable ids are current and name a person there is, and that whoever is verified
for an account owns its id; it must be kept by every step, from any sound graph, because the same steps
run in the page transaction of the mirror, the refresh, the rebuild, the user-space rule and at sign-in.
`Tracks` says that the index the refresh keeps beside the tables stays a true copy of them while both
grow. `Stated` says what the evidence states of tools that are still listed, and `Promised` follows a
marker from the read of its input to the transaction that stores it: everything the input connected is
still connected as it was, and settled. `VerifiedOwn`, `EvidenceFollows` and `OneStory` read
`GraphAgrees` off these.

The hypotheses `RecoveryCalm`, `SnapshotCalm`, `GlobalsStay`, `OneRoad`, `~Unreadable`, `~Simultaneous` and
one tab (`WritesProofs!Alone`) are not decoration: without them the properties fail, in the model as in the
code, and [the last but one section](#assumptions-and-what-the-code-does-without-them) says how.

## What is only model-checked

- *Liveness*: `Converges`, `EditionsSettle`, `EntitledServed`, `WaitingJobRuns`, `RecordsReflected`,
  `LabelsResolve`, `ReportsReach`, `Mended`, `Settles`, `Reached`, `SettlesOnWiki`, `FollowsWikis`,
  `EveryTextAsked`. The prover reaches neither fairness nor `ENABLED`.
- *What folds and recursion compute*: `NamesFollow` (a name may move more than once in a transaction, so
  who bears it in the end depends on the order), and the second half of `AnswersStand` (tiers are sorted
  and flattened). A proof by induction over data is at the edge of the prover, because the library
  states induction with an operator as parameter. The loops of `Identity`, the merge of the projection
  and the reads of the census could be followed because each repeats a fixed step along numbers, which
  well-founded induction over a *set* of numbers covers.
- *`CensusSound` when both roads are used in turn*: false in general, see the next section. Its run has
  fallbacks and credentials that arrive, and holds because both roads name its three pages in one order.
- *`GraphAgrees` without `GlobalsStay`*: false, see the next section. Its run holds without it because two
  changes of the outside world are one too few.
- *`NoGap` and `NoLiveToolRetired` without their condition on Toolhub.* Where a removal and a creation may
  fall between two pages of one snapshot both are false: see the next section. Their runs hold without the
  condition because they have no such pair: in `CatalogSync_recent` the listing fits one page, in
  `CatalogSync_snapshot` nothing is created, so that a removal always moves the count.

## Assumptions, and what the code does without them

The instances, guards and hypotheses below exclude behaviours in which the code does something that one
of the properties forbids. Each was met while modelling; they are kept here because they bound what
the results say.

- *Catalog.* The only sign of a moving listing that a snapshot looks at is the count
  (`catalog_sync.py:744`). A removal and a creation between two pages keep it: a tool that never left
  Toolhub is retired (TLC shows it with a third tool and `MaxCreates = 1` in `CatalogSync_snapshot`), or
  stays unasked after a recovery, until a later lane meets it. An integrity snapshot that is interrupted and
  resumed much later publishes records staged before the tool was refreshed (`canonical_tools.py:617`). A
  detail answered from the cache before the poll has invalidated it counts as asked (`catalog_sync.py:549`);
  the reconciliation lane repairs it.
- *Digests.* The deployment may retire an edition that a pass has just edited. A creation captured after
  its day was drafted appears in no daily edition. Posting an active subscription again moves
  `confirmed_at`, and the period that has just ended is not delivered (`Reposts = FALSE`).
- *Jobs.* Two invocations that reclaim the same abandoned directory may both succeed (`Simultaneous`);
  a body whose connection drops unseen, or whose lock's idle connection is closed, runs on without its
  lock, beside the next holder, and the models of the single jobs assume that this does not happen;
  `people_reconcile` releases its source-writer lock before it commits.
- *People.* A claim of one user resolved alone withdraws the edges of the other claimants until the
  next row of the tool; a rebuild that began before a retirement brings the tool's edges back; lost
  queue rows wait for the weekly rebuild.
- *Writes.* With two tabs a newer draft is overwritten by an older reply (`Alone`, and one tab in the run).
  A lost reply to a create leaves the object at Toolhub without its id here (`lost`). A sign-in between the
  two transactions of a sign-out leaves its grant with nobody signed in (`crossed`), although
  `docs/RUNBOOK.md` has it deleted.
- *Projection.* A rebuild deletes a dirty marker stamped after it began (`catalog_facets.py:196`, `:283`);
  one failing tool marks its whole batch; a report withdrawn may stay shown (`ReportsReach` says when);
  overlapping batches may leave a row of two of them (`overtaken`); a report may share the second of a
  refresh and wait for the next change (with `Coarse`, which the theorem covers, `ReportsReach` fails).
- *Scans.* A never-pushed repository ends as an error; a backoff earned by an old URL delays its corrected
  record; a lane may be slowed by a poisonous repository (`Settles` excludes it, `Reached` does not).
- *User scripts.* A page that cannot be read is not asked for again (`Unreadable = FALSE`); a deletion
  during a sweep over several runs shifts the positions behind it (`Delete` is guarded); replica lag at
  the start of a sweep, and a census by search, are mended by a later sweep only. A place remembered in
  the replica's list is resumed in the search index's, and the other way round: where the two name the
  pages in different orders (the index names scripts before stylesheets), a sweep whose runs took both
  roads may pass pages over that no later watch reads. `OneRoad` excludes it.
- *Readings.* A row that holds values and whose ask failed is not asked again under the same text
  (`inference_enrichment.py:1128`), although the comment at `:1092` says it is: `EveryTextAsked` is what
  holds, that the present text of everything was *asked about*. With several replica sections, and a budget
  spent on the first of them in every run, wikis of the next are never covered (`wiki_schedule.py:180`),
  although its docstring says that nothing starves: `FollowsWikis` assumes one section, or runs that again
  and again get to the end of their selection (`NoSectionAlone`; with two sections it passes by the second,
  and fails without). Names that differ in case may cost a gadget its description
  (`gadget_inventory.py:124`), about which `Transcribed` is silent; slugs that collide share a row.
- *Identity.* An account deleted between two pages of a listing lets a living one be pruned (`Close` is
  guarded); the fingerprint of the relationships ignores evidence rows (`ReturnTool` is guarded); a
  username given up and taken by somebody else comes back with a stale local sign-in (`Unnoticed`). A
  developer account connected to another Wikimedia account and back again, with a weekly rebuild in
  between, keeps what the rebuild bound: the rebuild (`people_reconcile.py:273`) leaves the marker of the
  refresh alone, which then matches the present input again (`projection_refresh.py:153`). `GlobalsStay`
  excludes it.

## What is left out

- *CatalogSync*: counters, status texts, the order of the two retry lists (a run takes them in any
  order), database errors (`upsert_records` swallows them), negative cache entries, and what
  `graph_enrichment` makes of a record. Whether Toolhub answers 404 past the last page is a constant;
  convergence is claimed for an empty page only.
- *Digests*: one cadence instead of three (they share no state but the pass's order and budget); the
  Meta archive page, rebuilt whole after each pass; website-only examples; the text the model writes;
  the confirmation link (nothing issues one any more); a reader who archives a talk section between a
  lost answer and the retry; parallel repair by publisher and deliverer, whose unique constraint makes
  the loser repeat its query.
- *Jobs*: metrics, summaries, the watchdog, which only reads.
- *People and identity*: name parsing (a label has a set of people it may mean), confidence, expiry,
  roles, display names, the claim providers' upstream checks and source attestations. Of the writers that
  bind accounts, `people_reconcile`'s discovery of registry names and its identities-only mode
  (`people_reconcile.py:988-994`, `:1062-1082`), which attach user numbers, global ids and handles too.
- *Writes*: the audit trail, response bodies, the review of public records, the redirect handshake.
- *Projection*: the fields that behave like the two modelled, facet counts and statistics, the graph's
  enrichment of records.
- *Scans*: the analyzers (`source_analyzer.py`, `source_analysis_*.py`), text heuristics without state.
- *Readings*: prompts, the model's wording, definition pages that vanish or hold more than `MAX_GADGETS`
  lines.
- *Front end, read API, rendering*: no behaviour over time beyond one request or page view.
- *Schema migration*: idempotent one-off steps, except the retirement of editions.

## Running it

    tlc -config CatalogSync_recent.cfg MCCatalogSync.tla
    tlc -config People_index.cfg MCPeopleReconcile.tla
    tlapm CatalogProofs.tla

Each run finishes within four minutes on two workers; each proof module within a few minutes.
