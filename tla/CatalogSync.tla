----------------------------- MODULE CatalogSync -----------------------------
(***************************************************************************)
(* The scheduled mirror of the official Toolhub catalog                    *)
(* (proxy/catalog_sync.py, with the storage operations it calls in         *)
(* proxy/backend/canonical_tools.py, toolhub.py, digests.py and            *)
(* api_cache.py).                                                          *)
(*                                                                         *)
(* One runner holds the advisory lock "toolhub-evolved:catalog-sync".  A   *)
(* run is a sequence of upstream fetches and of database transactions;     *)
(* each is one action here, so Toolhub may change between any two of them  *)
(* and the job may be killed between any two of them.  What a run keeps in *)
(* local variables is lost with it; what it stored in                      *)
(* tool_catalog_sync_state, canonical_tool_cache, catalog_snapshot_stage   *)
(* and api_cache stays.                                                    *)
(*                                                                         *)
(* Data is abstracted to what the properties tell apart: a recent event is *)
(* its position in the feed (its marker), a tool record is the position of *)
(* the last event of the tool it reflects, and the order of the retry list *)
(* is dropped: a run takes its details in any order.                       *)
(***************************************************************************)
EXTENDS Integers, Sequences, FiniteSets

CONSTANTS
    Tools,            \* tool names, integers: the listing is ordered by name
    InitLive,         \* the tools Toolhub has when the service is deployed
    Busy,             \* bound: the tools Toolhub ever edits or removes
    FeedPageSize,     \* RECENT_PAGE_SIZE
    MaxPagesPerRun,   \* MAX_RECENT_PAGES_PER_RUN
    MaxScanPages,     \* MAX_RECENT_SCAN_PAGES
    MaxDetails,       \* MAX_RECENT_DETAILS_PER_RUN
    ListingPageSize,  \* page_size of /api/tools/
    PastEndIs404,     \* does Toolhub answer 404 for a page past the last one?
    Integrity,        \* is the catalog-integrity job scheduled?
    Polling,          \* is the cache-invalidation job scheduled?
    MaxEvents,        \* bound: events Toolhub ever publishes
    MaxCreates,       \* bound: tools Toolhub ever adds
    MaxRemovals,      \* bound: tools Toolhub ever removes
    MaxTrim,          \* bound: events Toolhub drops from the retained feed
    MaxGenerations,   \* bound: snapshot generations told apart
    MaxFailures       \* bound: runs killed or ended by an upstream error

ASSUME SizesAssumption ==
    /\ Tools \subseteq Nat
    /\ InitLive \subseteq Tools /\ Busy \subseteq Tools
    /\ IsFiniteSet(Tools)
    /\ FeedPageSize \in Nat \ {0}
    /\ MaxPagesPerRun \in Nat \ {0}
    /\ MaxScanPages \in Nat \ {0}
    /\ MaxDetails \in Nat \ {0}
    /\ ListingPageSize \in Nat \ {0}

ASSUME BoundsAssumption ==
    /\ PastEndIs404 \in BOOLEAN
    /\ Integrity \in BOOLEAN
    /\ Polling \in BOOLEAN
    /\ {MaxEvents, MaxCreates, MaxRemovals, MaxTrim, MaxGenerations, MaxFailures}
         \subseteq Nat

Absent == -1      \* no row
NoMarker == 0     \* a marker column that is NULL

VARIABLES
    \* Toolhub (external)
    live,             \* the tools it lists
    feed,             \* every event it ever published, oldest first
    trimmed,          \* how many of the oldest it no longer returns
    creates, removals,
    \* tool_catalog_sync_state: recent lane
    cursor, scanPage, scanLatest, scanBoundary, pending, recovering,
    \* tool_catalog_sync_state: backfill and reconciliation lanes
    nextPage, backfilled, reconcilePage,
    \* tool_catalog_sync_state: snapshot, and catalog_snapshot_stage
    snapOpen, snapGen, snapPage, snapCount, stage,
    \* canonical_tool_cache, api_cache, tool_activity_events
    canon, apiCache, pollMarker, captured,
    \* the run
    pc, scan, work, listing, failures,
    \* history: the first cursor ever stored; tools with an event after it that
    \* no answer of Toolhub covered yet; events the depth guard gave up on; tools
    \* listed without interruption since the open snapshot began
    anchor, unasked, abandoned, steady

upstreamVars == <<live, feed, trimmed, creates, removals>>
recentVars == <<cursor, scanPage, scanLatest, scanBoundary, pending, recovering>>
laneVars == <<nextPage, backfilled, reconcilePage>>
snapVars == <<snapOpen, snapGen, snapPage, snapCount, stage>>
rowVars == <<canon, apiCache>>
digestVars == <<pollMarker, captured>>
runVars == <<pc, scan, work, listing, failures>>
historyVars == <<anchor, unasked, abandoned, steady>>
vars == <<upstreamVars, recentVars, laneVars, snapVars, rowVars, digestVars,
          runVars, historyVars>>

(***************************************************************************)
(* Toolhub: the recent feed, newest first, and the catalog listing         *)
(***************************************************************************)
Events == 1..Len(feed)

\* The version of a tool: its last event, 0 before any.
VersionIn(f, t) ==
    IF \E i \in 1..Len(f) : f[i].tool = t
    THEN CHOOSE i \in 1..Len(f) :
           f[i].tool = t /\ \A j \in 1..Len(f) : f[j].tool = t => j <= i
    ELSE 0
Version(t) == VersionIn(feed, t)

\* Page p of /api/recent/ and whether it names a next page.
FeedPage(p) ==
    {i \in Events : /\ i > trimmed
                    /\ Len(feed) - i >= (p - 1) * FeedPageSize
                    /\ Len(feed) - i < p * FeedPageSize}
FeedMore(p) == Len(feed) - trimmed > p * FeedPageSize

\* Page p of /api/tools/, offset-paginated over the tools it lists now.
Position(t) == Cardinality({u \in live : u <= t})
ListingPage(p) ==
    {t \in live : /\ Position(t) > (p - 1) * ListingPageSize
                  /\ Position(t) <= p * ListingPageSize}
ListingMore(p) == Cardinality(live) > p * ListingPageSize
PastEnd(p) == p > 1 /\ Cardinality(live) <= (p - 1) * ListingPageSize

\* listing_page rejects a count of zero; an error answer ends the run (Fail).
ListingAnswers(p) == live # {} /\ ~(PastEndIs404 /\ PastEnd(p))

RowsOf(p) == {[tool |-> t, ver |-> Version(t)] : t \in ListingPage(p)}
Names(rows) == {r.tool : r \in rows}
RowOf(rows, t) == CHOOSE r \in rows : r.tool = t

\* The last write wins: upsert_records compares no versions.  What is kept is the version
\* alone: a listing is merged over the record (_merge_listing_record), and a field that the
\* detail had and the listing shows empty stays as it was.
Upserted(rows) ==
    [t \in Tools |-> IF t \in Names(rows) THEN RowOf(rows, t).ver ELSE canon[t]]

Announce(t, isNew) ==
    /\ Len(feed) < MaxEvents
    /\ feed' = Append(feed, [tool |-> t, created |-> isNew])
    /\ unasked' = unasked \cup {t}

UpstreamEdit(t) ==
    /\ t \in live \cap Busy
    /\ Announce(t, FALSE)
    /\ UNCHANGED <<live, trimmed, creates, removals, steady, anchor, abandoned>>

UpstreamCreate(t) ==
    /\ t \notin live
    /\ creates < MaxCreates
    /\ Announce(t, TRUE)
    /\ live' = live \cup {t}
    /\ creates' = creates + 1
    /\ UNCHANGED <<trimmed, removals, steady, anchor, abandoned>>

UpstreamRemove(t) ==
    /\ t \in live \cap Busy
    /\ removals < MaxRemovals
    /\ live' = live \ {t}
    /\ steady' = steady \ {t}
    /\ removals' = removals + 1
    /\ UNCHANGED <<feed, trimmed, creates, anchor, unasked, abandoned>>

\* The retained window of /api/recent/ loses its oldest event.
UpstreamTrim ==
    /\ trimmed < Len(feed)
    /\ trimmed < MaxTrim
    /\ trimmed' = trimmed + 1
    /\ UNCHANGED <<live, feed, creates, removals, historyVars>>

Upstream ==
    /\ \/ \E t \in Tools : UpstreamEdit(t) \/ UpstreamCreate(t) \/ UpstreamRemove(t)
       \/ UpstreamTrim
    /\ UNCHANGED <<recentVars, laneVars, snapVars, rowVars, digestVars, runVars>>

(***************************************************************************)
(* Runs                                                                    *)
(***************************************************************************)
NoScan == [page |-> 1, latest |-> NoMarker, bound |-> NoMarker,
           seek |-> NoMarker, seen |-> {}, fetched |-> 0, complete |-> FALSE]
NoWork == [todo |-> {}, remaining |-> {}]
NoListing == [page |-> 1, rows |-> {}, more |-> FALSE, count |-> 0]

\* The run moves on to a phase that uses none of the variables so far.
Continue(phase) ==
    /\ pc' = phase
    /\ scan' = NoScan
    /\ work' = NoWork
    /\ listing' = NoListing

\* The run is over and its local variables are gone.
RunOver == Continue("idle")

\* The job is killed (Toolforge's timeout, a lost connection), or a fetch
\* raised CatalogSyncError, OSError, RequestException or ToolhubAPIError:
\* nothing it had not yet stored survives.
Fail ==
    /\ pc # "idle"
    /\ failures < MaxFailures
    /\ failures' = failures + 1
    /\ RunOver
    /\ UNCHANGED <<upstreamVars, recentVars, laneVars, snapVars, rowVars,
                   digestVars, historyVars>>

\* Toolhub answers 404 for a page its catalog no longer reaches, and an empty catalog
\* with a count that listing_page rejects.
PastEndFails ==
    /\ pc \in {"backfill", "reconcile", "snapFetch"}
    /\ ~ListingAnswers(listing.page)
    /\ RunOver
    /\ UNCHANGED <<failures, upstreamVars, recentVars, laneVars, snapVars,
                   rowVars, digestVars, historyVars>>

(***************************************************************************)
(* Initial backfill (run, _initial_backfill)                               *)
(***************************************************************************)
StartBackfill ==
    /\ pc = "idle"
    /\ ~backfilled
    /\ pc' = "backfill"
    /\ listing' = [NoListing EXCEPT !.page = nextPage]
    /\ UNCHANGED <<scan, work, failures, upstreamVars, recentVars, laneVars,
                   snapVars, rowVars, digestVars, historyVars>>

\* listing_page ingests every page it fetches (toolhub.public_api_get calls
\* canonical_tools.ingest_payload); the caller's own upsert repeats it.
FetchListing ==
    /\ ListingAnswers(listing.page)
    /\ listing' = [listing EXCEPT !.rows = RowsOf(listing.page),
                                  !.more = ListingMore(listing.page)]
    /\ canon' = Upserted(RowsOf(listing.page))
    /\ unasked' = unasked \ ListingPage(listing.page)

BackfillFetch ==
    /\ pc = "backfill"
    /\ FetchListing
    /\ pc' = "backfillStore"
    /\ UNCHANGED <<scan, work, failures, upstreamVars, recentVars, laneVars,
                   snapVars, apiCache, digestVars, anchor, abandoned, steady>>

\* Where a lane goes on.
NextListingPage == IF listing.more THEN listing.page + 1 ELSE 1

\* _store_page(reconcile=False): next page, or the end of the first cycle.
\* A run stops after pages_limit pages.
BackfillStore ==
    /\ pc = "backfillStore"
    /\ nextPage' = NextListingPage
    /\ backfilled' = (backfilled \/ ~listing.more)
    /\ \/ RunOver
       \/ /\ listing.more
          /\ pc' = "backfill"
          /\ listing' = [NoListing EXCEPT !.page = listing.page + 1]
          /\ UNCHANGED <<scan, work>>
    /\ UNCHANGED <<failures, reconcilePage, upstreamVars, recentVars, snapVars,
                   rowVars, digestVars, historyVars>>

(***************************************************************************)
(* Recent updates (_recent_updates, _recent_rows_since)                    *)
(***************************************************************************)
\* A resumed scan overlaps the page before its checkpoint.
FirstScanPage ==
    IF scanBoundary = NoMarker \/ scanPage = 1 THEN scanPage ELSE scanPage - 1

StartRecent ==
    /\ pc = "idle"
    /\ backfilled
    /\ pc' = "scan"
    /\ scan' = [NoScan EXCEPT !.page = FirstScanPage, !.latest = scanLatest,
                              !.bound = scanBoundary, !.seek = scanBoundary]
    /\ UNCHANGED <<work, listing, failures, upstreamVars, recentVars, laneVars,
                   snapVars, rowVars, digestVars, historyVars>>

ScanFrame ==
    UNCHANGED <<work, listing, failures, upstreamVars, recentVars, laneVars,
                snapVars, rowVars, digestVars, anchor, unasked, steady>>

\* _guard_scan_depth: the hunt went deeper than a cursor can be.
ScanTooDeep ==
    /\ pc = "scan"
    /\ scan.page > MaxScanPages
    /\ pc' = "lost"
    /\ abandoned' = {i \in Events : Len(feed) - i >= MaxScanPages * FeedPageSize}
    /\ UNCHANGED scan
    /\ ScanFrame

\* recent_page(p) is not empty-handed: the newest marker is not known yet.
FirstSight == scan.latest = NoMarker /\ scan.page = 1
SightedLatest ==
    IF FirstSight /\ FeedPage(1) # {} THEN Len(feed) ELSE scan.latest

\* No cursor yet, or nothing published yet: the scan ends with its first page.
ScanAnchors ==
    /\ pc = "scan"
    /\ scan.page <= MaxScanPages
    /\ FirstSight
    /\ cursor = NoMarker \/ FeedPage(1) = {}
    /\ scan' = [scan EXCEPT !.latest = SightedLatest, !.complete = TRUE]
    /\ pc' = IF SightedLatest = NoMarker THEN "hydrate" ELSE "anchor"
    /\ UNCHANGED abandoned
    /\ ScanFrame

\* The rows of a page that lie beyond the boundary the scan resumes from.
RowsAfterSeek ==
    {i \in FeedPage(scan.page) : scan.seek = NoMarker \/ i < scan.seek}
Seeking == scan.seek # NoMarker /\ scan.seek \notin FeedPage(scan.page)
Oldest(S) == CHOOSE i \in S : \A j \in S : i <= j

ScanReads ==
    /\ pc = "scan"
    /\ scan.page <= MaxScanPages
    /\ ~(FirstSight /\ (cursor = NoMarker \/ FeedPage(1) = {}))

\* The page holds the cursor: every event since it has been read.
ScanMeetsCursor ==
    /\ ScanReads
    /\ ~Seeking
    /\ cursor \in RowsAfterSeek
    /\ LET new == {i \in RowsAfterSeek : i > cursor} IN
         scan' = [scan EXCEPT !.latest = SightedLatest,
                              !.seen = scan.seen \cup new,
                              !.bound = IF new = {} THEN scan.bound ELSE Oldest(new),
                              !.complete = TRUE]
    /\ pc' = "capture"
    /\ UNCHANGED abandoned
    /\ ScanFrame

\* The feed ends (or the boundary is gone) before the cursor was met: lost.
\* Otherwise the next page, or a checkpoint once the run's pages are spent.
ScanGoesOn ==
    /\ ScanReads
    /\ Seeking \/ cursor \notin RowsAfterSeek
    /\ LET new == IF Seeking THEN {} ELSE RowsAfterSeek
           spent == scan.fetched + 1 = MaxPagesPerRun IN
         /\ pc' = IF ~FeedMore(scan.page) THEN "lost"
                  ELSE IF spent THEN "capture" ELSE "scan"
         /\ scan' = [scan EXCEPT !.latest = SightedLatest,
                                 !.seen = scan.seen \cup new,
                                 !.bound = IF new = {} THEN scan.bound ELSE Oldest(new),
                                 !.seek = IF Seeking THEN scan.seek ELSE NoMarker,
                                 !.fetched = scan.fetched + 1,
                                 !.page = IF spent \/ ~FeedMore(scan.page)
                                          THEN scan.page ELSE scan.page + 1]
    /\ UNCHANGED abandoned
    /\ ScanFrame

\* The first marker ever seen becomes the cursor; nothing before it is promised.
StoreAnchor ==
    /\ pc = "anchor"
    /\ cursor' = scan.latest
    /\ anchor' = scan.latest
    /\ unasked' = {t \in unasked : Version(t) > scan.latest}
    /\ Continue("hydrate")
    /\ UNCHANGED <<failures, scanPage, scanLatest, scanBoundary,
                   pending, recovering, upstreamVars, laneVars, snapVars, rowVars,
                   digestVars, abandoned, steady>>

Changed(S) == {feed[i].tool : i \in S}
Creations(S) == {i \in S : feed[i].created}

\* digests.capture_recent_rows, then the names whose details are due.
Capture ==
    /\ pc = "capture"
    /\ captured' = captured \cup Creations(scan.seen)
    /\ pc' = "details"
    /\ \E todo \in SUBSET (pending \cup Changed(scan.seen)) :
         LET names == pending \cup Changed(scan.seen) IN
         /\ Cardinality(todo) = IF Cardinality(names) < MaxDetails
                                THEN Cardinality(names) ELSE MaxDetails
         /\ work' = [todo |-> todo, remaining |-> names \ todo]
    /\ UNCHANGED <<scan, listing, failures, pollMarker, upstreamVars, recentVars,
                   laneVars, snapVars, rowVars, historyVars>>

\* toolhub.public_api_get of one detail: a fresh api_cache row answers without
\* asking Toolhub; otherwise the answer is stored there and in the catalog.
DetailAnswered(t) ==
    \/ /\ apiCache[t] # Absent
       /\ canon' = [canon EXCEPT ![t] = apiCache[t]]
       /\ UNCHANGED apiCache
    \/ /\ apiCache[t] = Absent
       /\ t \in live
       /\ canon' = [canon EXCEPT ![t] = Version(t)]
       /\ apiCache' = [apiCache EXCEPT ![t] = Version(t)]

DetailFrame ==
    UNCHANGED <<pc, scan, listing, upstreamVars, recentVars, laneVars, snapVars,
                digestVars, anchor, abandoned, steady>>

DetailRefreshed(t) ==
    /\ pc = "details"
    /\ t \in work.todo
    /\ DetailAnswered(t)
    /\ unasked' = unasked \ {t}
    /\ work' = [work EXCEPT !.todo = work.todo \ {t}]
    /\ UNCHANGED failures
    /\ DetailFrame

\* _is_gone: Toolhub answered 404, a durable answer.
DetailGone(t) ==
    /\ pc = "details"
    /\ t \in work.todo
    /\ apiCache[t] = Absent
    /\ t \notin live
    /\ unasked' = unasked \ {t}
    /\ work' = [work EXCEPT !.todo = work.todo \ {t}]
    /\ UNCHANGED <<failures, rowVars>>
    /\ DetailFrame

\* Any other failure keeps the name queued.
DetailFails(t) ==
    /\ pc = "details"
    /\ t \in work.todo
    /\ apiCache[t] = Absent
    /\ failures < MaxFailures
    /\ failures' = failures + 1
    /\ work' = [todo |-> work.todo \ {t}, remaining |-> work.remaining \cup {t}]
    /\ UNCHANGED <<rowVars, unasked>>
    /\ DetailFrame

\* discard_snapshot_stage runs in a transaction of its own, after the one that
\* closed the snapshot: the job may die in between and leave the rows behind.
DiscardStage(next) ==
    \/ /\ stage' = {r \in stage : r.gen # snapGen}
       /\ Continue(next)
       /\ UNCHANGED failures
    \/ /\ failures < MaxFailures
       /\ failures' = failures + 1
       /\ RunOver
       /\ UNCHANGED stage

\* _reset_snapshot_cursor: the generation number is kept.
ResetSnapshot ==
    /\ snapOpen' = FALSE
    /\ snapPage' = 1
    /\ snapCount' = 0
    /\ steady' = {}

DetailsDone == pc = "details" /\ work.todo = {}

\* (faults: an unfinished scan moves the cursor too; a finished scan leaves its
\* boundary behind)
CursorAcrossGap == scan.latest
BoundaryKept == scan.bound
NextCursor == IF scan.complete THEN scan.latest ELSE cursor
NextBoundary == IF scan.complete THEN NoMarker ELSE scan.bound

\* _store_recent_progress: one transaction for the cursor, or the checkpoint of
\* an unfinished scan, and the retry list; finding the cursor again cancels a
\* recovery snapshot.
StoreProgress ==
    /\ DetailsDone
    /\ cursor' = NextCursor
    /\ scanPage' = IF scan.complete THEN 1 ELSE scan.page
    /\ scanLatest' = IF scan.complete THEN NoMarker ELSE scan.latest
    /\ scanBoundary' = NextBoundary
    /\ pending' = work.remaining
    /\ recovering' = FALSE
    /\ IF recovering
       THEN ResetSnapshot /\ DiscardStage("hydrate")
       ELSE /\ Continue("hydrate")
            /\ UNCHANGED <<failures, snapOpen, snapPage, snapCount, stage, steady>>
    /\ UNCHANGED <<snapGen, upstreamVars, laneVars, rowVars, digestVars, anchor,
                   unasked, abandoned>>

\* run() on RecentCursorLostError: _prepare_recent_cursor_recovery captures what
\* was seen, in a transaction of its own ...
\* (fault: a lost cursor throws away the events seen on the way)
LostForgets == captured
LostCaptured == captured \cup Creations(scan.seen)
LostCapture ==
    /\ pc = "lost"
    /\ captured' = LostCaptured
    /\ pc' = "recover"
    /\ UNCHANGED <<scan, work, listing, failures, pollMarker, upstreamVars,
                   recentVars, laneVars, snapVars, rowVars, historyVars>>

\* ... then stores the anchor the cursor will take once a whole snapshot is
\* published.  A snapshot older than the anchor is dropped, a recovery's kept.
SnapshotPredates == snapOpen /\ ~recovering
PrepareRecovery ==
    /\ pc = "recover"
    /\ pending' = pending \cup Changed(scan.seen)
    /\ scanPage' = 1
    /\ scanLatest' = scan.latest
    /\ scanBoundary' = NoMarker
    /\ recovering' = TRUE
    /\ IF SnapshotPredates
       THEN ResetSnapshot /\ DiscardStage("snapBegin")
       ELSE /\ Continue("snapBegin")
            /\ UNCHANGED <<failures, snapOpen, snapPage, snapCount, stage, steady>>
    /\ UNCHANGED <<cursor, snapGen, upstreamVars, laneVars, rowVars, digestVars,
                   anchor, unasked, abandoned>>

(***************************************************************************)
(* Detail hydration and reconciliation                                     *)
(***************************************************************************)
\* _hydrate_graph_details: details of some served tools.  Which ones, their order
\* and the retry list of this lane are abstracted: any served tool may be next.
Hydrate(t) ==
    /\ pc = "hydrate"
    /\ canon[t] # Absent
    /\ DetailAnswered(t)
    /\ unasked' = unasked \ {t}
    /\ UNCHANGED <<failures, work>>
    /\ DetailFrame

\* _reconcile_if_due: once every RECONCILE_INTERVAL; the run ends otherwise.
ReconcileDue ==
    /\ pc = "hydrate"
    /\ pc' = "reconcile"
    /\ scan' = NoScan
    /\ work' = NoWork
    /\ listing' = [NoListing EXCEPT !.page = reconcilePage]
    /\ UNCHANGED <<failures, upstreamVars, recentVars, laneVars, snapVars,
                   rowVars, digestVars, historyVars>>

ReconcileNotDue ==
    /\ pc = "hydrate"
    /\ RunOver
    /\ UNCHANGED <<failures, upstreamVars, recentVars, laneVars, snapVars,
                   rowVars, digestVars, historyVars>>

ReconcileFetch ==
    /\ pc = "reconcile"
    /\ FetchListing
    /\ pc' = "reconcileStore"
    /\ UNCHANGED <<scan, work, failures, upstreamVars, recentVars, laneVars,
                   snapVars, apiCache, digestVars, anchor, abandoned, steady>>

\* _store_page(reconcile=True)
ReconcileStore ==
    /\ pc = "reconcileStore"
    /\ reconcilePage' = NextListingPage
    /\ RunOver
    /\ UNCHANGED <<failures, nextPage, backfilled, upstreamVars, recentVars,
                   snapVars, rowVars, digestVars, historyVars>>

(***************************************************************************)
(* Complete snapshots (run_complete)                                       *)
(***************************************************************************)
StartIntegrity ==
    /\ Integrity
    /\ pc = "idle"
    /\ pc' = "snapBegin"
    /\ UNCHANGED <<scan, work, listing, failures, upstreamVars, recentVars,
                   laneVars, snapVars, rowVars, digestVars, historyVars>>

\* The code counts generations up.  Only that a new one shares its number with no
\* row still staged matters, so numbers are used again, within MaxGenerations.
FreshGenerations == {g \in 1..MaxGenerations : \A r \in stage : r.gen # g}
NextGeneration == CHOOSE g \in FreshGenerations : \A h \in FreshGenerations : g <= h

\* _begin_snapshot: open a new generation, or resume the one that is open.
BeginSnapshot ==
    /\ pc = "snapBegin"
    /\ pc' = "snapFetch"
    /\ UNCHANGED <<scan, work>>
    /\ IF snapOpen
       THEN /\ listing' = [NoListing EXCEPT !.page = snapPage, !.count = snapCount]
            /\ UNCHANGED <<snapVars, steady>>
       ELSE /\ FreshGenerations # {}
            /\ snapOpen' = TRUE
            /\ snapGen' = NextGeneration
            /\ snapPage' = 1
            /\ snapCount' = 0
            /\ listing' = NoListing
            /\ steady' = live
            /\ UNCHANGED stage
    /\ UNCHANGED <<failures, upstreamVars, recentVars, laneVars, rowVars,
                   digestVars, anchor, unasked, abandoned>>

\* One page; a count that moved since the first page restarts the snapshot
\* (fault: it is not compared).
CountUnchecked == FALSE
CountMoved == listing.count # 0 /\ listing.count # Cardinality(live)
SnapshotFetch ==
    /\ pc = "snapFetch"
    /\ ListingAnswers(listing.page)
    /\ canon' = Upserted(RowsOf(listing.page))
    /\ unasked' = unasked \ ListingPage(listing.page)
    /\ IF CountMoved
       THEN pc' = "restart" /\ UNCHANGED listing
       ELSE /\ pc' = "snapStage"
            /\ listing' = [listing EXCEPT !.rows = RowsOf(listing.page),
                                          !.more = ListingMore(listing.page),
                                          !.count = Cardinality(live)]
    /\ UNCHANGED <<scan, work, failures, upstreamVars, recentVars, laneVars,
                   snapVars, apiCache, digestVars, anchor, abandoned, steady>>

\* stage_snapshot_records: merge by (generation, tool).
SnapshotStage ==
    /\ pc = "snapStage"
    /\ stage' = {r \in stage : ~(r.gen = snapGen /\ r.tool \in Names(listing.rows))}
                \cup {[gen |-> snapGen, tool |-> r.tool, ver |-> r.ver] :
                        r \in listing.rows}
    /\ pc' = "snapAdvance"
    /\ UNCHANGED <<scan, work, listing, failures, snapOpen, snapGen, snapPage,
                   snapCount, upstreamVars, recentVars, laneVars, rowVars,
                   digestVars, historyVars>>

\* _store_snapshot_page's own transaction: the resumable cursor.
SnapshotAdvance ==
    /\ pc = "snapAdvance"
    /\ snapPage' = listing.page + 1
    /\ snapCount' = listing.count
    /\ IF listing.more
       THEN /\ pc' = "snapFetch"
            /\ listing' = [listing EXCEPT !.page = listing.page + 1, !.rows = {}]
       ELSE pc' = "publish" /\ UNCHANGED listing
    /\ UNCHANGED <<scan, work, failures, snapOpen, snapGen, stage, upstreamVars,
                   recentVars, laneVars, rowVars, digestVars, historyVars>>

Staged == {r \in stage : r.gen = snapGen}
Retired == {t \in Tools : canon[t] # Absent} \ Names(Staged)
CountHolds == Cardinality(Staged) = listing.count

\* What the publication leaves served (fault: it retires nothing).
ServedUnpruned ==
    [t \in Tools |-> IF t \in Names(Staged) THEN RowOf(Staged, t).ver ELSE canon[t]]
Served ==
    [t \in Tools |-> IF t \in Names(Staged) THEN RowOf(Staged, t).ver ELSE Absent]

\* _publish_snapshot: one transaction replaces the serving set, retires what
\* the generation lacks and moves the recent cursor to the recovery anchor.
PublishSnapshot ==
    /\ pc = "publish"
    /\ CountHolds
    /\ canon' = Served
    /\ stage' = stage \ Staged
    /\ ResetSnapshot
    /\ backfilled' = TRUE
    /\ IF recovering
       THEN /\ cursor' = scanLatest
            /\ scanPage' = 1
            /\ scanLatest' = NoMarker
            /\ scanBoundary' = NoMarker
            /\ recovering' = FALSE
       ELSE UNCHANGED <<cursor, scanPage, scanLatest, scanBoundary, recovering>>
    /\ unasked' = unasked \ Retired
    /\ work' = [NoWork EXCEPT !.todo = Retired]
    /\ pc' = "evict"
    /\ UNCHANGED <<scan, listing, failures, pending, nextPage, reconcilePage,
                   snapGen, apiCache, upstreamVars, digestVars, anchor, abandoned>>

\* After the commit: api_cache.invalidate_tool for every retired name.
EvictRetired ==
    /\ pc = "evict"
    /\ apiCache' = [t \in Tools |-> IF t \in work.todo THEN Absent ELSE apiCache[t]]
    /\ RunOver
    /\ UNCHANGED <<failures, canon, upstreamVars, recentVars, laneVars, snapVars,
                   digestVars, historyVars>>

\* publish_snapshot_stage raises: the generation restarts.
PublishRefused ==
    /\ pc = "publish"
    /\ ~CountHolds
    /\ pc' = "restart"
    /\ UNCHANGED <<scan, work, listing, failures, upstreamVars, recentVars,
                   laneVars, snapVars, rowVars, digestVars, historyVars>>

\* _restart_snapshot; run_complete tries again a bounded number of times.
RestartSnapshot ==
    /\ pc = "restart"
    /\ ResetSnapshot
    /\ DiscardStage("snapBegin")
    /\ UNCHANGED <<snapGen, upstreamVars, recentVars, laneVars, rowVars,
                   digestVars, anchor, unasked, abandoned>>

GiveUpSnapshot ==
    /\ pc = "restart"
    /\ ResetSnapshot
    /\ stage' = {r \in stage : r.gen # snapGen}
    /\ RunOver
    /\ UNCHANGED <<failures, snapGen, upstreamVars, recentVars, laneVars, rowVars,
                   digestVars, anchor, unasked, abandoned>>

(***************************************************************************)
(* The shared response cache                                               *)
(***************************************************************************)
\* A cached detail reaches the end of its fresh window.
CacheExpires(t) ==
    /\ apiCache[t] # Absent
    /\ apiCache' = [apiCache EXCEPT ![t] = Absent]
    /\ UNCHANGED <<canon, upstreamVars, recentVars, laneVars, snapVars,
                   digestVars, runVars, historyVars>>

\* api_cache.maybe_poll_recent_changes, every minute: the newest recent page
\* since the last marker names the details to delete.
CachePoll ==
    /\ Polling
    /\ FeedPage(1) # {}
    /\ pollMarker # Len(feed)
    /\ LET new == IF pollMarker = NoMarker THEN {}
                  ELSE {i \in FeedPage(1) : i > pollMarker} IN
         apiCache' = [t \in Tools |-> IF t \in Changed(new) THEN Absent ELSE apiCache[t]]
    /\ pollMarker' = Len(feed)
    /\ UNCHANGED <<canon, captured, upstreamVars, recentVars, laneVars, snapVars,
                   runVars, historyVars>>

Cache == CachePoll \/ \E t \in Tools : CacheExpires(t)

(***************************************************************************)
(* The specification                                                       *)
(***************************************************************************)
Init ==
    /\ live = InitLive /\ feed = <<>> /\ trimmed = 0 /\ creates = 0 /\ removals = 0
    /\ cursor = NoMarker /\ scanPage = 1 /\ scanLatest = NoMarker
    /\ scanBoundary = NoMarker /\ pending = {} /\ recovering = FALSE
    /\ nextPage = 1 /\ backfilled = FALSE /\ reconcilePage = 1
    /\ snapOpen = FALSE /\ snapGen = 0 /\ snapPage = 1 /\ snapCount = 0 /\ stage = {}
    /\ canon = [t \in Tools |-> Absent] /\ apiCache = [t \in Tools |-> Absent]
    /\ pollMarker = NoMarker /\ captured = {}
    /\ pc = "idle" /\ scan = NoScan /\ work = NoWork /\ listing = NoListing
    /\ failures = 0
    /\ anchor = NoMarker /\ unasked = {} /\ abandoned = {} /\ steady = {}

Backfill == StartBackfill \/ BackfillFetch \/ BackfillStore
Scan == StartRecent \/ ScanTooDeep \/ ScanAnchors \/ ScanMeetsCursor \/ ScanGoesOn
Recent ==
    \/ StoreAnchor \/ Capture \/ StoreProgress \/ LostCapture \/ PrepareRecovery
    \/ \E t \in Tools : DetailRefreshed(t) \/ DetailGone(t)
Reconcile == ReconcileDue \/ ReconcileFetch \/ ReconcileStore
Snapshot ==
    \/ BeginSnapshot \/ SnapshotFetch \/ SnapshotStage \/ SnapshotAdvance
    \/ PublishSnapshot \/ EvictRetired \/ PublishRefused \/ RestartSnapshot
    \/ GiveUpSnapshot

\* What a healthy run does next.
Progress ==
    Backfill \/ Scan \/ Recent \/ Reconcile \/ ReconcileNotDue \/ Snapshot
    \/ PastEndFails

Next ==
    \/ Progress \/ StartIntegrity \/ Upstream \/ Cache \/ Fail
    \/ \E t \in Tools : Hydrate(t) \/ DetailFails(t)

Spec == Init /\ [][Next]_vars

\* The scheduler starts both jobs again and again and a run that is neither
\* killed nor refused goes on; the reconciliation interval keeps elapsing; a
\* cached detail expires.  Kills and errors are bounded by MaxFailures.
FairSpec ==
    /\ Spec
    /\ WF_vars(Progress)
    /\ SF_vars(ReconcileDue)
    /\ SF_vars(StartIntegrity)
    /\ \A t \in Tools : WF_vars(CacheExpires(t))

(***************************************************************************)
(* Properties                                                              *)
(***************************************************************************)
Markers == 0..Len(feed)
Versions == {Absent} \cup Markers
Phases == {"idle", "backfill", "backfillStore", "scan", "lost", "recover", "anchor",
           "capture", "details", "hydrate", "reconcile", "reconcileStore",
           "snapBegin", "snapFetch", "snapStage", "snapAdvance", "publish",
           "evict", "restart"}

\* Types: markers and versions never run ahead of the feed.
UpstreamTypes ==
    /\ live \subseteq Tools
    /\ feed \in Seq([tool : Tools, created : BOOLEAN])
    /\ trimmed \in Markers /\ creates \in Nat /\ removals \in Nat

RecentTypes ==
    /\ cursor \in Markers /\ scanLatest \in Markers /\ scanBoundary \in Markers
    /\ scanPage \in Nat \ {0} /\ pending \subseteq Tools /\ recovering \in BOOLEAN

LaneTypes ==
    nextPage \in Nat \ {0} /\ reconcilePage \in Nat \ {0} /\ backfilled \in BOOLEAN

SnapTypes ==
    /\ snapOpen \in BOOLEAN /\ snapGen \in Nat /\ snapPage \in Nat \ {0}
    /\ snapCount \in Nat
    /\ stage \subseteq [gen : Nat, tool : Tools, ver : Markers]

RowTypes == canon \in [Tools -> Versions] /\ apiCache \in [Tools -> Versions]

DigestTypes == pollMarker \in Markers /\ captured \subseteq Events

Scans == [page : Nat \ {0}, latest : Markers, bound : Markers, seek : Markers,
          seen : SUBSET Events, fetched : Nat, complete : BOOLEAN]
Works == [todo : SUBSET Tools, remaining : SUBSET Tools]
Listings == [page : Nat \ {0}, rows : SUBSET [tool : Tools, ver : Markers],
             more : BOOLEAN, count : Nat]
RunTypes ==
    /\ pc \in Phases /\ failures \in Nat
    /\ scan \in Scans /\ work \in Works /\ listing \in Listings

HistoryTypes ==
    /\ anchor \in Markers /\ unasked \subseteq Tools /\ abandoned \subseteq Events
    /\ steady \subseteq Tools

TypeOK ==
    /\ UpstreamTypes /\ RecentTypes /\ LaneTypes /\ SnapTypes
    /\ RowTypes /\ DigestTypes /\ RunTypes /\ HistoryTypes

\* _recent_rows_since: "without advancing across an unproven gap".  A listed
\* tool whose last change the cursor has passed was asked about since that
\* change, or is queued for it: through pages that drift as the feed grows,
\* checkpoints, kills, lost cursors and the snapshots that recover them.
NoGap ==
    \A t \in unasked \cap live : Version(t) <= cursor => t \in pending

\* digests.capture_recent_rows runs before the cursor moves: a creation between
\* the first cursor and the current one is in the digest store, unless Toolhub
\* no longer returned it or the depth guard gave up on reaching it.
CreationsCaptured ==
    \A i \in (anchor + 1)..cursor :
      feed[i].created => \/ i \in captured
                         \/ i <= trimmed
                         \/ i \in abandoned

\* The cursor only moves forward, through recovery as well.
CursorMovesForward == [][cursor' >= cursor]_vars

\* What a checkpoint resumes from lies above the cursor, so that the search for
\* it cannot run past the cursor; what the cursor will move to lies at or above
\* it; and a recovery snapshot is only opened once its anchor is stored.
CheckpointSound ==
    /\ scanLatest # NoMarker => scanLatest >= cursor
    /\ scanBoundary # NoMarker => scanBoundary > cursor /\ scanLatest # NoMarker
    /\ recovering => scanLatest # NoMarker

\* run_complete: "retire confirmed missing tools".  A tool Toolhub listed
\* without interruption since the snapshot began is not removed by it.
NoLiveToolRetired ==
    [][\A t \in steady : canon[t] # Absent => canon'[t] # Absent]_vars

\* Once Toolhub rests and runs stop failing, the mirror serves exactly its tools
\* at their last version, whatever was lost, staged or cached on the way.
Mirrored == canon = [t \in Tools |-> IF t \in live THEN Version(t) ELSE Absent]
Converges == <>[]Mirrored

(***************************************************************************)
(* Why a checkpoint is sound: the inductive invariant                      *)
(***************************************************************************)
\* Event i lies on page p of the feed or on a later one.  Growth of the feed only
\* pushes it further back.
Reaches(i, p) == Len(feed) - i >= (p - 1) * FeedPageSize

\* The stored half: the page to resume from is not past the cursor, nor past the
\* boundary that must be met again there.
StoredScan ==
    /\ scanPage > 1 => scanLatest # NoMarker
    /\ Reaches(cursor, scanPage)
    /\ scanBoundary # NoMarker => Reaches(scanBoundary, scanPage)

\* The half a run keeps in local variables until it stores them.
LocalScan ==
    pc \in {"scan", "capture", "details", "lost", "recover", "anchor"} =>
      /\ scan.latest = NoMarker => scanLatest = NoMarker
      /\ scan.latest # NoMarker => scan.latest >= cursor
      /\ scan.page > 1 \/ pc # "scan" => scan.latest # NoMarker
      /\ scan.bound # NoMarker => scan.bound > cursor /\ scan.latest # NoMarker
      /\ Reaches(cursor, scan.page)
      /\ pc = "scan" /\ scan.seek # NoMarker
           => scan.seek = scan.bound /\ Reaches(scan.seek, scan.page)
      /\ pc \in {"capture", "details"} /\ ~scan.complete /\ scan.bound # NoMarker
           => Reaches(scan.bound, scan.page)
      /\ pc = "anchor" => cursor = NoMarker /\ scanLatest = NoMarker

\* The search for the cursor never runs past it, in one run or over several: a
\* page is left behind only when the cursor, and the boundary a resumed scan must
\* meet first, lie on a later one, however much the feed grew in between.
ScanNeverOvershoots == CheckpointSound /\ StoredScan /\ LocalScan
=============================================================================
