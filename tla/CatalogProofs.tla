--------------------------- MODULE CatalogProofs ---------------------------
(***************************************************************************)
(* Theorems about CatalogSync, for every number of tools, pages, events    *)
(* and failures, and after them about Projection, for every number of      *)
(* producers, all evidence there can be and every number of changes.       *)
(***************************************************************************)
EXTENDS CatalogSync, Projection, FiniteSetTheorems, WellFoundedInduction, SequenceTheorems, TLAPS

(***************************************************************************)
(* Least and greatest elements                                             *)
(***************************************************************************)
\* A nonempty set of naturals has a least element.
LEMMA MinExists ==
    ASSUME NEW S \in SUBSET Nat, S # {}
    PROVE  \E m \in S : \A n \in S : m <= n
<1>1. PICK m \in S : \A n \in S : ~(<<n, m>> \in OpToRel(<, Nat))
  BY NatLessThanWellFounded, WFMin
<1>2. \A n \in S : ~(n < m)
  BY <1>1 DEF OpToRel
<1> QED
  BY <1>2

\* A nonempty set of numbers up to n has a greatest element.
LEMMA MaxExists ==
    ASSUME NEW n \in Nat, NEW S \in SUBSET (0..n), S # {}
    PROVE  \E m \in S : \A k \in S : k <= m
<1> DEFINE T == {n - k : k \in S}
<1>0. \A k \in S : n - k \in Nat
  OBVIOUS
<1>1. T \in SUBSET Nat /\ T # {}
  BY <1>0
<1>2. PICK m \in T : \A k \in T : m <= k
  BY <1>1, MinExists
<1>3. PICK j \in S : m = n - j
  BY <1>2
<1>4. \A k \in S : n - j <= n - k
  BY <1>2, <1>3
<1> QED
  BY <1>3, <1>4

(***************************************************************************)
(* What the operators on the feed and the listing return                   *)
(***************************************************************************)
\* The version of a tool is 0 or the position of one of its events.
LEMMA VersionInFeed ==
    ASSUME feed \in Seq([tool : Tools, created : BOOLEAN]), NEW t
    PROVE  Version(t) \in Markers
<1>1. CASE ~ \E i \in 1..Len(feed) : feed[i].tool = t
  BY <1>1 DEF Version, VersionIn, Markers
<1>2. CASE \E i \in 1..Len(feed) : feed[i].tool = t
  <2> DEFINE S == {i \in 1..Len(feed) : feed[i].tool = t}
  <2>1. Len(feed) \in Nat
    OBVIOUS
  <2>2. S \in SUBSET (0..Len(feed)) /\ S # {}
    BY <1>2, <2>1
  <2>3. \E m \in S : \A k \in S : k <= m
    BY <2>1, <2>2, MaxExists
  <2>4. \E i \in 1..Len(feed) :
          feed[i].tool = t /\ \A j \in 1..Len(feed) : feed[j].tool = t => j <= i
    BY <2>3
  <2>5. Version(t) \in 1..Len(feed)
    <3> DEFINE Latest(i) ==
          feed[i].tool = t /\ \A j \in 1..Len(feed) : feed[j].tool = t => j <= i
    <3>1. Version(t) = CHOOSE i \in 1..Len(feed) : Latest(i)
      BY <1>2 DEF Version, VersionIn
    <3>2. \E i \in 1..Len(feed) : Latest(i)
      BY <2>4
    <3> HIDE DEF Latest
    <3> QED
      BY <3>1, <3>2
  <2> QED
    BY <2>1, <2>5 DEF Markers
<1> QED
  BY <1>1, <1>2

LEMMA RowsOfType ==
    ASSUME UpstreamTypes, NEW p
    PROVE  /\ RowsOf(p) \subseteq [tool : Tools, ver : Markers]
           /\ ListingPage(p) \subseteq Tools
<1>1. \A t : Version(t) \in Markers
  BY VersionInFeed DEF UpstreamTypes
<1> QED
  BY <1>1 DEF RowsOf, ListingPage, UpstreamTypes

\* Storing rows keeps a version for every tool.
LEMMA UpsertedType ==
    ASSUME RowTypes, NEW some, some \subseteq [tool : Tools, ver : Markers]
    PROVE  Upserted(some) \in [Tools -> Versions]
<1>1. ASSUME NEW t \in Tools, t \in Names(some)
      PROVE  RowOf(some, t).ver \in Versions
  <2>1. \E r \in some : r.tool = t
    BY <1>1 DEF Names
  <2>2. RowOf(some, t) \in some
    BY <2>1 DEF RowOf
  <2> QED
    BY <2>2 DEF Versions
<1> QED
  BY <1>1 DEF Upserted, RowTypes

\* A nonempty set of events has an oldest one.
LEMMA OldestInSet ==
    ASSUME NEW S \in SUBSET Nat, S # {}
    PROVE  Oldest(S) \in S /\ \A i \in S : Oldest(S) <= i
BY MinExists DEF Oldest

(***************************************************************************)
(* Type correctness                                                        *)
(***************************************************************************)
\* The values every phase starts from.
LEMMA NoLocalsTypes ==
    ASSUME Len(feed) \in Nat
    PROVE  NoScan \in Scans /\ NoWork \in Works /\ NoListing \in Listings
<1>1. NoScan \in Scans
  BY DEF NoScan, NoMarker, Markers, Events, Scans
<1>2. NoWork \in Works
  BY DEF NoWork, Works
<1>3. NoListing \in Listings
  BY DEF NoListing, Listings
<1> QED
  BY <1>1, <1>2, <1>3

\* Nothing has happened yet.
LEMMA InitTypes == Init => TypeOK
<1> SUFFICES ASSUME Init PROVE TypeOK
  OBVIOUS
<1>1. Len(feed) = 0 /\ UpstreamTypes
  BY SizesAssumption DEF Init, UpstreamTypes, Markers
<1>2. NoScan \in Scans /\ NoWork \in Works /\ NoListing \in Listings
  BY <1>1, NoLocalsTypes
<1>3. RunTypes
  BY <1>2 DEF Init, RunTypes, Phases
<1>4. recovering \in BOOLEAN /\ backfilled \in BOOLEAN /\ snapOpen \in BOOLEAN
  BY DEF Init
<1>5. RecentTypes
  <2>1. cursor \in Markers /\ scanLatest \in Markers /\ scanBoundary \in Markers
    BY <1>1 DEF Init, Markers, NoMarker
  <2>2. scanPage \in Nat \ {0} /\ pending \subseteq Tools
    BY DEF Init
  <2> QED
    BY <1>4, <2>1, <2>2 DEF RecentTypes
<1>6. LaneTypes /\ SnapTypes
  <2>1. nextPage \in Nat \ {0} /\ reconcilePage \in Nat \ {0} /\ snapPage \in Nat \ {0}
    BY DEF Init
  <2>2. snapGen \in Nat /\ snapCount \in Nat
    BY DEF Init
  <2>3. stage \subseteq [gen : Nat, tool : Tools, ver : Markers]
    BY DEF Init
  <2> QED
    BY <1>4, <2>1, <2>2, <2>3 DEF LaneTypes, SnapTypes
<1>7. RowTypes
  BY DEF Init, RowTypes, Versions
<1>8. DigestTypes /\ HistoryTypes
  BY <1>1 DEF Init, DigestTypes, HistoryTypes, Markers, NoMarker
<1> QED
  BY <1>1, <1>3, <1>4, <1>5, <1>6, <1>7, <1>8 DEF TypeOK

\* Toolhub moves: the feed only grows, so what was a marker stays one.
LEMMA UpstreamTypesKept == TypeOK /\ Upstream => TypeOK'
<1> SUFFICES ASSUME TypeOK, Upstream PROVE TypeOK'
  OBVIOUS
<1>1. /\ feed' \in Seq([tool : Tools, created : BOOLEAN])
      /\ Len(feed') \in Nat /\ Len(feed) \in Nat /\ Len(feed') >= Len(feed)
  <2>1. feed \in Seq([tool : Tools, created : BOOLEAN])
    BY DEF TypeOK, UpstreamTypes
  <2>2. CASE feed' = feed
    BY <2>1, <2>2
  <2>3. ASSUME NEW t \in Tools, NEW isNew \in BOOLEAN,
               feed' = Append(feed, [tool |-> t, created |-> isNew])
        PROVE  /\ feed' \in Seq([tool : Tools, created : BOOLEAN])
               /\ Len(feed') \in Nat /\ Len(feed) \in Nat /\ Len(feed') >= Len(feed)
    BY <2>1, <2>3
  <2>4. \/ feed' = feed
        \/ \E t \in Tools, isNew \in BOOLEAN :
             feed' = Append(feed, [tool |-> t, created |-> isNew])
    BY DEF Upstream, UpstreamEdit, UpstreamCreate, UpstreamRemove, UpstreamTrim, Announce
  <2> QED
    BY <2>2, <2>3, <2>4
<1>2. Markers \subseteq Markers' /\ Events \subseteq Events'
  BY <1>1 DEF Markers, Events
<1>3. Versions \subseteq Versions'
  BY <1>2 DEF Versions
<1>4. UpstreamTypes' /\ HistoryTypes'
  <2>1. live' \subseteq Tools /\ creates' \in Nat /\ removals' \in Nat
    <3>1. live \subseteq Tools /\ creates \in Nat /\ removals \in Nat
      BY DEF TypeOK, UpstreamTypes
    <3>2. creates' \in {creates, creates + 1} /\ removals' \in {removals, removals + 1}
      BY DEF Upstream, UpstreamEdit, UpstreamCreate, UpstreamRemove, UpstreamTrim
    <3>3. live' = live \/ \E t \in Tools : live' = live \cup {t} \/ live' = live \ {t}
      BY DEF Upstream, UpstreamEdit, UpstreamCreate, UpstreamRemove, UpstreamTrim
    <3> QED
      BY <3>1, <3>2, <3>3
  <2>2. trimmed' \in Markers'
    <3>1. CASE UpstreamTrim
      BY <1>1, <3>1 DEF UpstreamTrim, TypeOK, UpstreamTypes, Markers
    <3>2. CASE trimmed' = trimmed
      BY <1>2, <3>2 DEF TypeOK, UpstreamTypes
    <3> QED
      BY <3>1, <3>2 DEF Upstream, UpstreamEdit, UpstreamCreate, UpstreamRemove
  <2>3. anchor' = anchor /\ abandoned' = abandoned
    BY DEF Upstream, UpstreamEdit, UpstreamCreate, UpstreamRemove, UpstreamTrim,
           historyVars
  <2>4. unasked' \subseteq Tools /\ steady' \subseteq Tools
    BY DEF Upstream, UpstreamEdit, UpstreamCreate, UpstreamRemove, UpstreamTrim,
           Announce, historyVars, TypeOK, HistoryTypes
  <2> QED
    BY <1>1, <1>2, <2>1, <2>2, <2>3, <2>4 DEF TypeOK, UpstreamTypes, HistoryTypes
<1>5. RecentTypes' /\ LaneTypes' /\ SnapTypes' /\ RowTypes' /\ DigestTypes'
  BY <1>2, <1>3 DEF Upstream, recentVars, laneVars, snapVars, rowVars, digestVars, TypeOK,
     RecentTypes, LaneTypes, SnapTypes, RowTypes, DigestTypes
<1>6. RunTypes'
  BY <1>2 DEF Upstream, runVars, TypeOK, RunTypes, Phases, Scans, Works, Listings
<1> QED
  BY <1>4, <1>5, <1>6 DEF TypeOK

\* While the feed stands, every group of variables a step leaves alone keeps
\* its types.
LEMMA TypesStill ==
    ASSUME TypeOK, feed' = feed
    PROVE  /\ Markers' = Markers /\ Events' = Events /\ Versions' = Versions
           /\ Scans' = Scans /\ Works' = Works /\ Listings' = Listings
           /\ UNCHANGED upstreamVars => UpstreamTypes'
           /\ UNCHANGED recentVars => RecentTypes'
           /\ UNCHANGED laneVars => LaneTypes'
           /\ UNCHANGED snapVars => SnapTypes'
           /\ UNCHANGED rowVars => RowTypes'
           /\ UNCHANGED digestVars => DigestTypes'
           /\ UNCHANGED runVars => RunTypes'
           /\ UNCHANGED historyVars => HistoryTypes'
<1>1. Markers' = Markers /\ Events' = Events
  BY DEF Markers, Events
<1>2. Versions' = Versions
  BY <1>1 DEF Versions
<1>3. Scans' = Scans /\ Works' = Works /\ Listings' = Listings
  BY <1>1 DEF Scans, Works, Listings
<1>4. /\ UNCHANGED upstreamVars => UpstreamTypes'
      /\ UNCHANGED recentVars => RecentTypes'
      /\ UNCHANGED laneVars => LaneTypes'
  BY <1>1 DEF TypeOK, upstreamVars, recentVars, laneVars, UpstreamTypes, RecentTypes,
              LaneTypes
<1>5. /\ UNCHANGED snapVars => SnapTypes'
      /\ UNCHANGED rowVars => RowTypes'
      /\ UNCHANGED digestVars => DigestTypes'
  BY <1>1, <1>2 DEF TypeOK, snapVars, rowVars, digestVars, SnapTypes, RowTypes,
              DigestTypes
<1>6. /\ UNCHANGED runVars => RunTypes'
      /\ UNCHANGED historyVars => HistoryTypes'
  BY <1>1, <1>3 DEF TypeOK, runVars, historyVars, RunTypes, HistoryTypes, Phases
<1> QED
  BY <1>1, <1>2, <1>3, <1>4, <1>5, <1>6

\* A run that changes phase, or ends, has well-typed local variables.
LEMMA ContinueTypes ==
    ASSUME TypeOK, feed' = feed, NEW phase \in Phases, Continue(phase),
           failures' \in Nat
    PROVE  RunTypes'
<1>1. Len(feed) \in Nat
  BY DEF TypeOK, UpstreamTypes
<1> QED
  BY <1>1, TypesStill, NoLocalsTypes DEF Continue, RunTypes, Phases

\* Steps that only move the run on or end it.
Idling ==
    \/ Fail \/ PastEndFails \/ ReconcileNotDue \/ StartIntegrity \/ StartBackfill
    \/ StartRecent \/ ReconcileDue

LEMMA IdlingTypes == TypeOK /\ Idling => TypeOK'
<1> SUFFICES ASSUME TypeOK, Idling PROVE TypeOK'
  OBVIOUS
<1>1. UNCHANGED <<upstreamVars, recentVars, laneVars, snapVars, rowVars,
                  digestVars, historyVars>>
  BY DEF Idling, Fail, PastEndFails, ReconcileNotDue, StartIntegrity, StartBackfill,
         StartRecent, ReconcileDue
<1>2. feed' = feed
  BY <1>1 DEF upstreamVars
<1>3. RunTypes'
  <2>0. /\ RunTypes /\ RecentTypes /\ LaneTypes /\ Len(feed) \in Nat
        /\ "idle" \in Phases
    BY DEF TypeOK, UpstreamTypes, Phases
  <2>1. NoScan \in Scans /\ NoWork \in Works /\ NoListing \in Listings
    BY <2>0, NoLocalsTypes
  <2>2. CASE Fail
    <3>1. failures' \in Nat
      BY <2>0, <2>2 DEF Fail, RunTypes
    <3> QED
      BY <1>2, <2>0, <2>2, <3>1, ContinueTypes DEF Fail, RunOver
  <2>3. CASE PastEndFails \/ ReconcileNotDue
    <3>1. failures' \in Nat
      BY <2>0, <2>3 DEF PastEndFails, ReconcileNotDue, RunTypes
    <3> QED
      BY <1>2, <2>0, <2>3, <3>1, ContinueTypes DEF PastEndFails, ReconcileNotDue, RunOver
  <2>4. CASE StartIntegrity
    BY <1>2, <2>0, <2>4, TypesStill DEF StartIntegrity, RunTypes, Phases
  <2>5. CASE StartBackfill
    <3>1. listing' \in Listings
      BY <2>0, <2>1, <2>5 DEF StartBackfill, LaneTypes, Listings, NoListing
    <3> QED
      BY <1>2, <2>0, <2>5, <3>1, TypesStill DEF StartBackfill, RunTypes, Phases
  <2>6. CASE StartRecent
    <3>1. FirstScanPage \in Nat \ {0}
      BY <2>0 DEF FirstScanPage, RecentTypes
    <3>2. scan' \in Scans
      BY <2>0, <2>1, <2>6, <3>1 DEF StartRecent, RecentTypes, Scans, NoScan
    <3> QED
      BY <1>2, <2>0, <2>6, <3>2, TypesStill DEF StartRecent, RunTypes, Phases
  <2>7. CASE ReconcileDue
    <3>1. listing' \in Listings
      BY <2>0, <2>1, <2>7 DEF ReconcileDue, LaneTypes, Listings, NoListing
    <3> QED
      BY <1>2, <2>0, <2>1, <2>7, <3>1, TypesStill DEF ReconcileDue, RunTypes, Phases
  <2> QED
    BY <2>2, <2>3, <2>4, <2>5, <2>6, <2>7 DEF Idling
<1> QED
  BY <1>1, <1>2, <1>3, TypesStill DEF TypeOK

\* Pages of the listing: what a fetch stores, and where a lane goes on.
ListingLanes == BackfillFetch \/ BackfillStore \/ ReconcileFetch \/ ReconcileStore

LEMMA FetchListingTypes ==
    ASSUME TypeOK, feed' = feed, FetchListing
    PROVE  listing' \in Listings /\ canon' \in [Tools -> Versions] /\ unasked' \subseteq Tools
<1>1. RowsOf(listing.page) \in SUBSET [tool : Tools, ver : Markers]
  BY RowsOfType DEF TypeOK
<1>2. listing' \in Listings
  <2>1. ListingMore(listing.page) \in BOOLEAN
    BY DEF ListingMore
  <2>2. listing \in Listings
    BY DEF TypeOK, RunTypes
  <2> QED
    BY <1>1, <2>1, <2>2 DEF FetchListing, Listings
<1>3. canon' \in [Tools -> Versions]
  BY <1>1, UpsertedType DEF FetchListing, TypeOK
<1>4. unasked' \subseteq Tools
  BY DEF FetchListing, TypeOK, HistoryTypes
<1> QED
  BY <1>2, <1>3, <1>4

LEMMA ListingLanesTypes == TypeOK /\ ListingLanes => TypeOK'
<1> SUFFICES ASSUME TypeOK, ListingLanes PROVE TypeOK'
  OBVIOUS
<1>1. feed' = feed
  BY DEF ListingLanes, BackfillFetch, BackfillStore, ReconcileFetch, ReconcileStore,
         upstreamVars
<1>2. CASE BackfillFetch \/ ReconcileFetch
  <2>1. /\ UNCHANGED <<scan, work, failures, upstreamVars, recentVars, laneVars,
                       snapVars, apiCache, digestVars, anchor, abandoned, steady>>
        /\ FetchListing /\ pc' \in Phases
    BY <1>2 DEF BackfillFetch, ReconcileFetch, Phases
  <2>2. /\ listing' \in Listings /\ canon' \in [Tools -> Versions]
        /\ unasked' \subseteq Tools
    BY <1>1, <2>1, FetchListingTypes
  <2>3. RunTypes'
    BY <1>1, <2>1, <2>2, TypesStill DEF TypeOK, RunTypes, Phases
  <2>4. RowTypes' /\ HistoryTypes'
    BY <1>1, <2>1, <2>2, TypesStill DEF TypeOK, RowTypes, HistoryTypes
  <2> QED
    BY <1>1, <2>1, <2>3, <2>4, TypesStill DEF TypeOK
<1>3. CASE BackfillStore \/ ReconcileStore
  <2>1. UNCHANGED <<failures, upstreamVars, recentVars, snapVars, rowVars, digestVars,
                    historyVars>>
    BY <1>3 DEF BackfillStore, ReconcileStore
  <2>2. RunTypes /\ Len(feed) \in Nat /\ "idle" \in Phases /\ failures' \in Nat
    BY <2>1 DEF TypeOK, UpstreamTypes, RunTypes, Phases
  <2>3. listing.page + 1 \in Nat \ {0} /\ NextListingPage \in Nat \ {0}
    BY <2>2 DEF RunTypes, Listings, NextListingPage
  <2>4. LaneTypes'
    <3>1. LaneTypes /\ listing.more \in BOOLEAN
      BY <2>2 DEF TypeOK, RunTypes, Listings
    <3>2. /\ nextPage' \in {nextPage, NextListingPage}
          /\ reconcilePage' \in {reconcilePage, NextListingPage}
      BY <1>3 DEF BackfillStore, ReconcileStore
    <3>3. backfilled' \in BOOLEAN
      BY <1>3, <3>1 DEF BackfillStore, ReconcileStore, LaneTypes
    <3> QED
      BY <2>3, <3>1, <3>2, <3>3 DEF LaneTypes
  <2>5. RunTypes'
    <3>1. CASE RunOver
      BY <1>1, <2>2, <3>1, ContinueTypes DEF RunOver
    <3>2. CASE ~RunOver
      <4>1. /\ pc' = "backfill" /\ UNCHANGED <<scan, work, failures>>
            /\ listing' = [NoListing EXCEPT !.page = listing.page + 1]
        BY <1>3, <3>2 DEF BackfillStore, ReconcileStore
      <4>2. listing' \in Listings
        BY <2>2, <2>3, <4>1, NoLocalsTypes DEF Listings, NoListing
      <4> QED
        BY <1>1, <2>2, <4>1, <4>2, TypesStill DEF RunTypes, Phases
    <3> QED
      BY <3>1, <3>2
  <2> QED
    BY <1>1, <2>1, <2>4, <2>5, TypesStill DEF TypeOK
<1> QED
  BY <1>2, <1>3 DEF ListingLanes

\* The rows of a page of the feed beyond the boundary are events.
LEMMA ScanRowsType ==
    ASSUME TypeOK
    PROVE  /\ RowsAfterSeek \subseteq Events
           /\ \A S \in SUBSET RowsAfterSeek :
                S # {} => Oldest(S) \in S /\ Oldest(S) \in Markers
           /\ SightedLatest \in Markers
<1>1. Len(feed) \in Nat /\ scan \in Scans
  BY DEF TypeOK, UpstreamTypes, RunTypes
<1>2. RowsAfterSeek \subseteq Events /\ Events \subseteq Markers /\ Markers \subseteq Nat
  BY <1>1 DEF RowsAfterSeek, FeedPage, Events, Markers
<1>3. \A S \in SUBSET RowsAfterSeek :
        S # {} => Oldest(S) \in S /\ Oldest(S) \in Markers
  BY <1>2, OldestInSet
<1>4. SightedLatest \in Markers
  BY <1>1 DEF SightedLatest, Scans, Markers
<1> QED
  BY <1>2, <1>3, <1>4

Scanning == ScanTooDeep \/ ScanAnchors \/ ScanMeetsCursor \/ ScanGoesOn

LEMMA ScanningTypes == TypeOK /\ Scanning => TypeOK'
<1> SUFFICES ASSUME TypeOK, Scanning PROVE TypeOK'
  OBVIOUS
<1>1. /\ ScanFrame /\ feed' = feed
  BY DEF Scanning, ScanTooDeep, ScanAnchors, ScanMeetsCursor, ScanGoesOn, ScanFrame,
         upstreamVars
<1>2. scan \in Scans /\ pc' \in Phases
  BY DEF Scanning, ScanTooDeep, ScanAnchors, ScanMeetsCursor, ScanGoesOn, TypeOK,
         RunTypes, Phases
<1>3. abandoned' \subseteq Events
  BY DEF Scanning, ScanTooDeep, ScanAnchors, ScanMeetsCursor, ScanGoesOn, TypeOK,
         HistoryTypes, Events
<1>4. scan' \in Scans
  <2>1. CASE ScanTooDeep
    BY <1>2, <2>1 DEF ScanTooDeep
  <2>2. CASE ScanAnchors
    BY <1>2, <2>2, ScanRowsType DEF ScanAnchors, Scans
  <2>3. CASE ScanMeetsCursor
    <3> DEFINE new == {i \in RowsAfterSeek : i > cursor}
               low == IF new = {} THEN scan.bound ELSE Oldest(new)
    <3>1. new \subseteq RowsAfterSeek /\ low \in Markers
      BY <1>2, ScanRowsType DEF Scans
    <3>2. scan.seen \cup new \in SUBSET Events
      BY <1>2, <3>1, ScanRowsType DEF Scans
    <3>3. scan' = [scan EXCEPT !.latest = SightedLatest, !.seen = scan.seen \cup new,
                               !.bound = low, !.complete = TRUE]
      BY <2>3 DEF ScanMeetsCursor
    <3> HIDE DEF new, low
    <3> QED
      BY <1>2, <3>1, <3>2, <3>3, ScanRowsType DEF Scans
  <2>4. CASE ScanGoesOn
    <3> DEFINE new == IF Seeking THEN {} ELSE RowsAfterSeek
               low == IF new = {} THEN scan.bound ELSE Oldest(new)
               spent == scan.fetched + 1 = MaxPagesPerRun
               next == IF spent \/ ~FeedMore(scan.page) THEN scan.page ELSE scan.page + 1
               sought == IF Seeking THEN scan.seek ELSE NoMarker
    <3>1. new \subseteq RowsAfterSeek /\ low \in Markers
      BY <1>2, ScanRowsType DEF Scans
    <3>2. scan.seen \cup new \in SUBSET Events
      BY <1>2, <3>1, ScanRowsType DEF Scans
    <3>3. next \in Nat \ {0} /\ scan.fetched + 1 \in Nat
      BY <1>2 DEF Scans
    <3>4. sought \in Markers
      <4>1. Len(feed) \in Nat
        BY DEF TypeOK, UpstreamTypes
      <4> QED
        BY <1>2, <4>1 DEF Scans, NoMarker, Markers
    <3>5. scan' = [scan EXCEPT !.latest = SightedLatest, !.seen = scan.seen \cup new,
                               !.bound = low, !.seek = sought,
                               !.fetched = scan.fetched + 1, !.page = next]
      BY <2>4 DEF ScanGoesOn
    <3> HIDE DEF new, low, next, sought
    <3> QED
      BY <1>2, <3>1, <3>2, <3>3, <3>4, <3>5, ScanRowsType DEF Scans
  <2> QED
    BY <2>1, <2>2, <2>3, <2>4 DEF Scanning
<1>5. RunTypes' /\ HistoryTypes'
  BY <1>1, <1>2, <1>3, <1>4, TypesStill DEF ScanFrame, TypeOK, RunTypes, HistoryTypes,
     Phases
<1> QED
  BY <1>1, <1>5, TypesStill DEF ScanFrame, TypeOK

\* Dropping staged rows, and the death that may come instead.
LEMMA DiscardTypes ==
    ASSUME TypeOK, feed' = feed, NEW next \in Phases, DiscardStage(next)
    PROVE  RunTypes' /\ stage' \subseteq stage
<1>1. failures' \in Nat /\ "idle" \in Phases
  BY DEF DiscardStage, TypeOK, RunTypes, Phases
<1>2. Continue(next) \/ Continue("idle")
  BY DEF DiscardStage, RunOver
<1>3. stage' \subseteq stage
  BY DEF DiscardStage
<1> QED
  BY <1>1, <1>2, <1>3, ContinueTypes

\* Closing a snapshot.
LEMMA ResetTypes ==
    ASSUME TypeOK, feed' = feed, ResetSnapshot, UNCHANGED snapGen, stage' \subseteq stage
    PROVE  SnapTypes' /\ steady' \subseteq Tools
<1>1. snapOpen' \in BOOLEAN /\ steady' \subseteq Tools
  BY DEF ResetSnapshot
<1>2. snapPage' \in Nat \ {0} /\ snapCount' \in Nat /\ snapGen' \in Nat
  BY DEF ResetSnapshot, TypeOK, SnapTypes
<1>3. stage' \subseteq [gen : Nat, tool : Tools, ver : Markers']
  BY TypesStill DEF TypeOK, SnapTypes
<1> QED
  BY <1>1, <1>2, <1>3 DEF SnapTypes

LEMMA StoreAnchorTypes == TypeOK /\ StoreAnchor => TypeOK'
<1> SUFFICES ASSUME TypeOK, StoreAnchor PROVE TypeOK'
  OBVIOUS
<1>1. /\ feed' = feed /\ failures' \in Nat /\ scan.latest \in Markers
      /\ "hydrate" \in Phases
  BY DEF StoreAnchor, upstreamVars, TypeOK, RunTypes, Scans, Phases
<1>2. RunTypes'
  BY <1>1, ContinueTypes DEF StoreAnchor
<1>3. RecentTypes'
  BY <1>1, TypesStill DEF StoreAnchor, TypeOK, RecentTypes
<1>4. HistoryTypes'
  BY <1>1, TypesStill DEF StoreAnchor, TypeOK, HistoryTypes
<1> QED
  BY <1>1, <1>2, <1>3, <1>4, TypesStill DEF StoreAnchor, TypeOK

\* The tools the events of a scan name are tools.
LEMMA ChangedTypes ==
    ASSUME TypeOK, NEW S \in SUBSET Events
    PROVE  Changed(S) \subseteq Tools /\ Creations(S) \subseteq Events
<1>1. \A i \in Events : feed[i].tool \in Tools
  <2>1. feed \in Seq([tool : Tools, created : BOOLEAN])
    BY DEF TypeOK, UpstreamTypes
  <2>2. ASSUME NEW i \in 1..Len(feed)
        PROVE  feed[i] \in [tool : Tools, created : BOOLEAN]
    BY <2>1, ElementOfSeq
  <2> QED
    BY <2>2 DEF Events
<1> QED
  BY <1>1 DEF Changed, Creations

LEMMA CaptureTypes == TypeOK /\ (Capture \/ LostCapture) => TypeOK'
<1> SUFFICES ASSUME TypeOK, Capture \/ LostCapture PROVE TypeOK'
  OBVIOUS
<1>1. /\ UNCHANGED <<scan, listing, failures, upstreamVars, recentVars, laneVars, snapVars,
                     rowVars, historyVars, pollMarker>>
      /\ feed' = feed
  BY DEF Capture, LostCapture, upstreamVars
<1>2. scan.seen \in SUBSET Events /\ pending \subseteq Tools /\ work \in Works
  BY DEF TypeOK, RunTypes, Scans, RecentTypes
<1>3. DigestTypes'
  <2>1. captured' \subseteq captured \cup Creations(scan.seen)
    BY DEF Capture, LostCapture, LostCaptured
  <2>2. Creations(scan.seen) \subseteq Events
    BY <1>2, ChangedTypes
  <2>3. captured \subseteq Events /\ pollMarker \in Markers
    BY DEF TypeOK, DigestTypes
  <2> QED
    BY <1>1, <2>1, <2>2, <2>3, TypesStill DEF DigestTypes
<1>4. work' \in Works
  BY <1>2, ChangedTypes DEF Capture, LostCapture, Works
<1>5. pc' \in Phases
  BY DEF Capture, LostCapture, Phases
<1>6. RunTypes'
  BY <1>1, <1>4, <1>5, TypesStill DEF TypeOK, RunTypes, Phases
<1> QED
  BY <1>1, <1>3, <1>6, TypesStill DEF TypeOK

\* One detail, refreshed, gone, refused or hydrated.
Detail(t) == DetailRefreshed(t) \/ DetailGone(t) \/ DetailFails(t) \/ Hydrate(t)

LEMMA DetailTypes == ASSUME TypeOK, NEW t \in Tools, Detail(t) PROVE TypeOK'
<1>1. DetailFrame /\ feed' = feed
  BY DEF Detail, DetailRefreshed, DetailGone, DetailFails, Hydrate, DetailFrame,
         upstreamVars
<1>2. Version(t) \in Markers
  BY VersionInFeed DEF TypeOK, UpstreamTypes
<1>3. RowTypes'
  <2>1. DetailAnswered(t) \/ UNCHANGED rowVars
    BY DEF Detail, DetailRefreshed, DetailGone, DetailFails, Hydrate
  <2>2. CASE DetailAnswered(t)
    <3>1. /\ canon \in [Tools -> Versions] /\ apiCache \in [Tools -> Versions]
          /\ Version(t) \in Versions /\ apiCache[t] \in Versions
      BY <1>2 DEF TypeOK, RowTypes, Versions
    <3>2. canon' \in [Tools -> Versions] /\ apiCache' \in [Tools -> Versions]
      BY <2>2, <3>1 DEF DetailAnswered
    <3> QED
      BY <1>1, <3>2, TypesStill DEF RowTypes
  <2> QED
    BY <1>1, <2>1, <2>2, TypesStill
<1>4. work' \in Works /\ failures' \in Nat
  <2>1. work \in Works /\ failures \in Nat
    BY DEF TypeOK, RunTypes
  <2>2. failures' \in {failures, failures + 1}
    BY DEF Detail, DetailRefreshed, DetailGone, DetailFails, Hydrate
  <2>3. \/ work' = work
        \/ work' = [work EXCEPT !.todo = work.todo \ {t}]
        \/ work' = [todo |-> work.todo \ {t}, remaining |-> work.remaining \cup {t}]
    BY DEF Detail, DetailRefreshed, DetailGone, DetailFails, Hydrate
  <2>4. work' \in Works
    BY <2>1, <2>3 DEF Works
  <2> QED
    BY <2>1, <2>2, <2>4
<1>5. RunTypes'
  BY <1>1, <1>4, TypesStill DEF DetailFrame, TypeOK, RunTypes, Phases
<1>6. HistoryTypes'
  <2>1. unasked' \subseteq unasked
    BY DEF Detail, DetailRefreshed, DetailGone, DetailFails, Hydrate
  <2> QED
    BY <1>1, <2>1, TypesStill DEF DetailFrame, TypeOK, HistoryTypes
<1> QED
  BY <1>1, <1>3, <1>5, <1>6, TypesStill DEF DetailFrame, TypeOK

LEMMA StoreProgressTypes == TypeOK /\ StoreProgress => TypeOK'
<1> SUFFICES ASSUME TypeOK, StoreProgress PROVE TypeOK'
  OBVIOUS
<1>1. /\ UNCHANGED <<snapGen, upstreamVars, laneVars, rowVars, digestVars, anchor,
                     unasked, abandoned>>
      /\ feed' = feed /\ "hydrate" \in Phases
  BY DEF StoreProgress, upstreamVars, Phases
<1>2. RecentTypes'
  <2>1. scan \in Scans /\ work \in Works /\ cursor \in Markers /\ Len(feed) \in Nat
    BY DEF TypeOK, RunTypes, RecentTypes, UpstreamTypes
  <2>2. NextCursor \in Markers /\ NextBoundary \in Markers /\ NoMarker \in Markers
    BY <2>1 DEF NextCursor, NextBoundary, NoMarker, Markers, Scans
  <2>3. scanPage' \in Nat \ {0}
    BY <2>1 DEF StoreProgress, Scans
  <2>4. cursor' \in Markers /\ scanLatest' \in Markers /\ scanBoundary' \in Markers
    BY <2>1, <2>2 DEF StoreProgress, Scans
  <2>5. pending' \subseteq Tools /\ recovering' \in BOOLEAN
    BY <2>1 DEF StoreProgress, Works
  <2> QED
    BY <1>1, <2>3, <2>4, <2>5, TypesStill DEF RecentTypes
<1>3. RunTypes' /\ SnapTypes' /\ steady' \subseteq Tools
  <2>1. CASE recovering
    BY <1>1, <2>1, DiscardTypes, ResetTypes DEF StoreProgress
  <2>2. CASE ~recovering
    <3>1. Continue("hydrate") /\ UNCHANGED <<failures, snapVars, steady>>
      BY <2>2 DEF StoreProgress, snapVars
    <3>2. failures' \in Nat /\ steady' \subseteq Tools
      BY <3>1 DEF TypeOK, RunTypes, HistoryTypes
    <3> QED
      BY <1>1, <3>1, <3>2, ContinueTypes, TypesStill
  <2> QED
    BY <2>1, <2>2
<1>4. HistoryTypes'
  BY <1>1, <1>3, TypesStill DEF TypeOK, HistoryTypes
<1> QED
  BY <1>1, <1>2, <1>3, <1>4, TypesStill DEF TypeOK

LEMMA PrepareRecoveryTypes == TypeOK /\ PrepareRecovery => TypeOK'
<1> SUFFICES ASSUME TypeOK, PrepareRecovery PROVE TypeOK'
  OBVIOUS
<1>1. /\ UNCHANGED <<cursor, snapGen, upstreamVars, laneVars, rowVars, digestVars,
                     anchor, unasked, abandoned>>
      /\ feed' = feed /\ "snapBegin" \in Phases
  BY DEF PrepareRecovery, upstreamVars, Phases
<1>2. RecentTypes'
  <2>1. scan \in Scans /\ RecentTypes /\ Len(feed) \in Nat
    BY DEF TypeOK, RunTypes, UpstreamTypes
  <2>2. scan.seen \in SUBSET Events /\ scan.latest \in Markers /\ NoMarker \in Markers
    BY <2>1 DEF Scans, NoMarker, Markers
  <2>3. cursor' \in Markers /\ scanLatest' \in Markers /\ scanBoundary' \in Markers
    BY <1>1, <2>1, <2>2 DEF PrepareRecovery, RecentTypes
  <2>4. scanPage' \in Nat \ {0}
    BY DEF PrepareRecovery
  <2>5. pending' \subseteq Tools /\ recovering' \in BOOLEAN
    BY <2>1, <2>2, ChangedTypes DEF PrepareRecovery, RecentTypes
  <2> QED
    BY <1>1, <2>3, <2>4, <2>5, TypesStill DEF RecentTypes
<1>3. RunTypes' /\ SnapTypes' /\ steady' \subseteq Tools
  <2>1. CASE snapOpen /\ ~recovering
    BY <1>1, <2>1, DiscardTypes, ResetTypes DEF PrepareRecovery, SnapshotPredates
  <2>2. CASE ~(snapOpen /\ ~recovering)
    <3>1. Continue("snapBegin") /\ UNCHANGED <<failures, snapVars, steady>>
      BY <2>2 DEF PrepareRecovery, SnapshotPredates, snapVars
    <3>2. failures' \in Nat /\ steady' \subseteq Tools
      BY <3>1 DEF TypeOK, RunTypes, HistoryTypes
    <3> QED
      BY <1>1, <3>1, <3>2, ContinueTypes, TypesStill
  <2> QED
    BY <2>1, <2>2
<1>4. HistoryTypes'
  BY <1>1, <1>3, TypesStill DEF TypeOK, HistoryTypes
<1> QED
  BY <1>1, <1>2, <1>3, <1>4, TypesStill DEF TypeOK

\* Toolhub lists finitely many tools.
LEMMA CountType == ASSUME TypeOK PROVE Cardinality(live) \in Nat
BY SizesAssumption, FS_Subset, FS_CardinalityType DEF TypeOK, UpstreamTypes

\* A generation told apart from the staged ones.
LEMMA NextGenerationType ==
    ASSUME FreshGenerations # {}
    PROVE  NextGeneration \in FreshGenerations /\ NextGeneration \in Nat
<1>1. FreshGenerations \in SUBSET Nat
  BY DEF FreshGenerations
<1> QED
  BY <1>1, MinExists DEF NextGeneration

LEMMA BeginSnapshotTypes == TypeOK /\ BeginSnapshot => TypeOK'
<1> SUFFICES ASSUME TypeOK, BeginSnapshot PROVE TypeOK'
  OBVIOUS
<1>1. /\ UNCHANGED <<scan, work, failures, stage, upstreamVars, recentVars, laneVars,
                     rowVars, digestVars, anchor, unasked, abandoned>>
      /\ feed' = feed /\ pc' \in Phases
  BY DEF BeginSnapshot, upstreamVars, snapVars, Phases
<1>2. /\ listing' \in Listings
      /\ SnapTypes' /\ steady' \subseteq Tools
  <2>1. SnapTypes /\ live \subseteq Tools /\ steady \subseteq Tools /\ Len(feed) \in Nat
    BY DEF TypeOK, UpstreamTypes, HistoryTypes
  <2>2. NoListing \in Listings
    BY <2>1, NoLocalsTypes
  <2>3. CASE snapOpen
    <3>1. /\ listing' = [NoListing EXCEPT !.page = snapPage, !.count = snapCount]
          /\ UNCHANGED <<snapVars, steady>>
      BY <2>3 DEF BeginSnapshot
    <3>2. listing' \in Listings
      BY <2>1, <2>2, <3>1 DEF Listings, SnapTypes
    <3> QED
      BY <1>1, <2>1, <3>1, <3>2, TypesStill
  <2>4. CASE ~snapOpen
    <3>1. /\ FreshGenerations # {} /\ snapOpen' = TRUE /\ snapGen' = NextGeneration
          /\ snapPage' = 1 /\ snapCount' = 0 /\ listing' = NoListing /\ steady' = live
      BY <2>4 DEF BeginSnapshot
    <3>2. snapGen' \in Nat /\ snapPage' \in Nat \ {0} /\ snapCount' \in Nat
      BY <3>1, NextGenerationType
    <3>3. stage' \subseteq [gen : Nat, tool : Tools, ver : Markers']
      BY <1>1, <2>1, TypesStill DEF SnapTypes
    <3>4. snapOpen' \in BOOLEAN
      BY <3>1
    <3> QED
      BY <2>1, <2>2, <3>1, <3>2, <3>3, <3>4 DEF SnapTypes
  <2> QED
    BY <2>3, <2>4
<1>3. RunTypes' /\ HistoryTypes'
  BY <1>1, <1>2, TypesStill DEF TypeOK, RunTypes, HistoryTypes, Phases
<1> QED
  BY <1>1, <1>2, <1>3, TypesStill DEF TypeOK

LEMMA SnapshotFetchTypes == TypeOK /\ SnapshotFetch => TypeOK'
<1> SUFFICES ASSUME TypeOK, SnapshotFetch PROVE TypeOK'
  OBVIOUS
<1>1. /\ UNCHANGED <<scan, work, failures, upstreamVars, recentVars, laneVars, snapVars,
                     apiCache, digestVars, anchor, abandoned, steady>>
      /\ feed' = feed /\ pc' \in Phases
  BY DEF SnapshotFetch, upstreamVars, Phases
<1>2. RowsOf(listing.page) \in SUBSET [tool : Tools, ver : Markers]
  BY RowsOfType DEF TypeOK
<1>3. listing' \in Listings
  <2>1. ListingMore(listing.page) \in BOOLEAN
    BY DEF ListingMore
  <2>2. listing \in Listings
    BY DEF TypeOK, RunTypes
  <2>3. \/ listing' = listing
        \/ listing' = [listing EXCEPT !.rows = RowsOf(listing.page),
                                      !.more = ListingMore(listing.page),
                                      !.count = Cardinality(live)]
    BY DEF SnapshotFetch
  <2> QED
    BY <1>2, <2>1, <2>2, <2>3, CountType DEF Listings
<1>4. RowTypes'
  BY <1>1, <1>2, UpsertedType, TypesStill DEF SnapshotFetch, TypeOK, RowTypes
<1>5. HistoryTypes'
  BY <1>1, TypesStill DEF SnapshotFetch, TypeOK, HistoryTypes
<1>6. RunTypes'
  BY <1>1, <1>3, TypesStill DEF TypeOK, RunTypes, Phases
<1> QED
  BY <1>1, <1>4, <1>5, <1>6, TypesStill DEF TypeOK

LEMMA SnapshotStageTypes == TypeOK /\ (SnapshotStage \/ SnapshotAdvance) => TypeOK'
<1> SUFFICES ASSUME TypeOK, SnapshotStage \/ SnapshotAdvance PROVE TypeOK'
  OBVIOUS
<1>1. /\ UNCHANGED <<scan, work, failures, snapOpen, snapGen, upstreamVars, recentVars,
                     laneVars, rowVars, digestVars, historyVars>>
      /\ feed' = feed /\ pc' \in Phases
  BY DEF SnapshotStage, SnapshotAdvance, upstreamVars, Phases
<1>2. listing \in Listings /\ SnapTypes
  BY DEF TypeOK, RunTypes
<1>3. SnapTypes'
  <2>1. stage' \subseteq [gen : Nat, tool : Tools, ver : Markers]
    BY <1>2 DEF SnapshotStage, SnapshotAdvance, SnapTypes, Listings
  <2>2. snapPage' \in Nat \ {0} /\ snapCount' \in Nat
    BY <1>2 DEF SnapshotStage, SnapshotAdvance, SnapTypes, Listings
  <2> QED
    BY <1>1, <1>2, <2>1, <2>2, TypesStill DEF SnapTypes
<1>4. listing' \in Listings
  <2>1. \/ listing' = listing
        \/ listing' = [listing EXCEPT !.page = listing.page + 1, !.rows = {}]
    BY DEF SnapshotStage, SnapshotAdvance
  <2>2. listing.page + 1 \in Nat \ {0}
    BY <1>2 DEF Listings
  <2>3. {} \in SUBSET [tool : Tools, ver : Markers]
    OBVIOUS
  <2> DEFINE next == listing.page + 1
  <2> HIDE DEF next
  <2>4. [listing EXCEPT !.page = next, !.rows = {}] \in Listings
    BY <1>2, <2>2, <2>3 DEF Listings, next
  <2> QED
    BY <1>2, <2>1, <2>4 DEF next
<1>5. RunTypes'
  BY <1>1, <1>4, TypesStill DEF TypeOK, RunTypes, Phases
<1> QED
  BY <1>1, <1>3, <1>5, TypesStill DEF TypeOK

LEMMA PublishSnapshotTypes == TypeOK /\ PublishSnapshot => TypeOK'
<1> SUFFICES ASSUME TypeOK, PublishSnapshot PROVE TypeOK'
  OBVIOUS
<1>1. /\ UNCHANGED <<scan, listing, failures, pending, nextPage, reconcilePage, snapGen,
                     apiCache, upstreamVars, digestVars, anchor, abandoned>>
      /\ feed' = feed /\ pc' \in Phases
  BY DEF PublishSnapshot, upstreamVars, Phases
<1>2. RowTypes'
  <2>1. ASSUME NEW t \in Tools, t \in Names(Staged) PROVE RowOf(Staged, t).ver \in Versions
    <3>1. RowOf(Staged, t) \in Staged
      BY <2>1 DEF Names, RowOf
    <3> QED
      BY <3>1 DEF Staged, TypeOK, SnapTypes, Versions
  <2>2. canon' \in [Tools -> Versions]
    BY <2>1 DEF PublishSnapshot, Served, Versions
  <2> QED
    BY <1>1, <2>2, TypesStill DEF TypeOK, RowTypes
<1>3. SnapTypes' /\ steady' \subseteq Tools
  BY <1>1, ResetTypes DEF PublishSnapshot
<1>4. RecentTypes'
  <2>1. RecentTypes /\ Len(feed) \in Nat
    BY DEF TypeOK, UpstreamTypes
  <2>2. cursor' \in Markers /\ scanLatest' \in Markers /\ scanBoundary' \in Markers
    BY <2>1 DEF PublishSnapshot, RecentTypes, NoMarker, Markers
  <2>3. scanPage' \in Nat \ {0}
    BY <2>1 DEF PublishSnapshot, RecentTypes
  <2>4. recovering' \in BOOLEAN
    BY <2>1 DEF PublishSnapshot, RecentTypes
  <2> QED
    BY <1>1, <2>1, <2>2, <2>3, <2>4, TypesStill DEF RecentTypes
<1>5. LaneTypes'
  <2>1. backfilled' \in BOOLEAN
    BY DEF PublishSnapshot
  <2> QED
    BY <1>1, <2>1 DEF TypeOK, LaneTypes
<1>6. RunTypes'
  <2>1. work' \in Works
    BY DEF PublishSnapshot, Retired, Works, NoWork
  <2> QED
    BY <1>1, <2>1, TypesStill DEF TypeOK, RunTypes, Phases
<1>7. HistoryTypes'
  BY <1>1, <1>3, TypesStill DEF PublishSnapshot, TypeOK, HistoryTypes
<1> QED
  BY <1>1, <1>2, <1>3, <1>4, <1>5, <1>6, <1>7, TypesStill DEF TypeOK

\* How a snapshot run ends.
Closing == EvictRetired \/ PublishRefused \/ RestartSnapshot \/ GiveUpSnapshot

LEMMA ClosingTypes == TypeOK /\ Closing => TypeOK'
<1> SUFFICES ASSUME TypeOK, Closing PROVE TypeOK'
  OBVIOUS
<1>1. /\ UNCHANGED <<canon, snapGen, upstreamVars, recentVars, laneVars, digestVars,
                     anchor, unasked, abandoned>>
      /\ feed' = feed /\ "idle" \in Phases /\ "snapBegin" \in Phases
  BY DEF Closing, EvictRetired, PublishRefused, RestartSnapshot, GiveUpSnapshot,
         upstreamVars, snapVars, rowVars, historyVars, Phases
<1>2. CASE EvictRetired
  <2>1. failures' \in Nat
    BY <1>2 DEF EvictRetired, TypeOK, RunTypes
  <2>2. RunTypes'
    BY <1>1, <1>2, <2>1, ContinueTypes DEF EvictRetired, RunOver
  <2>3. RowTypes'
    BY <1>1, <1>2, TypesStill DEF EvictRetired, TypeOK, RowTypes, Versions
  <2> QED
    BY <1>1, <1>2, <2>2, <2>3, TypesStill DEF EvictRetired, TypeOK
<1>3. CASE PublishRefused
  <2>1. RunTypes'
    BY <1>1, <1>3, TypesStill DEF PublishRefused, TypeOK, RunTypes, Phases
  <2> QED
    BY <1>1, <1>3, <2>1, TypesStill DEF PublishRefused, TypeOK
<1>4. CASE RestartSnapshot \/ GiveUpSnapshot
  <2>1. UNCHANGED rowVars /\ ResetSnapshot
    BY <1>4 DEF RestartSnapshot, GiveUpSnapshot
  <2>2. RunTypes' /\ stage' \subseteq stage
    <3>1. CASE RestartSnapshot
      BY <1>1, <3>1, DiscardTypes DEF RestartSnapshot
    <3>2. CASE GiveUpSnapshot
      <4>1. failures' \in Nat /\ RunOver /\ stage' \subseteq stage
        BY <3>2 DEF GiveUpSnapshot, TypeOK, RunTypes
      <4> QED
        BY <1>1, <4>1, ContinueTypes DEF RunOver
    <3> QED
      BY <1>4, <3>1, <3>2
  <2>3. SnapTypes' /\ steady' \subseteq Tools
    BY <1>1, <2>1, <2>2, ResetTypes
  <2>4. HistoryTypes'
    BY <1>1, <2>3, TypesStill DEF TypeOK, HistoryTypes
  <2> QED
    BY <1>1, <2>1, <2>2, <2>3, <2>4, TypesStill DEF TypeOK
<1> QED
  BY <1>2, <1>3, <1>4 DEF Closing

LEMMA CacheTypes == TypeOK /\ Cache => TypeOK'
<1> SUFFICES ASSUME TypeOK, Cache PROVE TypeOK'
  OBVIOUS
<1>1. /\ UNCHANGED <<canon, upstreamVars, recentVars, laneVars, snapVars, captured,
                     runVars, historyVars>>
      /\ feed' = feed
  BY DEF Cache, CachePoll, CacheExpires, upstreamVars, digestVars
<1>2. RowTypes'
  <2>1. apiCache \in [Tools -> Versions] /\ canon \in [Tools -> Versions]
    BY DEF TypeOK, RowTypes
  <2>2. Absent \in Versions
    BY DEF Versions
  <2>3. apiCache' \in [Tools -> Versions]
    BY <2>1, <2>2 DEF Cache, CachePoll, CacheExpires
  <2> QED
    BY <1>1, <2>1, <2>3, TypesStill DEF RowTypes
<1>3. DigestTypes'
  <2>1. pollMarker' = pollMarker \/ pollMarker' = Len(feed)
    BY DEF Cache, CachePoll, CacheExpires, digestVars
  <2>2. Len(feed) \in Nat
    BY DEF TypeOK, UpstreamTypes
  <2>3. pollMarker' \in Markers
    BY <2>1, <2>2 DEF TypeOK, DigestTypes, Markers
  <2> QED
    BY <1>1, <2>3, TypesStill DEF TypeOK, DigestTypes
<1> QED
  BY <1>1, <1>2, <1>3, TypesStill DEF TypeOK

\* Every step is one of the groups above.
LEMMA StepKinds ==
    ASSUME Next
    PROVE  \/ Upstream \/ Idling \/ ListingLanes \/ Scanning \/ StoreAnchor
           \/ Capture \/ LostCapture \/ StoreProgress \/ PrepareRecovery
           \/ BeginSnapshot \/ SnapshotFetch \/ SnapshotStage \/ SnapshotAdvance
           \/ PublishSnapshot \/ Closing \/ Cache
           \/ \E t \in Tools : Detail(t)
BY DEF Next, Progress, Backfill, Scan, Recent, Reconcile, Snapshot, Idling, ListingLanes,
       Scanning, Closing, Detail

LEMMA StepTypes == TypeOK /\ [Next]_vars => TypeOK'
<1> SUFFICES ASSUME TypeOK, [Next]_vars PROVE TypeOK'
  OBVIOUS
<1>1. CASE UNCHANGED vars
  <2>1. /\ UNCHANGED <<upstreamVars, recentVars, laneVars, snapVars, rowVars, digestVars,
                       runVars, historyVars>>
        /\ feed' = feed
    BY <1>1 DEF vars, upstreamVars
  <2> QED
    BY <2>1, TypesStill DEF TypeOK
<1>2. CASE Next
  BY <1>2, StepKinds, UpstreamTypesKept, IdlingTypes, ListingLanesTypes, ScanningTypes,
     StoreAnchorTypes, CaptureTypes, DetailTypes, StoreProgressTypes,
     PrepareRecoveryTypes, BeginSnapshotTypes, SnapshotFetchTypes, SnapshotStageTypes,
     PublishSnapshotTypes, ClosingTypes, CacheTypes
<1> QED
  BY <1>1, <1>2

\* Whatever the sizes and the bounds, every reachable state is well typed: no
\* marker, version, checkpoint or captured event is ahead of the feed.
THEOREM TypeCorrect == Spec => []TypeOK
<1>1. Init => TypeOK
  BY InitTypes
<1>2. TypeOK /\ [Next]_vars => TypeOK'
  BY StepTypes
<1> QED
  BY <1>1, <1>2, PTL DEF Spec

(***************************************************************************)
(* The search for the cursor                                               *)
(***************************************************************************)
\* What leaves page p behind: everything older than the page, and with it what
\* Toolhub no longer returns.
LEMMA LeftBehind ==
    ASSUME TypeOK, NEW i \in Markers, NEW p \in Nat \ {0},
           Reaches(i, p), i \notin FeedPage(p), FeedMore(p)
    PROVE  Reaches(i, p + 1)
<1> DEFINE edge == p * FeedPageSize
<1>1. /\ Len(feed) \in Nat /\ trimmed \in Nat /\ trimmed <= Len(feed) /\ i \in Nat
      /\ i <= Len(feed)
  BY DEF TypeOK, UpstreamTypes, Markers
<1>2. edge \in Nat /\ ((p + 1) - 1) * FeedPageSize = edge
  BY SizesAssumption
<1>3. Len(feed) - trimmed > edge
  BY DEF FeedMore
<1> HIDE DEF edge
<1>4. Len(feed) - i >= edge
  <2>1. CASE i <= trimmed
    BY <1>1, <1>2, <1>3, <2>1
  <2>2. CASE ~(i <= trimmed)
    <3>1. i \in Events /\ i > trimmed /\ Len(feed) - i >= (p - 1) * FeedPageSize
      BY <1>1, <2>2 DEF Events, Reaches
    <3>2. ~(Len(feed) - i < p * FeedPageSize)
      BY <3>1 DEF FeedPage
    <3> QED
      BY <1>1, <1>2, <3>2 DEF edge
  <2> QED
    BY <2>1, <2>2
<1> QED
  BY <1>2, <1>4 DEF Reaches

\* A page with another behind it is full.
LEMMA PageNotEmpty ==
    ASSUME TypeOK, NEW p \in Nat \ {0}, FeedMore(p)
    PROVE  FeedPage(p) # {}
<1> DEFINE near == (p - 1) * FeedPageSize
           edge == p * FeedPageSize
           first == Len(feed) - near
<1>1. /\ Len(feed) \in Nat /\ trimmed \in Nat
      /\ near \in Nat /\ edge \in Nat /\ edge = near + FeedPageSize
      /\ FeedPageSize \in Nat \ {0}
  BY SizesAssumption DEF TypeOK, UpstreamTypes, Markers
<1>2. Len(feed) - trimmed > edge
  BY DEF FeedMore
<1> HIDE DEF near, edge
<1>3. /\ first \in 1..Len(feed) /\ first > trimmed
      /\ Len(feed) - first >= near /\ Len(feed) - first < edge
  BY <1>1, <1>2
<1>4. first \in FeedPage(p)
  BY <1>3 DEF FeedPage, Events, near, edge
<1> QED
  BY <1>4

\* A page that reaches no further back than the cursor, and does not hold it, is
\* all newer than the cursor.
LEMMA PageAboveCursor ==
    ASSUME TypeOK, NEW c \in Markers, NEW p \in Nat \ {0}, NEW j \in FeedPage(p),
           Reaches(c, p), c \notin FeedPage(p)
    PROVE  j > c
<1> DEFINE edge == p * FeedPageSize
<1>1. /\ Len(feed) \in Nat /\ trimmed \in Nat /\ c \in Nat /\ c <= Len(feed)
  BY DEF TypeOK, UpstreamTypes, Markers
<1>2. edge \in Nat
  BY SizesAssumption
<1>3. j \in Nat /\ j > 0 /\ j > trimmed /\ Len(feed) - j < edge
  BY <1>1 DEF FeedPage, Events
<1>4. c \in Events /\ c > trimmed => ~(Len(feed) - c < edge)
  BY DEF FeedPage, Reaches
<1> HIDE DEF edge
<1>5. SUFFICES ASSUME j <= c PROVE FALSE
  BY <1>1, <1>3
<1>6. c \in Events /\ c > trimmed /\ Len(feed) - c < edge
  BY <1>1, <1>2, <1>3, <1>5 DEF Events
<1> QED
  BY <1>4, <1>6

\* Everything reaches the first page, and the page before one it reaches.
LEMMA ReachesNearer ==
    ASSUME TypeOK, NEW i \in Markers
    PROVE  /\ Reaches(i, 1)
           /\ \A p \in Nat \ {0, 1} : Reaches(i, p) => Reaches(i, p - 1)
<1>1. Len(feed) \in Nat /\ i \in Nat /\ i <= Len(feed)
  BY DEF TypeOK, UpstreamTypes, Markers
<1>2. Reaches(i, 1)
  BY <1>1, SizesAssumption DEF Reaches
<1>3. ASSUME NEW p \in Nat \ {0, 1}, Reaches(i, p) PROVE Reaches(i, p - 1)
  <2> DEFINE edge == (p - 1) * FeedPageSize
             nearer == ((p - 1) - 1) * FeedPageSize
  <2>1. edge = nearer + FeedPageSize /\ edge \in Int /\ nearer \in Int
    BY SizesAssumption
  <2>2. Len(feed) - i >= edge
    BY <1>3 DEF Reaches
  <2> HIDE DEF edge, nearer
  <2>3. Len(feed) - i >= nearer
    BY <1>1, <2>1, <2>2, SizesAssumption
  <2> QED
    BY <2>3 DEF Reaches, nearer
<1> QED
  BY <1>2, <1>3

\* As the feed grows, what a page reached it still reaches.
LEMMA ReachesLater ==
    ASSUME TypeOK, TypeOK', Len(feed') >= Len(feed), NEW i \in Markers,
           NEW p \in Nat \ {0}, Reaches(i, p)
    PROVE  Len(feed') - i >= (p - 1) * FeedPageSize
<1> DEFINE edge == (p - 1) * FeedPageSize
<1>1. Len(feed) \in Nat /\ Len(feed') \in Nat /\ i \in Nat
  BY DEF TypeOK, UpstreamTypes, Markers
<1>2. edge \in Int /\ Len(feed) - i >= edge
  BY SizesAssumption DEF Reaches
<1> HIDE DEF edge
<1>3. Len(feed') - i >= edge
  BY <1>1, <1>2
<1> QED
  BY <1>3 DEF edge

LEMMA InitSearch == Init => ScanNeverOvershoots
<1> SUFFICES ASSUME Init PROVE ScanNeverOvershoots
  OBVIOUS
<1>1. TypeOK /\ cursor \in Markers /\ scanPage = 1
  BY InitTypes DEF Init, TypeOK, RecentTypes
<1>2. CheckpointSound
  BY DEF Init, CheckpointSound
<1>3. StoredScan
  BY <1>1, ReachesNearer DEF Init, StoredScan
<1>4. LocalScan
  BY DEF Init, LocalScan
<1> QED
  BY <1>2, <1>3, <1>4 DEF ScanNeverOvershoots

\* Steps outside the recent lane, and those in it that touch neither the
\* checkpoint nor the scan, keep both.
LEMMA SearchStill ==
    ASSUME TypeOK, TypeOK', ScanNeverOvershoots, UNCHANGED recentVars,
           Len(feed') >= Len(feed),
           \/ pc' \notin {"scan", "capture", "details", "lost", "recover", "anchor"}
           \/ UNCHANGED <<pc, scan>>
           \/ pc = "capture" /\ pc' = "details" /\ UNCHANGED scan
           \/ pc = "lost" /\ pc' = "recover" /\ UNCHANGED scan
    PROVE  ScanNeverOvershoots'
<1>0. RecentTypes /\ scan \in Scans
  BY DEF TypeOK, RunTypes
<1>1. CheckpointSound'
  BY DEF ScanNeverOvershoots, CheckpointSound, recentVars
<1>2. StoredScan'
  <2>1. Reaches(cursor, scanPage)'
    BY <1>0, ReachesLater DEF ScanNeverOvershoots, StoredScan, recentVars, RecentTypes,
       Reaches
  <2>2. (scanBoundary # NoMarker => Reaches(scanBoundary, scanPage))'
    BY <1>0, ReachesLater DEF ScanNeverOvershoots, StoredScan, recentVars, RecentTypes,
       Reaches
  <2> QED
    BY <2>1, <2>2 DEF ScanNeverOvershoots, StoredScan, recentVars
<1>3. LocalScan'
  <2>1. CASE pc' \notin {"scan", "capture", "details", "lost", "recover", "anchor"}
    BY <2>1 DEF LocalScan
  <2>2. CASE /\ pc' \in {"scan", "capture", "details", "lost", "recover", "anchor"}
             /\ ~(pc' \notin {"scan", "capture", "details", "lost", "recover", "anchor"})
    <3>1. UNCHANGED scan /\ pc \in {"scan", "capture", "details", "lost", "recover", "anchor"}
      BY <2>2
    <3>2. /\ pc' = "scan" <=> pc = "scan"
          /\ pc' = "anchor" <=> pc = "anchor"
          /\ pc' \in {"capture", "details"} <=> pc \in {"capture", "details"}
      BY <2>2
    <3>3. Reaches(cursor, scan.page)'
      BY <1>0, <3>1, ReachesLater DEF ScanNeverOvershoots, LocalScan, recentVars,
         RecentTypes, Scans, Reaches
    <3>4. (pc = "scan" /\ scan.seek # NoMarker
             => scan.seek = scan.bound /\ Reaches(scan.seek, scan.page))'
      BY <1>0, <3>1, <3>2, ReachesLater DEF ScanNeverOvershoots, LocalScan, Scans, Reaches
    <3>5. (pc \in {"capture", "details"} /\ ~scan.complete /\ scan.bound # NoMarker
             => Reaches(scan.bound, scan.page))'
      BY <1>0, <3>1, <3>2, ReachesLater DEF ScanNeverOvershoots, LocalScan, Scans, Reaches
    <3> QED
      BY <3>1, <3>2, <3>3, <3>4, <3>5 DEF ScanNeverOvershoots, LocalScan, recentVars
  <2> QED
    BY <2>1, <2>2
<1> QED
  BY <1>1, <1>2, <1>3 DEF ScanNeverOvershoots

\* A run resumes on the page before the checkpoint.
LEMMA StartRecentSearch ==
    TypeOK /\ TypeOK' /\ ScanNeverOvershoots /\ StartRecent => ScanNeverOvershoots'
<1> SUFFICES ASSUME TypeOK, TypeOK', ScanNeverOvershoots, StartRecent
             PROVE  ScanNeverOvershoots'
  OBVIOUS
<1>1. /\ UNCHANGED recentVars /\ feed' = feed /\ pc' = "scan"
      /\ scan' = [NoScan EXCEPT !.page = FirstScanPage, !.latest = scanLatest,
                                !.bound = scanBoundary, !.seek = scanBoundary]
  BY DEF StartRecent, upstreamVars
<1>2. RecentTypes /\ CheckpointSound /\ StoredScan
  BY DEF TypeOK, ScanNeverOvershoots
<1>3. CheckpointSound' /\ StoredScan'
  BY <1>1, <1>2 DEF CheckpointSound, StoredScan, recentVars, Reaches
<1>4. /\ scan'.page = FirstScanPage /\ scan'.latest = scanLatest
      /\ scan'.bound = scanBoundary /\ scan'.seek = scanBoundary
  BY <1>1 DEF NoScan
<1>5. FirstScanPage > 1 => scanLatest # NoMarker
  BY <1>2 DEF FirstScanPage, StoredScan, RecentTypes
<1>6. ASSUME NEW i \in Markers, Reaches(i, scanPage) PROVE Reaches(i, FirstScanPage)
  <2>1. CASE scanBoundary = NoMarker \/ scanPage = 1
    BY <1>6, <2>1 DEF FirstScanPage
  <2>2. CASE ~(scanBoundary = NoMarker \/ scanPage = 1)
    <3>1. scanPage \in Nat \ {0, 1}
      BY <1>2, <2>2 DEF RecentTypes
    <3> QED
      BY <1>6, <2>2, <3>1, ReachesNearer DEF FirstScanPage
  <2> QED
    BY <2>1, <2>2
<1>7. LocalScan'
  BY <1>1, <1>2, <1>4, <1>5, <1>6 DEF LocalScan, recentVars, CheckpointSound, StoredScan,
     RecentTypes, Reaches
<1> QED
  BY <1>3, <1>7 DEF ScanNeverOvershoots

\* What is known of a scan that reads a page.
LEMMA SightedFacts ==
    ASSUME TypeOK, ScanNeverOvershoots, ScanReads
    PROVE  /\ SightedLatest # NoMarker /\ SightedLatest >= cursor
           /\ SightedLatest \in Markers
<1>1. /\ scan \in Scans /\ cursor \in Markers /\ Len(feed) \in Nat
      /\ LocalScan /\ pc = "scan"
  BY DEF TypeOK, RunTypes, RecentTypes, UpstreamTypes, ScanNeverOvershoots, ScanReads
<1>2. CASE FirstSight
  <2>1. FeedPage(1) # {}
    BY <1>2 DEF ScanReads
  <2>2. Len(feed) >= 1
    BY <1>1, <2>1 DEF FeedPage, Events
  <2> QED
    BY <1>1, <1>2, <2>1, <2>2 DEF SightedLatest, NoMarker, Markers
<1>3. CASE ~FirstSight
  <2>1. scan.latest # NoMarker
    BY <1>1, <1>3 DEF FirstSight, LocalScan, Scans
  <2> QED
    BY <1>1, <1>3, <2>1 DEF SightedLatest, LocalScan, Scans
<1> QED
  BY <1>2, <1>3

\* While it seeks its boundary, and after, a scan has not gone past the cursor.
LEMMA PageFacts ==
    ASSUME TypeOK, ScanNeverOvershoots, ScanReads,
           Seeking \/ cursor \notin RowsAfterSeek, FeedMore(scan.page)
    PROVE  /\ Reaches(cursor, scan.page + 1)
           /\ Seeking => Reaches(scan.seek, scan.page + 1)
           /\ ~Seeking => \A j \in RowsAfterSeek : j > cursor
<1>1. /\ scan \in Scans /\ cursor \in Markers /\ LocalScan /\ pc = "scan"
      /\ Len(feed) \in Nat
  BY DEF TypeOK, RunTypes, RecentTypes, ScanNeverOvershoots, ScanReads, UpstreamTypes
<1>2. /\ scan.page \in Nat \ {0} /\ scan.seek \in Markers /\ scan.bound \in Markers
      /\ Reaches(cursor, scan.page)
      /\ scan.seek # NoMarker => /\ scan.seek > cursor
                                 /\ Reaches(scan.seek, scan.page)
  BY <1>1 DEF Scans, LocalScan
<1>3. CASE Seeking
  <2>1. scan.seek # NoMarker /\ Reaches(scan.seek, scan.page + 1)
    BY <1>2, <1>3, LeftBehind DEF Seeking
  <2>2. Reaches(cursor, scan.page + 1)
    <3> DEFINE edge == ((scan.page + 1) - 1) * FeedPageSize
    <3>1. Len(feed) - scan.seek >= edge /\ edge \in Int
      BY <1>2, <2>1, SizesAssumption DEF Reaches
    <3> HIDE DEF edge
    <3>2. Len(feed) - cursor >= edge
      BY <1>1, <1>2, <2>1, <3>1 DEF Markers
    <3> QED
      BY <3>2 DEF Reaches, edge
  <2> QED
    BY <1>3, <2>1, <2>2
<1>4. CASE ~Seeking
  <2>1. cursor \notin FeedPage(scan.page)
    BY <1>1, <1>2, <1>4 DEF RowsAfterSeek, Markers
  <2>2. Reaches(cursor, scan.page + 1)
    BY <1>1, <1>2, <2>1, LeftBehind
  <2>3. \A j \in RowsAfterSeek : j > cursor
    BY <1>1, <1>2, <2>1, PageAboveCursor DEF RowsAfterSeek
  <2> QED
    BY <1>4, <2>2, <2>3
<1> QED
  BY <1>3, <1>4

\* Rows read beyond the cursor bound the scan above it.
LEMMA BoundFacts ==
    ASSUME TypeOK, NEW new \in SUBSET RowsAfterSeek, \A j \in new : j > cursor
    PROVE  new # {} => /\ Oldest(new) > cursor
                       /\ Reaches(Oldest(new), scan.page)
                       /\ Oldest(new) \in Markers
<1>1. new # {} => Oldest(new) \in new /\ Oldest(new) \in Markers
  BY ScanRowsType
<1>2. \A j \in RowsAfterSeek : Reaches(j, scan.page)
  BY DEF RowsAfterSeek, FeedPage, Reaches
<1> QED
  BY <1>1, <1>2

LEMMA ScanMeetsCursorSearch ==
    TypeOK /\ ScanNeverOvershoots /\ ScanMeetsCursor => ScanNeverOvershoots'
<1> SUFFICES ASSUME TypeOK, ScanNeverOvershoots, ScanMeetsCursor
             PROVE  ScanNeverOvershoots'
  OBVIOUS
<1> DEFINE new == {i \in RowsAfterSeek : i > cursor}
           low == IF new = {} THEN scan.bound ELSE Oldest(new)
<1>1. /\ ScanReads /\ UNCHANGED recentVars /\ feed' = feed /\ pc' = "capture"
      /\ scan' = [scan EXCEPT !.latest = SightedLatest, !.seen = scan.seen \cup new,
                              !.bound = low, !.complete = TRUE]
  BY DEF ScanMeetsCursor, ScanFrame, upstreamVars
<1>2. scan \in Scans /\ LocalScan /\ pc = "scan"
  BY <1>1 DEF TypeOK, RunTypes, ScanNeverOvershoots, ScanReads
<1>3. new # {} => Oldest(new) > cursor
  BY BoundFacts
<1>4. low # NoMarker => low > cursor
  BY <1>2, <1>3 DEF LocalScan
<1> HIDE DEF new, low
<1>5. /\ scan'.latest = SightedLatest /\ scan'.page = scan.page /\ scan'.bound = low
      /\ scan'.complete = TRUE
  BY <1>1, <1>2 DEF Scans
<1>6. CheckpointSound' /\ StoredScan'
  BY <1>1 DEF ScanNeverOvershoots, CheckpointSound, StoredScan, recentVars, Reaches
<1>7. LocalScan'
  BY <1>1, <1>2, <1>4, <1>5, SightedFacts DEF LocalScan, recentVars, Reaches
<1> QED
  BY <1>6, <1>7 DEF ScanNeverOvershoots

LEMMA ScanGoesOnSearch ==
    TypeOK /\ ScanNeverOvershoots /\ ScanGoesOn => ScanNeverOvershoots'
<1> SUFFICES ASSUME TypeOK, ScanNeverOvershoots, ScanGoesOn
             PROVE  ScanNeverOvershoots'
  OBVIOUS
<1> DEFINE new == IF Seeking THEN {} ELSE RowsAfterSeek
           low == IF new = {} THEN scan.bound ELSE Oldest(new)
           spent == scan.fetched + 1 = MaxPagesPerRun
           next == IF spent \/ ~FeedMore(scan.page) THEN scan.page ELSE scan.page + 1
           sought == IF Seeking THEN scan.seek ELSE NoMarker
<1>1. /\ ScanReads /\ UNCHANGED recentVars /\ feed' = feed
      /\ Seeking \/ cursor \notin RowsAfterSeek
      /\ pc' = IF ~FeedMore(scan.page) THEN "lost" ELSE IF spent THEN "capture" ELSE "scan"
      /\ scan' = [scan EXCEPT !.latest = SightedLatest, !.seen = scan.seen \cup new,
                              !.bound = low, !.seek = sought,
                              !.fetched = scan.fetched + 1, !.page = next]
  BY DEF ScanGoesOn, ScanFrame, upstreamVars
<1>2. scan \in Scans /\ LocalScan /\ pc = "scan" /\ cursor \in Markers
  BY <1>1 DEF TypeOK, RunTypes, RecentTypes, ScanNeverOvershoots, ScanReads
<1>3. /\ scan'.latest = SightedLatest /\ scan'.page = next /\ scan'.bound = low
      /\ scan'.seek = sought /\ scan'.complete = scan.complete
  BY <1>1, <1>2 DEF Scans
<1>4. /\ SightedLatest # NoMarker /\ SightedLatest >= cursor
  BY <1>1, SightedFacts
<1>5. CheckpointSound' /\ StoredScan'
  BY <1>1 DEF ScanNeverOvershoots, CheckpointSound, StoredScan, recentVars, Reaches
<1>6. \A j \in new : j > cursor
  <2>1. CASE Seeking
    BY <2>1
  <2>2. CASE ~Seeking
    <3>1. cursor \notin FeedPage(scan.page)
      BY <1>1, <1>2, <2>2 DEF RowsAfterSeek, LocalScan, Scans, Markers
    <3> QED
      BY <1>2, <3>1, PageAboveCursor DEF RowsAfterSeek, LocalScan, Scans
  <2> QED
    BY <2>1, <2>2
<1>7. /\ low # NoMarker => low > cursor
      /\ new # {} => Reaches(low, scan.page)
  BY <1>2, <1>6, BoundFacts DEF LocalScan
<1>8. Reaches(cursor, next)
  <2>1. CASE ~FeedMore(scan.page) \/ spent
    BY <1>2, <2>1 DEF LocalScan
  <2>2. CASE FeedMore(scan.page) /\ ~spent
    BY <1>1, <2>2, PageFacts
  <2> QED
    BY <2>1, <2>2
<1>9. pc' = "scan" /\ sought # NoMarker => sought = low /\ Reaches(sought, next)
  <2> SUFFICES ASSUME pc' = "scan", sought # NoMarker
               PROVE  sought = low /\ Reaches(sought, next)
    OBVIOUS
  <2>1. FeedMore(scan.page) /\ ~spent /\ Seeking
    BY <1>1
  <2>2. scan.seek = scan.bound
    BY <1>2, <2>1 DEF LocalScan, Seeking
  <2> QED
    BY <1>1, <2>1, <2>2, PageFacts
<1>10. pc' = "capture" /\ low # NoMarker => Reaches(low, next)
  <2> SUFFICES ASSUME pc' = "capture", low # NoMarker PROVE Reaches(low, next)
    OBVIOUS
  <2>1. next = scan.page /\ FeedMore(scan.page)
    BY <1>1
  <2>2. CASE new # {}
    BY <1>7, <2>1, <2>2
  <2>3. CASE new = {}
    <3>1. low = scan.bound
      BY <2>3
    <3>2. CASE scan.seek # NoMarker
      BY <1>2, <2>1, <3>1, <3>2 DEF LocalScan
    <3>3. CASE scan.seek = NoMarker
      <4>1. ~Seeking /\ RowsAfterSeek = FeedPage(scan.page) /\ FeedPage(scan.page) = {}
        BY <2>3, <3>3 DEF Seeking, RowsAfterSeek
      <4>2. FeedPage(scan.page) # {}
        BY <1>2, <2>1, PageNotEmpty DEF Scans
      <4> QED
        BY <4>1, <4>2
    <3> QED
      BY <3>2, <3>3
  <2> QED
    BY <2>2, <2>3
<1> HIDE DEF new, low, next, sought
<1>11. LocalScan'
  <2>1. pc' \in {"lost", "capture", "scan"}
    BY <1>1
  <2> QED
    BY <1>1, <1>2, <1>3, <1>4, <1>7, <1>8, <1>9, <1>10, <2>1 DEF LocalScan, recentVars, Reaches
<1> QED
  BY <1>5, <1>11 DEF ScanNeverOvershoots

LEMMA ScanStopsSearch ==
    TypeOK /\ ScanNeverOvershoots /\ (ScanTooDeep \/ ScanAnchors) => ScanNeverOvershoots'
<1> SUFFICES ASSUME TypeOK, ScanNeverOvershoots, ScanTooDeep \/ ScanAnchors
             PROVE  ScanNeverOvershoots'
  OBVIOUS
<1>1. UNCHANGED recentVars /\ feed' = feed
  BY DEF ScanTooDeep, ScanAnchors, ScanFrame, upstreamVars
<1>2. /\ scan \in Scans /\ LocalScan /\ pc = "scan" /\ cursor \in Markers
      /\ Len(feed) \in Nat /\ CheckpointSound
  BY DEF TypeOK, RunTypes, RecentTypes, UpstreamTypes, ScanNeverOvershoots, ScanTooDeep,
         ScanAnchors
<1>3. CheckpointSound' /\ StoredScan'
  BY <1>1 DEF ScanNeverOvershoots, CheckpointSound, StoredScan, recentVars, Reaches
<1>4. CASE ScanTooDeep
  <2>1. pc' = "lost" /\ scan' = scan /\ scan.page > 1
    BY <1>2, <1>4, SizesAssumption DEF ScanTooDeep, Scans
  <2>2. LocalScan'
    BY <1>1, <1>2, <2>1 DEF LocalScan, recentVars, Reaches
  <2> QED
    BY <1>3, <2>2 DEF ScanNeverOvershoots
<1>5. CASE ScanAnchors
  <2>1. /\ scan' = [scan EXCEPT !.latest = SightedLatest, !.complete = TRUE]
        /\ pc' = IF SightedLatest = NoMarker THEN "hydrate" ELSE "anchor"
        /\ scan.latest = NoMarker /\ scan.page = 1
        /\ cursor = NoMarker \/ FeedPage(1) = {}
    BY <1>5 DEF ScanAnchors, FirstSight
  <2>2. CASE SightedLatest = NoMarker
    BY <1>3, <2>1, <2>2 DEF LocalScan, ScanNeverOvershoots
  <2>3. CASE SightedLatest # NoMarker
    <3>1. cursor = NoMarker /\ scanLatest = NoMarker /\ pc' = "anchor"
      BY <1>2, <2>1, <2>3 DEF SightedLatest, LocalScan
    <3>2. scan.bound = NoMarker /\ SightedLatest \in Markers
      BY <1>2, <2>1, ScanRowsType DEF LocalScan
    <3>3. /\ scan'.latest = SightedLatest /\ scan'.page = scan.page
          /\ scan'.bound = scan.bound /\ scan'.seek = scan.seek
      BY <1>2, <2>1 DEF Scans
    <3>4. SightedLatest >= cursor
      BY <1>2, <3>1, <3>2 DEF NoMarker, Markers
    <3>5. LocalScan'
      BY <1>1, <1>2, <2>3, <3>1, <3>2, <3>3, <3>4 DEF LocalScan, recentVars, Reaches
    <3> QED
      BY <1>3, <3>5 DEF ScanNeverOvershoots
  <2> QED
    BY <2>2, <2>3
<1> QED
  BY <1>4, <1>5

\* The first anchor: no checkpoint is stored yet.
LEMMA StoreAnchorSearch ==
    TypeOK /\ ScanNeverOvershoots /\ StoreAnchor
      => ScanNeverOvershoots' /\ cursor' >= cursor
<1> SUFFICES ASSUME TypeOK, ScanNeverOvershoots, StoreAnchor
             PROVE  ScanNeverOvershoots' /\ cursor' >= cursor
  OBVIOUS
<1>1. /\ cursor' = scan.latest /\ pc' = "hydrate" /\ pc = "anchor" /\ feed' = feed
      /\ UNCHANGED <<scanPage, scanLatest, scanBoundary, pending, recovering>>
  BY DEF StoreAnchor, Continue, upstreamVars
<1>2. /\ scan \in Scans /\ RecentTypes /\ LocalScan /\ StoredScan /\ CheckpointSound
  BY DEF TypeOK, RunTypes, ScanNeverOvershoots
<1>3. /\ scan.latest \in Markers /\ scan.latest >= cursor
      /\ scanLatest = NoMarker /\ scanPage = 1
  BY <1>1, <1>2 DEF LocalScan, StoredScan, RecentTypes, Scans
<1>4. CheckpointSound'
  BY <1>1, <1>2, <1>3 DEF CheckpointSound
<1>5. Reaches(scan.latest, 1)
  BY <1>3, ReachesNearer
<1>6. StoredScan'
  BY <1>1, <1>2, <1>3, <1>5 DEF CheckpointSound, StoredScan, Reaches
<1> QED
  BY <1>1, <1>3, <1>4, <1>6 DEF ScanNeverOvershoots, LocalScan

\* The end of a recent run: the cursor moves, or the checkpoint does.
LEMMA StoreProgressSearch ==
    TypeOK /\ ScanNeverOvershoots /\ StoreProgress
      => ScanNeverOvershoots' /\ cursor' >= cursor
<1> SUFFICES ASSUME TypeOK, ScanNeverOvershoots, StoreProgress
             PROVE  ScanNeverOvershoots' /\ cursor' >= cursor
  OBVIOUS
<1>1. /\ pc = "details" /\ feed' = feed /\ recovering' = FALSE
      /\ cursor' = NextCursor /\ scanBoundary' = NextBoundary
      /\ scanPage' = IF scan.complete THEN 1 ELSE scan.page
      /\ scanLatest' = IF scan.complete THEN NoMarker ELSE scan.latest
  BY DEF StoreProgress, DetailsDone, upstreamVars
<1>2. pc' \in {"hydrate", "idle"}
  BY DEF StoreProgress, DiscardStage, RunOver, Continue
<1>3. /\ scan \in Scans /\ RecentTypes /\ LocalScan
  BY DEF TypeOK, RunTypes, ScanNeverOvershoots
<1>4. scan.latest # NoMarker /\ scan.latest >= cursor /\ scan.latest \in Markers
  BY <1>1, <1>3 DEF LocalScan, Scans
<1>5. CASE scan.complete
  <2>1. /\ cursor' = scan.latest /\ scanPage' = 1 /\ scanLatest' = NoMarker
        /\ scanBoundary' = NoMarker
    BY <1>1, <1>5 DEF NextCursor, NextBoundary
  <2>2. Reaches(scan.latest, 1)
    BY <1>4, ReachesNearer
  <2>3. CheckpointSound' /\ StoredScan'
    BY <1>1, <2>1, <2>2 DEF CheckpointSound, StoredScan, Reaches
  <2> QED
    BY <1>2, <1>4, <2>1, <2>3 DEF ScanNeverOvershoots, LocalScan
<1>6. CASE ~scan.complete
  <2>1. /\ cursor' = cursor /\ scanPage' = scan.page /\ scanLatest' = scan.latest
        /\ scanBoundary' = scan.bound
    BY <1>1, <1>6 DEF NextCursor, NextBoundary
  <2>2. CheckpointSound'
    BY <1>1, <1>3, <1>4, <2>1 DEF LocalScan, CheckpointSound
  <2>3. StoredScan'
    BY <1>1, <1>3, <1>4, <1>6, <2>1 DEF LocalScan, StoredScan, Reaches
  <2>4. cursor' >= cursor
    BY <1>3, <2>1 DEF RecentTypes, Markers
  <2> QED
    BY <1>2, <2>2, <2>3, <2>4 DEF ScanNeverOvershoots, LocalScan
<1> QED
  BY <1>5, <1>6

\* A lost cursor: its recovery anchor lies at or above it.
LEMMA PrepareRecoverySearch ==
    TypeOK /\ ScanNeverOvershoots /\ PrepareRecovery => ScanNeverOvershoots'
<1> SUFFICES ASSUME TypeOK, ScanNeverOvershoots, PrepareRecovery
             PROVE  ScanNeverOvershoots'
  OBVIOUS
<1>1. /\ pc = "recover" /\ feed' = feed /\ cursor' = cursor /\ scanPage' = 1
      /\ scanLatest' = scan.latest /\ scanBoundary' = NoMarker
  BY DEF PrepareRecovery, upstreamVars
<1>2. pc' \in {"snapBegin", "idle"}
  BY DEF PrepareRecovery, DiscardStage, RunOver, Continue
<1>3. scan.latest # NoMarker /\ scan.latest >= cursor /\ cursor \in Markers
  BY <1>1 DEF ScanNeverOvershoots, LocalScan, TypeOK, RecentTypes
<1>4. Reaches(cursor, 1)
  BY <1>3, ReachesNearer
<1>5. CheckpointSound' /\ StoredScan'
  BY <1>1, <1>3, <1>4 DEF CheckpointSound, StoredScan, Reaches
<1> QED
  BY <1>2, <1>5 DEF ScanNeverOvershoots, LocalScan

\* A published recovery: the cursor jumps forward to its anchor.
LEMMA PublishSearch ==
    TypeOK /\ TypeOK' /\ ScanNeverOvershoots /\ PublishSnapshot
      => ScanNeverOvershoots' /\ cursor' >= cursor
<1> SUFFICES ASSUME TypeOK, TypeOK', ScanNeverOvershoots, PublishSnapshot
             PROVE  ScanNeverOvershoots' /\ cursor' >= cursor
  OBVIOUS
<1>1. pc' = "evict" /\ feed' = feed /\ pending' = pending /\ RecentTypes
  BY DEF PublishSnapshot, upstreamVars, TypeOK
<1>2. CASE recovering
  <2>1. /\ cursor' = scanLatest /\ scanPage' = 1 /\ scanLatest' = NoMarker
        /\ scanBoundary' = NoMarker /\ recovering' = FALSE
    BY <1>2 DEF PublishSnapshot
  <2>2. scanLatest >= cursor /\ scanLatest \in Markers
    BY <1>1, <1>2 DEF ScanNeverOvershoots, CheckpointSound, RecentTypes
  <2>3. Reaches(scanLatest, 1)
    BY <2>2, ReachesNearer
  <2>4. CheckpointSound' /\ StoredScan'
    BY <1>1, <2>1, <2>3 DEF CheckpointSound, StoredScan, Reaches
  <2> QED
    BY <1>1, <2>1, <2>2, <2>4 DEF ScanNeverOvershoots, LocalScan
<1>3. CASE ~recovering
  <2>1. UNCHANGED recentVars
    BY <1>1, <1>3 DEF PublishSnapshot, recentVars
  <2>2. Len(feed') >= Len(feed)
    BY <1>1 DEF TypeOK, UpstreamTypes
  <2>3. ScanNeverOvershoots'
    BY <1>1, <2>1, <2>2, SearchStill
  <2>4. cursor' >= cursor
    BY <1>1, <2>1 DEF recentVars, RecentTypes, Markers
  <2> QED
    BY <2>3, <2>4
<1> QED
  BY <1>2, <1>3

\* Steps that touch neither the checkpoint nor the scan.
Elsewhere ==
    \/ Upstream \/ (Idling /\ ~StartRecent) \/ ListingLanes \/ Capture \/ LostCapture
    \/ BeginSnapshot \/ SnapshotFetch \/ SnapshotStage \/ SnapshotAdvance \/ Closing
    \/ Cache \/ (\E t \in Tools : Detail(t)) \/ UNCHANGED vars

\* Where a run is, and what it has read, after a step that does not touch the checkpoint.
LEMMA ElsewherePhases ==
    ASSUME Elsewhere
    PROVE  \/ pc' \notin {"scan", "capture", "details", "lost", "recover", "anchor"}
           \/ UNCHANGED <<pc, scan>>
           \/ pc = "capture" /\ pc' = "details" /\ UNCHANGED scan
           \/ pc = "lost" /\ pc' = "recover" /\ UNCHANGED scan
<1>1. CASE \/ Upstream \/ (Idling /\ ~StartRecent) \/ ListingLanes \/ Capture
           \/ LostCapture
  BY <1>1 DEF Upstream, Idling, Fail, PastEndFails, ReconcileNotDue, StartIntegrity,
     StartBackfill, ReconcileDue, ListingLanes, BackfillFetch, BackfillStore,
     ReconcileFetch, ReconcileStore, Capture, LostCapture, RunOver, Continue, runVars
<1>2. CASE \/ BeginSnapshot \/ SnapshotFetch \/ SnapshotStage \/ SnapshotAdvance
           \/ Closing
  BY <1>2 DEF BeginSnapshot, SnapshotFetch, SnapshotStage, SnapshotAdvance, Closing,
     EvictRetired, PublishRefused, RestartSnapshot, GiveUpSnapshot, DiscardStage,
     RunOver, Continue
<1>3. CASE Cache \/ (\E t \in Tools : Detail(t)) \/ UNCHANGED vars
  BY <1>3 DEF Cache, CachePoll, CacheExpires, Detail, DetailRefreshed, DetailGone,
     DetailFails, Hydrate, DetailFrame, vars, runVars
<1> QED
  BY <1>1, <1>2, <1>3 DEF Elsewhere

LEMMA ElsewhereSearch ==
    TypeOK /\ TypeOK' /\ ScanNeverOvershoots /\ Elsewhere
      => ScanNeverOvershoots' /\ cursor' >= cursor
<1> SUFFICES ASSUME TypeOK, TypeOK', ScanNeverOvershoots, Elsewhere
             PROVE  ScanNeverOvershoots' /\ cursor' >= cursor
  OBVIOUS
<1>1. UNCHANGED recentVars
  <2>1. CASE \/ Upstream \/ (Idling /\ ~StartRecent) \/ ListingLanes \/ Capture
             \/ LostCapture
    BY <2>1 DEF Upstream, Idling, Fail, PastEndFails, ReconcileNotDue, StartIntegrity,
       StartBackfill, ReconcileDue, ListingLanes, BackfillFetch, BackfillStore,
       ReconcileFetch, ReconcileStore, Capture, LostCapture
  <2>2. CASE \/ BeginSnapshot \/ SnapshotFetch \/ SnapshotStage \/ SnapshotAdvance
             \/ Closing
    BY <2>2 DEF BeginSnapshot, SnapshotFetch, SnapshotStage, SnapshotAdvance, Closing,
       EvictRetired, PublishRefused, RestartSnapshot, GiveUpSnapshot
  <2>3. CASE Cache \/ (\E t \in Tools : Detail(t)) \/ UNCHANGED vars
    BY <2>3 DEF Cache, CachePoll, CacheExpires, Detail, DetailRefreshed, DetailGone,
       DetailFails, Hydrate, DetailFrame, vars
  <2> QED
    BY <2>1, <2>2, <2>3 DEF Elsewhere
<1>2. Len(feed') >= Len(feed)
  <2>1. feed \in Seq([tool : Tools, created : BOOLEAN]) /\ Len(feed) \in Nat
    BY DEF TypeOK, UpstreamTypes
  <2>2. \/ feed' = feed
        \/ \E t \in Tools, isNew \in BOOLEAN :
             feed' = Append(feed, [tool |-> t, created |-> isNew])
    <3>1. CASE Upstream
      BY <3>1 DEF Upstream, UpstreamEdit, UpstreamCreate, UpstreamRemove, UpstreamTrim,
         Announce
    <3>2. CASE UNCHANGED upstreamVars
      BY <3>2 DEF upstreamVars
    <3>3. CASE ~Upstream
      <4>1. CASE \/ (Idling /\ ~StartRecent) \/ ListingLanes \/ Capture \/ LostCapture
        BY <3>2, <4>1 DEF Idling, Fail, PastEndFails, ReconcileNotDue, StartIntegrity,
           StartBackfill, ReconcileDue, ListingLanes, BackfillFetch, BackfillStore,
           ReconcileFetch, ReconcileStore, Capture, LostCapture
      <4>2. CASE \/ BeginSnapshot \/ SnapshotFetch \/ SnapshotStage \/ SnapshotAdvance
                 \/ Closing
        BY <3>2, <4>2 DEF BeginSnapshot, SnapshotFetch, SnapshotStage, SnapshotAdvance,
           Closing, EvictRetired, PublishRefused, RestartSnapshot, GiveUpSnapshot
      <4>3. CASE Cache \/ (\E t \in Tools : Detail(t)) \/ UNCHANGED vars
        BY <3>2, <4>3 DEF Cache, CachePoll, CacheExpires, Detail, DetailRefreshed,
           DetailGone, DetailFails, Hydrate, DetailFrame, vars
      <4> QED
        BY <3>3, <4>1, <4>2, <4>3 DEF Elsewhere
    <3> QED
      BY <3>1, <3>3
  <2>3. ASSUME NEW t \in Tools, NEW isNew \in BOOLEAN,
               feed' = Append(feed, [tool |-> t, created |-> isNew])
        PROVE  Len(feed') >= Len(feed)
    BY <2>1, <2>3
  <2>4. CASE feed' = feed
    BY <2>1, <2>4
  <2> QED
    BY <2>2, <2>3, <2>4
<1>3. \/ pc' \notin {"scan", "capture", "details", "lost", "recover", "anchor"}
      \/ UNCHANGED <<pc, scan>>
      \/ pc = "capture" /\ pc' = "details" /\ UNCHANGED scan
      \/ pc = "lost" /\ pc' = "recover" /\ UNCHANGED scan
  BY ElsewherePhases
<1>4. cursor' >= cursor
  BY <1>1 DEF recentVars, TypeOK, RecentTypes, Markers
<1> QED
  BY <1>1, <1>2, <1>3, <1>4, SearchStill

\* Every step keeps the search sound and never moves the cursor back.
LEMMA StepSearch ==
    TypeOK /\ TypeOK' /\ ScanNeverOvershoots /\ [Next]_vars
      => ScanNeverOvershoots' /\ cursor' >= cursor
<1> SUFFICES ASSUME TypeOK, TypeOK', ScanNeverOvershoots, [Next]_vars
             PROVE  ScanNeverOvershoots' /\ cursor' >= cursor
  OBVIOUS
<1>1. CASE Elsewhere
  BY <1>1, ElsewhereSearch
<1>2. CASE StartRecent \/ Scanning
  <2>1. UNCHANGED recentVars
    BY <1>2 DEF StartRecent, Scanning, ScanTooDeep, ScanAnchors, ScanMeetsCursor,
       ScanGoesOn, ScanFrame
  <2>2. cursor' >= cursor
    BY <2>1 DEF recentVars, TypeOK, RecentTypes, Markers
  <2>3. ScanNeverOvershoots'
    BY <1>2, StartRecentSearch, ScanStopsSearch, ScanMeetsCursorSearch, ScanGoesOnSearch
       DEF Scanning
  <2> QED
    BY <2>2, <2>3
<1>3. CASE StoreAnchor \/ StoreProgress \/ PublishSnapshot
  BY <1>3, StoreAnchorSearch, StoreProgressSearch, PublishSearch
<1>4. CASE PrepareRecovery
  <2>1. cursor' = cursor
    BY <1>4 DEF PrepareRecovery
  <2> QED
    BY <1>4, <2>1, PrepareRecoverySearch DEF TypeOK, RecentTypes, Markers
<1> QED
  BY <1>1, <1>2, <1>3, <1>4, StepKinds DEF Elsewhere

\* However the feed drifts between the pages of a scan, and between the runs that
\* resume it, no page is left behind while the cursor may still be on it.
THEOREM SearchCorrect == Spec => []ScanNeverOvershoots
<1>1. Init => ScanNeverOvershoots
  BY InitSearch
<1>2. TypeOK /\ TypeOK' /\ ScanNeverOvershoots /\ [Next]_vars => ScanNeverOvershoots'
  BY StepSearch
<1> QED
  BY <1>1, <1>2, TypeCorrect, PTL DEF Spec

\* The cursor never moves back: neither in a completed scan, nor when a resumed one
\* completes, nor when a recovery snapshot is published.
THEOREM CursorNeverBack == Spec => CursorMovesForward
<1>1. TypeOK /\ TypeOK' /\ ScanNeverOvershoots /\ [Next]_vars => [cursor' >= cursor]_vars
  BY StepSearch
<1> QED
  BY <1>1, TypeCorrect, SearchCorrect, PTL DEF Spec, CursorMovesForward

(***************************************************************************)
(* What a scan has been through                                            *)
(***************************************************************************)
\* A set of events holds what the stored checkpoint says was read: everything from its
\* boundary on, and everything on the pages before its own.
CheckpointCovers(R) ==
    /\ scanBoundary # NoMarker =>
         \A i \in Events : scanBoundary <= i /\ i <= scanLatest => i \in R
    /\ \A i \in Events : cursor < i /\ i <= scanLatest /\ ~Reaches(i, scanPage) => i \in R

\* The same of a scan under way, and of one that is over.
ScanCovers(R) ==
    /\ scan.bound # NoMarker => \A i \in Events : scan.bound <= i /\ i <= scan.latest => i \in R
    /\ \A i \in Events : cursor < i /\ i <= scan.latest /\ ~Reaches(i, scan.page) => i \in R
ScanCoversAll(R) == \A i \in Events : cursor < i /\ i <= scan.latest => i \in R

\* A scan that goes on, or stopped at a checkpoint; and one that met the cursor.
ScanOpen == pc = "scan" \/ (pc \in {"capture", "details"} /\ ~scan.complete)
Scanned == pc \in {"capture", "details"} /\ scan.complete

\* A growing feed leaves all of them as they are: new events lie beyond every marker, and no
\* page reaches less than it did.
LEMMA CoversStill ==
    ASSUME TypeOK, TypeOK', UNCHANGED recentVars, Len(feed') >= Len(feed),
           NEW R, NEW Q, \A i \in Events : i \in R => i \in Q
    PROVE  /\ CheckpointCovers(R) => CheckpointCovers(Q)'
           /\ ScanCovers(R) /\ UNCHANGED scan => ScanCovers(Q)'
           /\ ScanCoversAll(R) /\ UNCHANGED scan => ScanCoversAll(Q)'
<1>1. /\ Len(feed) \in Nat /\ Len(feed') \in Nat
      /\ cursor \in Markers /\ scanLatest \in Markers
      /\ scanBoundary \in Markers /\ scanPage \in Nat \ {0} /\ scan \in Scans
  BY DEF TypeOK, UpstreamTypes, RecentTypes, RunTypes
<1>2. /\ scan.latest \in Markers /\ scan.page \in Nat \ {0} /\ scan.bound \in Markers
  BY <1>1 DEF Scans
<1>3. \A i \in Events : i \in Events' /\ i \in Markers /\ i \in Nat
  BY <1>1 DEF Events, Markers
<1>4. \A i \in Events', m \in Markers : i <= m => i \in Events
  BY <1>1 DEF Events, Markers
<1>5. \A i \in Events, p \in Nat \ {0} : ~Reaches(i, p)' => ~Reaches(i, p)
  <2> SUFFICES ASSUME NEW i \in Events, NEW p \in Nat \ {0}, Reaches(i, p) PROVE Reaches(i, p)'
    OBVIOUS
  <2>1. i \in Markers
    BY <1>3
  <2> QED
    BY <2>1, ReachesLater DEF Reaches
<1>6. CheckpointCovers(R) => CheckpointCovers(Q)'
  BY <1>1, <1>4, <1>5 DEF CheckpointCovers, recentVars
<1>7. ScanCovers(R) /\ UNCHANGED scan => ScanCovers(Q)'
  BY <1>1, <1>2, <1>4, <1>5 DEF ScanCovers, recentVars
<1>8. ScanCoversAll(R) /\ UNCHANGED scan => ScanCoversAll(Q)'
  BY <1>2, <1>4 DEF ScanCoversAll, recentVars
<1> QED
  BY <1>6, <1>7, <1>8

\* A run takes over what its checkpoint says was read.
LEMMA ResumedCovers ==
    ASSUME TypeOK, StartRecent, NEW R, CheckpointCovers(R)
    PROVE  ScanCovers(R)'
<1>1. /\ UNCHANGED <<cursor, feed>>
      /\ scan' = [NoScan EXCEPT !.page = FirstScanPage, !.latest = scanLatest,
                                !.bound = scanBoundary, !.seek = scanBoundary]
  BY DEF StartRecent, upstreamVars, recentVars
<1>2. /\ scan'.page = FirstScanPage /\ scan'.latest = scanLatest /\ scan'.bound = scanBoundary
  BY <1>1 DEF NoScan
<1>3. Events' = Events
  BY <1>1 DEF Events
<1>4. ASSUME NEW i \in Events, Reaches(i, scanPage) PROVE Reaches(i, FirstScanPage)
  <2>1. i \in Markers /\ scanPage \in Nat \ {0}
    BY DEF TypeOK, UpstreamTypes, RecentTypes, Events, Markers
  <2>2. CASE scanBoundary = NoMarker \/ scanPage = 1
    BY <1>4, <2>2 DEF FirstScanPage
  <2>3. CASE ~(scanBoundary = NoMarker \/ scanPage = 1)
    BY <1>4, <2>1, <2>3, ReachesNearer DEF FirstScanPage
  <2> QED
    BY <2>2, <2>3
<1>5. \A i \in Events : Reaches(i, scan.page)' <=> Reaches(i, FirstScanPage)
  BY <1>1, <1>2 DEF Reaches
<1> QED
  BY <1>1, <1>2, <1>3, <1>4, <1>5 DEF ScanCovers, CheckpointCovers

\* Above the end of the page at hand, what the page does not hold beyond the boundary was
\* read before, or is no longer returned.
LEMMA PageCovers ==
    ASSUME TypeOK, ScanNeverOvershoots, ScanReads, NEW R, ScanCovers(R), NEW i \in Events,
           cursor < i, i <= SightedLatest, ~Reaches(i, scan.page + 1),
           Seeking \/ i \notin RowsAfterSeek
    PROVE  i \in R \/ i <= trimmed
<1> DEFINE near == (scan.page - 1) * FeedPageSize
           edge == scan.page * FeedPageSize
<1>1. /\ pc = "scan" /\ scan.page \in Nat \ {0} /\ scan.seek \in Markers /\ scan.bound \in Markers
      /\ Len(feed) \in Nat /\ trimmed \in Nat /\ i \in Nat /\ i >= 1 /\ i <= Len(feed) /\ i \in Markers
      /\ LocalScan
  BY DEF ScanReads, TypeOK, RunTypes, UpstreamTypes, Scans, Events, Markers, ScanNeverOvershoots
<1>2. near \in Nat /\ edge \in Nat /\ ((scan.page + 1) - 1) * FeedPageSize = edge
  BY <1>1, SizesAssumption
<1>3. Len(feed) - i < edge
  <2>1. ~(Len(feed) - i >= edge)
    BY <1>2 DEF Reaches
  <2> HIDE DEF edge
  <2> QED
    BY <1>1, <1>2, <2>1
<1>4. FirstSight => scan.page = 1 /\ scan.latest = NoMarker
  BY DEF FirstSight
<1>5. CASE i <= trimmed
  BY <1>5
<1>6. CASE ~Reaches(i, scan.page)
  <2>1. ~FirstSight
    BY <1>1, <1>4, <1>6, ReachesNearer
  <2>2. SightedLatest = scan.latest
    BY <2>1 DEF SightedLatest
  <2> QED
    BY <1>6, <2>2 DEF ScanCovers
<1>7. CASE i > trimmed /\ Reaches(i, scan.page)
  <2>1. i \in FeedPage(scan.page)
    BY <1>3, <1>7 DEF FeedPage, Reaches
  <2>2. CASE scan.seek # NoMarker /\ i >= scan.seek
    <3>1. scan.seek = scan.bound /\ scan.latest # NoMarker
      BY <1>1, <2>2 DEF LocalScan
    <3>2. SightedLatest = scan.latest
      BY <1>4, <3>1 DEF SightedLatest
    <3> QED
      BY <2>2, <3>1, <3>2 DEF ScanCovers
  <2>3. CASE scan.seek = NoMarker \/ i < scan.seek
    <3>1. i \in RowsAfterSeek
      BY <2>1, <2>3 DEF RowsAfterSeek
    <3>2. scan.seek # NoMarker /\ i < scan.seek /\ scan.seek \notin FeedPage(scan.page)
      BY <2>3, <3>1 DEF Seeking
    <3>3. Reaches(scan.seek, scan.page)
      BY <1>1, <3>2 DEF LocalScan
    <3>4. scan.seek \in Events /\ scan.seek > trimmed
      BY <1>1, <1>7, <3>2 DEF Markers, Events
    <3>5. Len(feed) - scan.seek < edge
      <4> HIDE DEF edge
      <4>1. scan.seek \in Nat
        BY <1>1 DEF Markers
      <4> QED
        BY <1>1, <1>2, <1>3, <3>2, <4>1
    <3>6. scan.seek \in FeedPage(scan.page)
      BY <3>3, <3>4, <3>5 DEF FeedPage, Reaches
    <3> QED
      BY <3>2, <3>6
  <2> QED
    BY <1>1, <2>2, <2>3 DEF Markers
<1> QED
  BY <1>1, <1>5, <1>6, <1>7

\* The cursor is met: all that lies between it and the newest marker has been read.
LEMMA CursorMetCovers ==
    ASSUME TypeOK, ScanNeverOvershoots, ScanMeetsCursor, NEW R, ScanCovers(R)
    PROVE  /\ ScanCoversAll(R \cup scan.seen)'
           /\ cursor > trimmed
           /\ Len(feed) - cursor < MaxScanPages * FeedPageSize
<1> DEFINE new == {j \in RowsAfterSeek : j > cursor}
           edge == scan.page * FeedPageSize
           deepest == MaxScanPages * FeedPageSize
<1>1. /\ ScanReads /\ ~Seeking /\ cursor \in RowsAfterSeek
      /\ scan'.latest = SightedLatest /\ scan'.seen = scan.seen \cup new
      /\ UNCHANGED <<cursor, feed>>
  BY DEF ScanMeetsCursor, ScanFrame, TypeOK, RunTypes, Scans, ScanReads, recentVars, upstreamVars
<1>2. /\ Len(feed) - cursor < edge /\ cursor \in Nat /\ cursor > trimmed /\ Len(feed) \in Nat
      /\ scan.page \in Nat /\ trimmed \in Nat /\ scan.page <= MaxScanPages /\ Events \subseteq Nat
  BY <1>1 DEF RowsAfterSeek, FeedPage, Events, TypeOK, UpstreamTypes, RunTypes, Scans, ScanReads,
     Markers
<1>3. /\ edge \in Nat /\ ((scan.page + 1) - 1) * FeedPageSize = edge
      /\ deepest \in Nat /\ edge <= deepest
  <2>1. FeedPageSize \in Nat /\ MaxScanPages \in Nat
    BY SizesAssumption
  <2> QED
    BY <1>2, <2>1
<1>4. Len(feed) - cursor < deepest
  <2> HIDE DEF edge, deepest
  <2> QED
    BY <1>2, <1>3
<1>5. ASSUME NEW i \in Events, cursor < i, i <= SightedLatest, i \notin RowsAfterSeek
      PROVE  i \in R
  <2>1. ~Reaches(i, scan.page + 1)
    <3> HIDE DEF edge
    <3>1. ~(Len(feed) - i >= edge)
      BY <1>2, <1>3, <1>5
    <3> QED
      BY <1>3, <3>1 DEF Reaches
  <2>2. i \in R \/ i <= trimmed
    BY <1>1, <1>5, <2>1, PageCovers
  <2> QED
    BY <1>2, <1>5, <2>2
<1>6. ScanCoversAll(R \cup scan.seen)'
  BY <1>1, <1>5 DEF ScanCoversAll, Events
<1> QED
  BY <1>2, <1>4, <1>6

\* One page further, or a checkpoint: what the page held has been read, too.
LEMMA PageLeftCovers ==
    ASSUME TypeOK, ScanNeverOvershoots, ScanGoesOn, NEW R, ScanCovers(R),
           \A i \in Events : i <= trimmed => i \in R
    PROVE  /\ FeedMore(scan.page) => ScanCovers(R \cup scan.seen)'
           /\ ~FeedMore(scan.page) => ScanCoversAll(R \cup scan.seen)'
<1> DEFINE new == IF Seeking THEN {} ELSE RowsAfterSeek
           low == IF new = {} THEN scan.bound ELSE Oldest(new)
           spent == scan.fetched + 1 = MaxPagesPerRun
           next == IF spent \/ ~FeedMore(scan.page) THEN scan.page ELSE scan.page + 1
           edge == scan.page * FeedPageSize
<1>1. ScanReads /\ pc = "scan" /\ (Seeking \/ cursor \notin RowsAfterSeek)
  BY DEF ScanGoesOn, ScanReads
<1>2. /\ scan'.latest = SightedLatest /\ scan'.seen = scan.seen \cup new /\ scan'.bound = low
      /\ scan'.page = next
  BY DEF ScanGoesOn, TypeOK, RunTypes, Scans
<1>3. /\ scan.page \in Nat \ {0} /\ cursor \in Markers /\ Len(feed) \in Nat /\ trimmed \in Nat
      /\ LocalScan /\ SightedLatest \in Markers
      /\ scan.bound # NoMarker => scan.latest # NoMarker
  <2>1. scan.page \in Nat \ {0} /\ cursor \in Markers /\ Len(feed) \in Nat /\ trimmed \in Nat
    BY DEF TypeOK, RunTypes, UpstreamTypes, RecentTypes, Scans, Markers
  <2>2. LocalScan /\ SightedLatest \in Markers
    BY <1>1, SightedFacts DEF ScanNeverOvershoots
  <2>3. scan.bound # NoMarker => scan.latest # NoMarker
    BY <1>1, <2>2 DEF LocalScan
  <2> QED
    BY <2>1, <2>2, <2>3
<1>4. /\ edge \in Nat /\ ((scan.page + 1) - 1) * FeedPageSize = edge
      /\ Events' = Events /\ cursor' = cursor /\ feed' = feed /\ Events \subseteq Nat
  BY <1>3, SizesAssumption DEF ScanGoesOn, ScanFrame, Events, recentVars, upstreamVars
<1> HIDE DEF spent, edge
\* Everything newer than the end of this page has been read.
<1>5. ASSUME NEW i \in Events, cursor < i, i <= SightedLatest, ~Reaches(i, scan.page + 1)
      PROVE  i \in R \cup scan'.seen
  <2>1. CASE i \in new
    BY <1>2, <2>1
  <2>2. CASE i \notin new
    <3>1. Seeking \/ i \notin RowsAfterSeek
      BY <2>2
    <3>2. i \in R \/ i <= trimmed
      BY <1>1, <1>5, <3>1, PageCovers
    <3> QED
      BY <3>2
  <2> QED
    BY <2>1, <2>2
<1>6. CASE ~FeedMore(scan.page)
  <2>1. Len(feed) - trimmed <= edge
    BY <1>3, <1>4, <1>6 DEF FeedMore, edge
  <2>2. ASSUME NEW i \in Events, cursor < i, i <= SightedLatest PROVE i \in R \cup scan'.seen
    <3>1. CASE i > trimmed
      <4>1. ~(Len(feed) - i >= edge)
        BY <1>3, <1>4, <2>1, <3>1
      <4> QED
        BY <1>4, <1>5, <2>2, <4>1 DEF Reaches
    <3> QED
      BY <1>3, <1>4, <3>1
  <2> HIDE DEF new, low
  <2>3. ScanCoversAll(R \cup scan.seen)'
    BY <1>2, <1>4, <2>2 DEF ScanCoversAll
  <2> QED
    BY <1>6, <2>3
<1>7. CASE FeedMore(scan.page)
  <2>1. new # {} => /\ low \in new /\ low > cursor /\ low \in Nat /\ ~Reaches(low, scan.page + 1)
    <3> SUFFICES ASSUME new # {}
                 PROVE  low \in new /\ low > cursor /\ low \in Nat /\ ~Reaches(low, scan.page + 1)
      OBVIOUS
    <3>1. new = RowsAfterSeek /\ ~Seeking
      OBVIOUS
    <3>2. low \in RowsAfterSeek /\ low \in Nat
      <4>1. low = Oldest(RowsAfterSeek)
        BY <3>1
      <4> QED
        BY <1>3, <3>1, <4>1, ScanRowsType DEF Markers
    <3>3. low > cursor
      <4>1. \A j \in RowsAfterSeek : j > cursor
        BY <1>1, <1>7, <3>1, PageFacts
      <4> HIDE DEF low
      <4> QED
        BY <3>2, <4>1
    <3>4. ~Reaches(low, scan.page + 1)
      <4>1. Len(feed) - low < edge
        BY <3>2 DEF RowsAfterSeek, FeedPage, edge
      <4>2. ~(Len(feed) - low >= edge)
        BY <1>3, <1>4, <3>2, <4>1
      <4> QED
        BY <1>4, <4>2 DEF Reaches
    <3> QED
      BY <3>1, <3>2, <3>3, <3>4
  <2>2. ASSUME low # NoMarker, NEW i \in Events, low <= i, i <= SightedLatest
        PROVE  i \in R \cup scan'.seen
    <3>1. CASE new = {}
      <4>1. low = scan.bound
        BY <3>1
      <4>2. scan.latest # NoMarker
        BY <1>3, <2>2, <4>1
      <4>3. SightedLatest = scan.latest
        BY <4>2 DEF SightedLatest, FirstSight
      <4> QED
        BY <2>2, <4>1, <4>3 DEF ScanCovers
    <3>2. CASE new # {}
      <4>1. cursor < i
        BY <1>3, <1>4, <2>1, <2>2, <3>2 DEF Markers
      <4>2. ~Reaches(i, scan.page + 1)
        <5>1. ~(Len(feed) - low >= edge)
          BY <1>4, <2>1, <3>2 DEF Reaches
        <5>2. ~(Len(feed) - i >= edge)
          BY <1>3, <1>4, <2>1, <2>2, <3>2, <5>1
        <5> QED
          BY <1>4, <5>2 DEF Reaches
      <4> QED
        BY <1>5, <2>2, <4>1, <4>2
    <3> QED
      BY <3>1, <3>2
  <2>3. ASSUME NEW i \in Events, cursor < i, i <= SightedLatest, ~Reaches(i, next)
        PROVE  i \in R \cup scan'.seen
    <3>1. CASE next = scan.page + 1
      BY <1>5, <2>3, <3>1
    <3>2. CASE next = scan.page
      <4>1. ~FirstSight
        <5>1. i \in Markers
          BY <1>3, <1>4 DEF Events, Markers
        <5> QED
          BY <2>3, <3>2, <5>1, ReachesNearer DEF FirstSight
      <4>2. SightedLatest = scan.latest
        BY <4>1 DEF SightedLatest
      <4> QED
        BY <2>3, <3>2, <4>2 DEF ScanCovers
    <3> QED
      BY <3>1, <3>2
  <2> HIDE DEF new, low
  <2>4. next \in Nat
    BY <1>3
  <2> HIDE DEF next
  <2>5. \A i \in Events : Reaches(i, scan.page)' <=> Reaches(i, next)
    BY <1>2, <1>4 DEF Reaches
  <2>6. ScanCovers(R \cup scan.seen)'
    BY <1>2, <1>4, <2>2, <2>3, <2>5 DEF ScanCovers
  <2> QED
    BY <1>7, <2>6
<1> QED
  BY <1>6, <1>7

(***************************************************************************)
(* What the cursor passed is in the digest store                           *)
(***************************************************************************)
\* A creation that is in the digest store, or that no scan could have read.
Safe(i) == feed[i].created => i \in captured \/ i <= trimmed \/ i \in abandoned
\* ... or that this run has read and is about to capture.
Read(i) == Safe(i) \/ (pc \in {"scan", "capture", "lost"} /\ i \in scan.seen)

SafeEvents == {i \in Events : Safe(i)}
ReadEvents == {i \in Events : Read(i)}

AbandonedOld == \A i \in abandoned : Len(feed) - i >= MaxScanPages * FeedPageSize

\* What a checkpoint says was read is safe; a recovery has captured all that its anchor
\* will pass.
CheckpointRead ==
    /\ CheckpointCovers(SafeEvents)
    /\ recovering => \A i \in Events : cursor < i /\ i <= scanLatest => Safe(i)

\* The same of a scan under way, and of one that is over or lost.
ScanRead ==
    /\ pc = "scan" => ~scan.complete
    /\ ScanOpen => ScanCovers(ReadEvents)
    /\ pc \in {"lost", "recover"} \/ Scanned => ScanCoversAll(ReadEvents)

CaptureInv == CreationsCaptured /\ AbandonedOld /\ CheckpointRead /\ ScanRead

LocalPhases == {"scan", "capture", "details", "lost", "recover"}

LEMMA InitCapture == Init => CaptureInv
<1> SUFFICES ASSUME Init PROVE CaptureInv
  OBVIOUS
<1>1. Events = {} /\ cursor = 0 /\ anchor = 0 /\ abandoned = {} /\ pc = "idle"
  BY DEF Init, Events, NoMarker
<1> QED
  BY <1>1 DEF CaptureInv, CreationsCaptured, AbandonedOld, CheckpointRead, CheckpointCovers,
     ScanRead, ScanOpen, Scanned

\* Steps that leave checkpoint and scan alone, or only capture what was read.
LEMMA CaptureStill ==
    ASSUME TypeOK, TypeOK', CaptureInv, UNCHANGED <<recentVars, anchor, abandoned>>,
           Len(feed') >= Len(feed), \A i \in Events : feed'[i] = feed[i],
           trimmed' >= trimmed, captured \subseteq captured',
           \/ pc' \notin LocalPhases
           \/ UNCHANGED <<pc, scan>>
           \/ /\ \/ pc = "capture" /\ pc' = "details"
                 \/ pc = "lost" /\ pc' = "recover"
              /\ UNCHANGED scan /\ Creations(scan.seen) \subseteq captured'
    PROVE  CaptureInv'
<1>1. /\ Len(feed) \in Nat /\ Len(feed') \in Nat /\ trimmed \in Nat /\ trimmed' \in Nat
      /\ cursor \in Markers /\ anchor \in Markers /\ scanLatest \in Markers
      /\ scanBoundary \in Markers /\ scanPage \in Nat \ {0} /\ scan \in Scans
      /\ abandoned \subseteq Events
  <2>1. /\ Len(feed) \in Nat /\ Len(feed') \in Nat /\ trimmed \in Nat /\ trimmed' \in Nat
    BY DEF TypeOK, UpstreamTypes, Markers
  <2>2. /\ cursor \in Markers /\ scanLatest \in Markers /\ scanBoundary \in Markers
        /\ scanPage \in Nat \ {0} /\ scan \in Scans
    BY DEF TypeOK, RecentTypes, RunTypes
  <2>3. anchor \in Markers /\ abandoned \subseteq Events
    BY DEF TypeOK, HistoryTypes
  <2> QED
    BY <2>1, <2>2, <2>3
<1>2. \A i \in Events : i \in Events' /\ i \in Markers /\ i \in Nat
  BY <1>1 DEF Events, Markers
<1>3. ASSUME NEW i \in Events, Safe(i) PROVE Safe(i)'
  BY <1>1, <1>2, <1>3 DEF Safe
<1>4. CreationsCaptured'
  <2> SUFFICES ASSUME NEW i \in (anchor + 1)..cursor PROVE Safe(i)'
    BY DEF CreationsCaptured, Safe, recentVars
  <2>1. i \in Events /\ Safe(i)
    BY <1>1 DEF CaptureInv, CreationsCaptured, Safe, Markers, Events
  <2> QED
    BY <1>3, <2>1
<1>5. AbandonedOld'
  <2>1. MaxScanPages * FeedPageSize \in Nat
    BY SizesAssumption
  <2>2. \A i \in abandoned : i \in Nat /\ Len(feed) - i >= MaxScanPages * FeedPageSize
    BY <1>1, <1>2 DEF CaptureInv, AbandonedOld
  <2> HIDE SizesAssumption
  <2> QED
    BY <1>1, <2>1, <2>2 DEF AbandonedOld
<1>6. \A i \in Events', m \in Markers : i <= m => i \in Events
  BY <1>1 DEF Events, Markers
<1>7. CheckpointRead'
  <2> PICK R : R = SafeEvents
    OBVIOUS
  <2> PICK Q : Q = SafeEvents'
    OBVIOUS
  <2>1. CheckpointCovers(R) /\ \A i \in Events : i \in R => i \in Q
    BY <1>2, <1>3 DEF CaptureInv, CheckpointRead, CheckpointCovers, SafeEvents
  <2>2. CheckpointCovers(Q)'
    BY <2>1, CoversStill
  <2>3. (recovering => \A i \in Events : cursor < i /\ i <= scanLatest => Safe(i))'
    BY <1>1, <1>3, <1>6 DEF CaptureInv, CheckpointRead, recentVars
  <2> QED
    BY <2>2, <2>3 DEF CheckpointRead, CheckpointCovers
<1>8. ScanRead'
  <2>1. CASE pc' \notin LocalPhases
    BY <2>1 DEF ScanRead, ScanOpen, Scanned, LocalPhases
  <2>2. CASE pc' \in LocalPhases
    <3>1. /\ scan' = scan /\ pc \in LocalPhases
          /\ pc' = "scan" <=> pc = "scan"
          /\ pc' \in {"capture", "details"} <=> pc \in {"capture", "details"}
          /\ pc' \in {"lost", "recover"} <=> pc \in {"lost", "recover"}
      BY <2>2 DEF LocalPhases
    <3>2. ASSUME NEW i \in Events, Read(i) PROVE Read(i)'
      <4>1. CASE Safe(i)
        BY <1>3, <4>1 DEF Read
      <4>2. CASE ~Safe(i)
        <5>1. pc \in {"scan", "capture", "lost"} /\ i \in scan.seen
          BY <3>2, <4>2 DEF Read
        <5>2. CASE pc' = pc
          BY <3>1, <5>1, <5>2 DEF Read
        <5>3. CASE pc' # pc
          <6>1. i \in Creations(scan.seen)
            BY <4>2, <5>1 DEF Creations, Safe
          <6>2. i \in captured'
            BY <2>2, <5>3, <6>1
          <6> QED
            BY <6>2 DEF Read, Safe
        <5> QED
          BY <5>2, <5>3
      <4> QED
        BY <4>1, <4>2
    <3> PICK R : R = ReadEvents
      OBVIOUS
    <3> PICK Q : Q = ReadEvents'
      OBVIOUS
    <3>3. \A i \in Events : i \in R => i \in Q
      BY <1>2, <3>2 DEF ReadEvents
    <3>4. /\ ScanCovers(R) => ScanCovers(Q)'
          /\ ScanCoversAll(R) => ScanCoversAll(Q)'
      BY <3>1, <3>3, CoversStill
    <3>5. /\ ScanCovers(ReadEvents) => ScanCovers(ReadEvents)'
          /\ ScanCoversAll(ReadEvents) => ScanCoversAll(ReadEvents)'
      BY <3>4 DEF ScanCovers, ScanCoversAll
    <3> QED
      BY <3>1, <3>5 DEF CaptureInv, ScanRead, ScanOpen, Scanned
  <2> QED
    BY <2>1, <2>2
<1> QED
  BY <1>4, <1>5, <1>7, <1>8 DEF CaptureInv

\* A run takes over what its checkpoint says was read.
LEMMA StartRecentCapture ==
    TypeOK /\ CaptureInv /\ StartRecent => CaptureInv'
<1> SUFFICES ASSUME TypeOK, CaptureInv, StartRecent PROVE CaptureInv'
  OBVIOUS
<1>1. /\ UNCHANGED <<recentVars, historyVars, feed, trimmed, captured>>
      /\ pc' = "scan" /\ scan'.complete = FALSE
  BY DEF StartRecent, upstreamVars, digestVars, NoScan
<1>2. UNCHANGED <<cursor, anchor, abandoned, scanPage, scanLatest, scanBoundary, recovering>>
  BY <1>1 DEF recentVars, historyVars
<1>3. Events' = Events /\ \A i \in Events : Safe(i) => Read(i)' /\ Safe(i)'
  BY <1>1, <1>2 DEF Events, Safe, Read
<1>4. CreationsCaptured' /\ AbandonedOld'
  BY <1>1, <1>2 DEF CaptureInv, CreationsCaptured, AbandonedOld
<1>5. CheckpointRead'
  <2>1. \A i \in Events : Reaches(i, scanPage)' <=> Reaches(i, scanPage)
    BY <1>1, <1>2 DEF Reaches
  <2> QED
    BY <1>2, <1>3, <2>1 DEF CaptureInv, CheckpointRead, CheckpointCovers, SafeEvents
<1> PICK R : R = SafeEvents
  OBVIOUS
<1>6. CheckpointCovers(R)
  BY DEF CaptureInv, CheckpointRead, CheckpointCovers
<1>7. ScanCovers(R)'
  BY <1>6, ResumedCovers
<1>8. ScanCovers(ReadEvents)'
  BY <1>3, <1>7 DEF ScanCovers, ReadEvents, SafeEvents
<1> QED
  BY <1>1, <1>4, <1>5, <1>8 DEF CaptureInv, ScanRead, Scanned

\* What is read stays read as a scan goes on.
LEMMA ScanningFrame ==
    ASSUME TypeOK, CaptureInv, Scanning
    PROVE  /\ UNCHANGED <<recentVars, anchor, feed, trimmed, captured>>
           /\ abandoned \subseteq abandoned'
           /\ \A i \in Events : Safe(i) => Safe(i)'
           /\ CreationsCaptured' /\ AbandonedOld' /\ CheckpointRead'
<1>1. UNCHANGED <<recentVars, anchor, feed, trimmed, captured>>
  BY DEF Scanning, ScanTooDeep, ScanAnchors, ScanMeetsCursor, ScanGoesOn, ScanFrame,
         upstreamVars, digestVars
<1>2. /\ abandoned \subseteq abandoned'
      /\ AbandonedOld'
  <2>1. CASE UNCHANGED abandoned
    BY <1>1, <2>1 DEF CaptureInv, AbandonedOld
  <2>2. CASE ScanTooDeep
    <3>1. abandoned' = {i \in Events : Len(feed) - i >= MaxScanPages * FeedPageSize}
      BY <2>2 DEF ScanTooDeep
    <3>2. abandoned \subseteq Events
      BY DEF TypeOK, HistoryTypes
    <3> QED
      BY <1>1, <3>1, <3>2 DEF CaptureInv, AbandonedOld
  <2> QED
    BY <2>1, <2>2 DEF Scanning, ScanAnchors, ScanMeetsCursor, ScanGoesOn
<1>3. \A i \in Events : Safe(i) => Safe(i)'
  BY <1>1, <1>2 DEF Safe
<1>4. CreationsCaptured'
  <2>1. \A i \in (anchor + 1)..cursor : Safe(i) => Safe(i)'
    BY <1>1, <1>2 DEF Safe
  <2> QED
    BY <1>1, <2>1 DEF CaptureInv, CreationsCaptured, Safe, recentVars
<1>5. CheckpointRead'
  <2>1. Events' = Events /\ UNCHANGED <<cursor, scanPage, scanLatest, scanBoundary, recovering>>
    BY <1>1 DEF Events, recentVars
  <2>2. \A i \in Events : Reaches(i, scanPage)' <=> Reaches(i, scanPage)
    BY <1>1, <2>1 DEF Reaches
  <2> QED
    BY <1>3, <2>1, <2>2 DEF CaptureInv, CheckpointRead, CheckpointCovers, SafeEvents
<1> QED
  BY <1>1, <1>2, <1>3, <1>4, <1>5

LEMMA ScanStopsCapture ==
    TypeOK /\ ScanNeverOvershoots /\ CaptureInv /\ (ScanTooDeep \/ ScanAnchors) => CaptureInv'
<1> SUFFICES ASSUME TypeOK, ScanNeverOvershoots, CaptureInv, ScanTooDeep \/ ScanAnchors
             PROVE  CaptureInv'
  OBVIOUS
<1>1. /\ UNCHANGED <<recentVars, anchor, feed, trimmed, captured>>
      /\ \A i \in Events : Safe(i) => Safe(i)'
      /\ CreationsCaptured' /\ AbandonedOld' /\ CheckpointRead'
  BY ScanningFrame DEF Scanning
<1>2. CASE ScanAnchors
  <2>1. pc' \in {"hydrate", "anchor"}
    BY <1>2 DEF ScanAnchors
  <2> QED
    BY <1>1, <2>1 DEF CaptureInv, ScanRead, ScanOpen, Scanned
\* What the depth guard gives up on is on a page the scan has not come to.
<1>3. CASE ScanTooDeep
  <2>1. /\ pc = "scan" /\ pc' = "lost" /\ scan' = scan /\ scan.page > MaxScanPages
        /\ abandoned' = {i \in Events : Len(feed) - i >= MaxScanPages * FeedPageSize}
    BY <1>3 DEF ScanTooDeep
  <2>2. scan.page \in Nat /\ Len(feed) \in Nat /\ FeedPageSize \in Nat /\ MaxScanPages \in Nat
    BY SizesAssumption DEF TypeOK, RunTypes, UpstreamTypes, Scans
  <2>3. (scan.page - 1) * FeedPageSize >= MaxScanPages * FeedPageSize
    BY <2>1, <2>2
  <2>4. ASSUME NEW i \in Events, cursor < i, i <= scan.latest PROVE Read(i)'
    <3>1. CASE Reaches(i, scan.page)
      <4>1. i \in Nat
        BY DEF Events
      <4>2. (scan.page - 1) * FeedPageSize \in Int /\ MaxScanPages * FeedPageSize \in Int
        BY <2>2
      <4>3. Len(feed) - i >= MaxScanPages * FeedPageSize
        BY <2>2, <2>3, <3>1, <4>1, <4>2 DEF Reaches
      <4> QED
        BY <2>1, <4>3 DEF Read, Safe
    <3>2. CASE ~Reaches(i, scan.page)
      <4>1. Read(i)
        BY <2>1, <2>4, <3>2 DEF CaptureInv, ScanRead, ScanOpen, ScanCovers, ReadEvents
      <4> QED
        BY <1>1, <2>1, <4>1 DEF Read
    <3> QED
      BY <3>1, <3>2
  <2>5. ScanCoversAll(ReadEvents)'
    BY <1>1, <2>1, <2>4 DEF ScanCoversAll, ReadEvents, recentVars, Events
  <2> QED
    BY <1>1, <2>1, <2>5 DEF CaptureInv, ScanRead, ScanOpen
<1> QED
  BY <1>2, <1>3

\* One page: what it held has been read, and no more was to read if it held the cursor.
LEMMA ScanReadsCapture ==
    TypeOK /\ ScanNeverOvershoots /\ CaptureInv /\ (ScanMeetsCursor \/ ScanGoesOn) => CaptureInv'
<1> SUFFICES ASSUME TypeOK, ScanNeverOvershoots, CaptureInv, ScanMeetsCursor \/ ScanGoesOn
             PROVE  CaptureInv'
  OBVIOUS
<1>1. /\ UNCHANGED <<recentVars, anchor, feed, trimmed, captured>>
      /\ \A i \in Events : Safe(i) => Safe(i)'
      /\ CreationsCaptured' /\ AbandonedOld' /\ CheckpointRead'
  BY ScanningFrame DEF Scanning
<1>2. /\ pc = "scan" /\ pc' \in {"scan", "capture", "lost"} /\ scan.seen \subseteq scan'.seen
      /\ ScanMeetsCursor => pc' = "capture" /\ scan'.complete
      /\ ScanGoesOn => scan'.complete = scan.complete /\ (pc' = "lost" <=> ~FeedMore(scan.page))
  <2>1. scan \in Scans
    BY DEF TypeOK, RunTypes
  <2>2. ASSUME ScanMeetsCursor
        PROVE  /\ pc = "scan" /\ pc' = "capture" /\ scan'.complete /\ scan.seen \subseteq scan'.seen
               /\ ~ScanGoesOn
    BY <2>1, <2>2 DEF ScanMeetsCursor, ScanGoesOn, ScanReads, Scans
  <2>3. ASSUME ScanGoesOn
        PROVE  /\ pc = "scan" /\ pc' \in {"scan", "capture", "lost"} /\ scan.seen \subseteq scan'.seen
               /\ scan'.complete = scan.complete /\ (pc' = "lost" <=> ~FeedMore(scan.page))
    BY <2>1, <2>3 DEF ScanGoesOn, ScanReads, Scans
  <2> QED
    BY <2>2, <2>3
<1>3. ~scan.complete /\ ScanCovers(ReadEvents) /\ Events' = Events
  BY <1>1, <1>2 DEF CaptureInv, ScanRead, ScanOpen, Events
<1>4. \A i \in Events : Read(i) \/ i \in scan'.seen => Read(i)'
  BY <1>1, <1>2 DEF Read
<1> PICK R : R = ReadEvents
  OBVIOUS
<1>5. ScanCovers(R) /\ \A i \in Events : i <= trimmed => i \in R
  BY <1>3 DEF ScanCovers, ReadEvents, Read, Safe
<1>6. /\ ScanCovers(R \cup scan.seen)' => ScanCovers(ReadEvents)'
      /\ ScanCoversAll(R \cup scan.seen)' => ScanCoversAll(ReadEvents)'
  BY <1>3, <1>4 DEF ScanCovers, ScanCoversAll, ReadEvents
<1>7. CASE ScanMeetsCursor
  <2>1. ScanCoversAll(ReadEvents)'
    BY <1>5, <1>6, <1>7, CursorMetCovers
  <2> QED
    BY <1>1, <1>2, <1>7, <2>1 DEF CaptureInv, ScanRead, ScanOpen
<1>8. CASE ScanGoesOn
  <2>1. /\ FeedMore(scan.page) => ScanCovers(ReadEvents)'
        /\ ~FeedMore(scan.page) => ScanCoversAll(ReadEvents)'
    BY <1>5, <1>6, <1>8, PageLeftCovers
  <2> QED
    BY <1>1, <1>2, <1>3, <1>8, <2>1 DEF CaptureInv, ScanRead, ScanOpen, Scanned
<1> QED
  BY <1>7, <1>8

\* Steps elsewhere leave the checkpoint alone; the feed only grows at its new end, and what
\* is captured stays captured.
LEMMA ElsewhereCapture ==
    TypeOK /\ TypeOK' /\ CaptureInv /\ Elsewhere => CaptureInv'
<1> SUFFICES ASSUME TypeOK, TypeOK', CaptureInv, Elsewhere PROVE CaptureInv'
  OBVIOUS
<1>1. UNCHANGED <<recentVars, anchor, abandoned>> /\ captured \subseteq captured'
  <2>1. CASE \/ Upstream \/ (Idling /\ ~StartRecent) \/ ListingLanes \/ Capture
             \/ LostCapture
    BY <2>1 DEF Upstream, UpstreamEdit, UpstreamCreate, UpstreamRemove, UpstreamTrim, Idling,
       Fail, PastEndFails, ReconcileNotDue, StartIntegrity, StartBackfill, ReconcileDue,
       ListingLanes, BackfillFetch, BackfillStore, ReconcileFetch, ReconcileStore, Capture,
       LostCapture, LostCaptured, historyVars, digestVars
  <2>2. CASE \/ BeginSnapshot \/ SnapshotFetch \/ SnapshotStage \/ SnapshotAdvance
             \/ Closing
    BY <2>2 DEF BeginSnapshot, SnapshotFetch, SnapshotStage, SnapshotAdvance, Closing,
       EvictRetired, PublishRefused, RestartSnapshot, GiveUpSnapshot, historyVars, digestVars
  <2>3. CASE Cache \/ (\E t \in Tools : Detail(t)) \/ UNCHANGED vars
    BY <2>3 DEF Cache, CachePoll, CacheExpires, Detail, DetailRefreshed, DetailGone,
       DetailFails, Hydrate, DetailFrame, vars, historyVars, digestVars
  <2> QED
    BY <2>1, <2>2, <2>3 DEF Elsewhere
<1>2. /\ trimmed' >= trimmed
      /\ \/ feed' = feed
         \/ \E t \in Tools, isNew \in BOOLEAN :
              feed' = Append(feed, [tool |-> t, created |-> isNew])
  <2>1. trimmed \in Nat
    BY DEF TypeOK, UpstreamTypes, Markers
  <2>2. CASE Upstream
    <3>1. trimmed' = trimmed \/ trimmed' = trimmed + 1
      BY <2>2 DEF Upstream, UpstreamEdit, UpstreamCreate, UpstreamRemove, UpstreamTrim
    <3>2. \/ feed' = feed
          \/ \E t \in Tools, isNew \in BOOLEAN :
               feed' = Append(feed, [tool |-> t, created |-> isNew])
      BY <2>2 DEF Upstream, UpstreamEdit, UpstreamCreate, UpstreamRemove, UpstreamTrim,
         Announce
    <3>3. trimmed' >= trimmed
      BY <2>1, <3>1
    <3> QED
      BY <3>2, <3>3
  <2>3. CASE UNCHANGED upstreamVars
    BY <2>1, <2>3 DEF upstreamVars
  <2>4. CASE ~Upstream
    <3>1. CASE \/ (Idling /\ ~StartRecent) \/ ListingLanes \/ Capture \/ LostCapture
      BY <2>3, <3>1 DEF Idling, Fail, PastEndFails, ReconcileNotDue, StartIntegrity,
         StartBackfill, ReconcileDue, ListingLanes, BackfillFetch, BackfillStore,
         ReconcileFetch, ReconcileStore, Capture, LostCapture
    <3>2. CASE \/ BeginSnapshot \/ SnapshotFetch \/ SnapshotStage \/ SnapshotAdvance
               \/ Closing
      BY <2>3, <3>2 DEF BeginSnapshot, SnapshotFetch, SnapshotStage, SnapshotAdvance,
         Closing, EvictRetired, PublishRefused, RestartSnapshot, GiveUpSnapshot
    <3>3. CASE Cache \/ (\E t \in Tools : Detail(t)) \/ UNCHANGED vars
      BY <2>3, <3>3 DEF Cache, CachePoll, CacheExpires, Detail, DetailRefreshed,
         DetailGone, DetailFails, Hydrate, DetailFrame, vars
    <3> QED
      BY <2>4, <3>1, <3>2, <3>3 DEF Elsewhere
  <2> QED
    BY <2>2, <2>4
<1>3. Len(feed') >= Len(feed) /\ \A i \in Events : feed'[i] = feed[i]
  <2>1. feed \in Seq([tool : Tools, created : BOOLEAN]) /\ Len(feed) \in Nat
    BY DEF TypeOK, UpstreamTypes
  <2>2. ASSUME NEW t \in Tools, NEW isNew \in BOOLEAN,
               feed' = Append(feed, [tool |-> t, created |-> isNew])
        PROVE  Len(feed') >= Len(feed) /\ \A i \in Events : feed'[i] = feed[i]
    BY <2>1, <2>2 DEF Events
  <2>3. CASE feed' = feed
    BY <2>1, <2>3
  <2> QED
    BY <1>2, <2>2, <2>3
<1>4. \/ pc' \notin LocalPhases
      \/ UNCHANGED <<pc, scan>>
      \/ /\ \/ pc = "capture" /\ pc' = "details"
            \/ pc = "lost" /\ pc' = "recover"
         /\ UNCHANGED scan /\ Creations(scan.seen) \subseteq captured'
  <2>1. CASE \/ Upstream \/ (Idling /\ ~StartRecent) \/ ListingLanes \/ Capture
             \/ LostCapture
    BY <2>1 DEF Upstream, Idling, Fail, PastEndFails, ReconcileNotDue, StartIntegrity,
       StartBackfill, ReconcileDue, ListingLanes, BackfillFetch, BackfillStore,
       ReconcileFetch, ReconcileStore, Capture, LostCapture, LostCaptured, RunOver, Continue,
       runVars, LocalPhases
  <2>2. CASE \/ BeginSnapshot \/ SnapshotFetch \/ SnapshotStage \/ SnapshotAdvance
             \/ Closing
    BY <2>2 DEF BeginSnapshot, SnapshotFetch, SnapshotStage, SnapshotAdvance, Closing,
       EvictRetired, PublishRefused, RestartSnapshot, GiveUpSnapshot, DiscardStage,
       RunOver, Continue, LocalPhases
  <2>3. CASE Cache \/ (\E t \in Tools : Detail(t)) \/ UNCHANGED vars
    BY <2>3 DEF Cache, CachePoll, CacheExpires, Detail, DetailRefreshed, DetailGone,
       DetailFails, Hydrate, DetailFrame, vars, runVars
  <2> QED
    BY <2>1, <2>2, <2>3 DEF Elsewhere
<1> QED
  BY <1>1, <1>2, <1>3, <1>4, CaptureStill

\* Steps that leave the feed and the digest store alone keep what is safe.
LEMMA SafeStill ==
    ASSUME UNCHANGED <<feed, trimmed, captured, abandoned>>
    PROVE  /\ Events' = Events
           /\ \A i \in Int : Safe(i)' <=> Safe(i)
           /\ AbandonedOld => AbandonedOld'
           /\ \A i, p \in Int : Reaches(i, p)' <=> Reaches(i, p)
  BY DEF Events, Safe, AbandonedOld, Reaches

\* The first cursor: nothing lies between it and its anchor, and no checkpoint is stored.
LEMMA StoreAnchorCapture ==
    TypeOK /\ ScanNeverOvershoots /\ CaptureInv /\ StoreAnchor => CaptureInv'
<1> SUFFICES ASSUME TypeOK, ScanNeverOvershoots, CaptureInv, StoreAnchor PROVE CaptureInv'
  OBVIOUS
<1>1. /\ cursor' = scan.latest /\ anchor' = scan.latest /\ pc = "anchor" /\ pc' = "hydrate"
      /\ UNCHANGED <<feed, trimmed, captured, abandoned, scanPage, scanLatest, scanBoundary,
                     recovering>>
  BY DEF StoreAnchor, Continue, upstreamVars, digestVars
<1>2. scanLatest = NoMarker /\ scan.latest \in Nat /\ scan.latest # NoMarker
      /\ scanBoundary = NoMarker
  BY <1>1 DEF ScanNeverOvershoots, LocalScan, CheckpointSound, TypeOK, RunTypes, Scans, Markers
<1>3. CreationsCaptured'
  BY <1>1, <1>2 DEF CreationsCaptured
<1>4. AbandonedOld' /\ Events' = Events /\ Events \subseteq Nat
  BY <1>1, SafeStill DEF CaptureInv, Events
<1>5. CheckpointRead'
  BY <1>1, <1>2, <1>4 DEF CheckpointRead, CheckpointCovers, NoMarker
<1> QED
  BY <1>1, <1>3, <1>4, <1>5 DEF CaptureInv, ScanRead, ScanOpen, Scanned

\* A cursor moves only to a marker all events up to which are safe.
LEMMA CursorMoves ==
    ASSUME TypeOK, CaptureInv, NEW m \in Markers, cursor' = m,
           \A i \in Events : cursor < i /\ i <= m => Safe(i),
           UNCHANGED <<feed, trimmed, captured, abandoned, anchor>>
    PROVE  CreationsCaptured'
<1>1. /\ cursor \in Nat /\ anchor \in Nat /\ Len(feed) \in Nat /\ m \in Nat /\ m <= Len(feed)
  BY DEF TypeOK, RecentTypes, HistoryTypes, UpstreamTypes, Markers
<1>2. ASSUME NEW i \in (anchor + 1)..m PROVE Safe(i)
  <2>1. CASE i <= cursor
    BY <1>1, <2>1 DEF CaptureInv, CreationsCaptured, Safe
  <2>2. CASE i > cursor
    BY <1>1, <2>2 DEF Events
  <2> QED
    BY <1>1, <2>1, <2>2
<1> QED
  BY <1>2 DEF CreationsCaptured, Safe

\* The end of a recent run: all up to the new cursor was read, or the checkpoint says
\* what was.
LEMMA StoreProgressCapture ==
    TypeOK /\ ScanNeverOvershoots /\ CaptureInv /\ StoreProgress => CaptureInv'
<1> SUFFICES ASSUME TypeOK, ScanNeverOvershoots, CaptureInv, StoreProgress PROVE CaptureInv'
  OBVIOUS
<1>1. /\ pc = "details" /\ UNCHANGED <<feed, trimmed, captured, abandoned, anchor>>
      /\ recovering' = FALSE /\ cursor' = NextCursor /\ scanBoundary' = NextBoundary
      /\ scanPage' = IF scan.complete THEN 1 ELSE scan.page
      /\ scanLatest' = IF scan.complete THEN NoMarker ELSE scan.latest
  BY DEF StoreProgress, DetailsDone, upstreamVars, digestVars
<1>2. pc' \in {"hydrate", "idle"}
  BY DEF StoreProgress, DiscardStage, RunOver, Continue
<1>3. /\ scan.latest \in Markers /\ cursor \in Markers /\ scan.page \in Nat
      /\ Events \subseteq Nat \ {0} /\ Events \subseteq Int
  BY DEF TypeOK, RunTypes, RecentTypes, Scans, Events
<1>4. /\ Events' = Events /\ AbandonedOld'
      /\ \A i \in Int : Safe(i)' <=> Safe(i)
      /\ \A i, p \in Int : Reaches(i, p)' <=> Reaches(i, p)
  BY <1>1, SafeStill DEF CaptureInv
<1>5. \A i \in Events : Read(i) => Safe(i)
  BY <1>1 DEF Read
<1>6. CASE scan.complete
  <2>1. /\ cursor' = scan.latest /\ scanLatest' = NoMarker /\ scanBoundary' = NoMarker
    BY <1>1, <1>6 DEF NextCursor, NextBoundary
  <2>2. \A i \in Events : cursor < i /\ i <= scan.latest => Safe(i)
    BY <1>1, <1>5, <1>6 DEF CaptureInv, ScanRead, Scanned, ScanCoversAll, ReadEvents
  <2>3. CreationsCaptured'
    BY <1>1, <1>3, <2>1, <2>2, CursorMoves
  <2>4. CheckpointRead'
    BY <1>1, <1>3, <1>4, <2>1 DEF CheckpointRead, CheckpointCovers, NoMarker
  <2> QED
    BY <1>2, <1>4, <2>3, <2>4 DEF CaptureInv, ScanRead, ScanOpen, Scanned
<1>7. CASE ~scan.complete
  <2>1. /\ cursor' = cursor /\ scanPage' = scan.page /\ scanLatest' = scan.latest
        /\ scanBoundary' = scan.bound
    BY <1>1, <1>7 DEF NextCursor, NextBoundary
  <2>2. ScanCovers(ReadEvents)
    BY <1>1, <1>7 DEF CaptureInv, ScanRead, ScanOpen
  <2>3. CreationsCaptured'
    <3>1. \A i \in Events : cursor < i /\ i <= cursor => Safe(i)
      BY <1>3 DEF Markers
    <3> QED
      BY <1>1, <1>3, <2>1, <3>1, CursorMoves
  <2>4. CheckpointRead'
    BY <1>1, <1>3, <1>4, <1>5, <2>1, <2>2 DEF CheckpointRead, CheckpointCovers, ScanCovers,
       ReadEvents, SafeEvents
  <2> QED
    BY <1>2, <1>4, <2>3, <2>4 DEF CaptureInv, ScanRead, ScanOpen, Scanned
<1> QED
  BY <1>6, <1>7

\* A lost cursor: all that the recovery's anchor will pass was captured.
LEMMA PrepareRecoveryCapture ==
    TypeOK /\ CaptureInv /\ PrepareRecovery => CaptureInv'
<1> SUFFICES ASSUME TypeOK, CaptureInv, PrepareRecovery PROVE CaptureInv'
  OBVIOUS
<1>1. /\ pc = "recover" /\ UNCHANGED <<feed, trimmed, captured, abandoned, anchor, cursor>>
      /\ scanPage' = 1 /\ scanLatest' = scan.latest /\ scanBoundary' = NoMarker
  BY DEF PrepareRecovery, upstreamVars, digestVars
<1>2. pc' \in {"snapBegin", "idle"}
  BY DEF PrepareRecovery, DiscardStage, RunOver, Continue
<1>3. cursor \in Markers /\ Events \subseteq Int
  BY DEF TypeOK, RecentTypes, Events
<1>4. /\ Events' = Events /\ AbandonedOld' /\ \A i \in Int : Safe(i)' <=> Safe(i)
  BY <1>1, SafeStill DEF CaptureInv
<1>5. \A i \in Events : cursor < i /\ i <= scan.latest => Safe(i)
  BY <1>1 DEF CaptureInv, ScanRead, Scanned, ScanCoversAll, ReadEvents, Read
<1>6. CreationsCaptured'
  <2>1. \A i \in Events : cursor < i /\ i <= cursor => Safe(i)
    BY <1>3 DEF Markers
  <2> QED
    BY <1>1, <1>3, <2>1, CursorMoves
<1>7. CheckpointRead'
  BY <1>1, <1>3, <1>4, <1>5 DEF CheckpointRead, CheckpointCovers, SafeEvents
<1> QED
  BY <1>2, <1>4, <1>6, <1>7 DEF CaptureInv, ScanRead, ScanOpen, Scanned

\* A published recovery moves the cursor to its anchor.
LEMMA PublishCapture ==
    TypeOK /\ TypeOK' /\ CaptureInv /\ PublishSnapshot => CaptureInv'
<1> SUFFICES ASSUME TypeOK, TypeOK', CaptureInv, PublishSnapshot PROVE CaptureInv'
  OBVIOUS
<1>1. /\ pc' = "evict" /\ UNCHANGED <<feed, trimmed, captured, abandoned, anchor, pending>>
      /\ Events \subseteq Nat \ {0} /\ Events \subseteq Int /\ scanLatest \in Markers
  BY DEF PublishSnapshot, upstreamVars, digestVars, Events, TypeOK, RecentTypes
<1>2. CASE recovering
  <2>1. /\ cursor' = scanLatest /\ scanLatest' = NoMarker /\ scanBoundary' = NoMarker
        /\ recovering' = FALSE
    BY <1>2 DEF PublishSnapshot
  <2>2. \A i \in Events : cursor < i /\ i <= scanLatest => Safe(i)
    BY <1>2 DEF CaptureInv, CheckpointRead
  <2>3. CreationsCaptured'
    BY <1>1, <2>1, <2>2, CursorMoves
  <2>4. AbandonedOld' /\ Events' = Events
    BY <1>1, SafeStill DEF CaptureInv
  <2>5. CheckpointRead'
    BY <1>1, <2>1, <2>4 DEF CheckpointRead, CheckpointCovers, NoMarker
  <2> QED
    BY <1>1, <2>3, <2>4, <2>5 DEF CaptureInv, ScanRead, ScanOpen, Scanned
<1>3. CASE ~recovering
  <2>1. UNCHANGED recentVars
    BY <1>1, <1>3 DEF PublishSnapshot, recentVars
  <2>2. Len(feed') >= Len(feed) /\ trimmed' >= trimmed
    BY <1>1 DEF TypeOK, UpstreamTypes, Markers
  <2>3. pc' \notin LocalPhases
    BY <1>1 DEF LocalPhases
  <2> QED
    BY <1>1, <2>1, <2>2, <2>3, CaptureStill
<1> QED
  BY <1>2, <1>3

LEMMA StepCapture ==
    TypeOK /\ TypeOK' /\ ScanNeverOvershoots /\ CaptureInv /\ [Next]_vars => CaptureInv'
<1> SUFFICES ASSUME TypeOK, TypeOK', ScanNeverOvershoots, CaptureInv, [Next]_vars
             PROVE  CaptureInv'
  OBVIOUS
<1>1. CASE Elsewhere
  BY <1>1, ElsewhereCapture
<1>2. CASE StartRecent
  BY <1>2, StartRecentCapture
<1>3. CASE Scanning
  BY <1>3, ScanStopsCapture, ScanReadsCapture DEF Scanning
<1>4. CASE StoreAnchor \/ StoreProgress \/ PublishSnapshot \/ PrepareRecovery
  BY <1>4, StoreAnchorCapture, StoreProgressCapture, PublishCapture, PrepareRecoveryCapture
<1> QED
  BY <1>1, <1>2, <1>3, <1>4, StepKinds DEF Elsewhere

\* Every creation the cursor has passed is in the digest store, was no longer returned, or
\* was given up on by the depth guard: over scans that drift, resume, lose the cursor and
\* recover it with a snapshot.
THEOREM CreationsInStore == Spec => []CreationsCaptured
<1>1. Init => CaptureInv
  BY InitCapture
<1>2. TypeOK /\ TypeOK' /\ ScanNeverOvershoots /\ CaptureInv /\ [Next]_vars => CaptureInv'
  BY StepCapture
<1>3. CaptureInv => CreationsCaptured
  BY DEF CaptureInv
<1> QED
  BY <1>1, <1>2, <1>3, TypeCorrect, SearchCorrect, PTL DEF Spec
(***************************************************************************)
(* What the cursor passed was asked about                                  *)
(***************************************************************************)
\* A listed tool whose last event no answer covered, and that is not queued for one.
Open == {t \in unasked \cap live : t \notin pending}

\* An event that no such tool still waits for; or that no scan could have read.
Asked == {i \in Events : \A t \in Open : Version(t) # i}
Answered == Asked \cup {i \in Events : i <= trimmed} \cup abandoned

\* A tool waits for its last event.
Evented == \A t \in unasked : Version(t) \in Events

\* A version is the last event of its tool.
LEMMA VersionIsLast ==
    ASSUME NEW f \in Seq([tool : Tools, created : BOOLEAN]), NEW t
    PROVE  \/ /\ VersionIn(f, t) = 0
              /\ \A j \in 1..Len(f) : f[j].tool # t
           \/ /\ VersionIn(f, t) \in 1..Len(f)
              /\ f[VersionIn(f, t)].tool = t
              /\ \A j \in 1..Len(f) : f[j].tool = t => j <= VersionIn(f, t)
<1> DEFINE S == {i \in 1..Len(f) : f[i].tool = t}
<1>1. CASE S = {}
  BY <1>1 DEF VersionIn
<1>2. CASE S # {}
  <2>1. Len(f) \in Nat
    OBVIOUS
  <2>2. S \in SUBSET (0..Len(f))
    BY <2>1
  <2>3. \E m \in S : \A k \in S : k <= m
    BY <1>2, <2>1, <2>2, MaxExists
  <2>4. \E i \in 1..Len(f) :
          f[i].tool = t /\ \A j \in 1..Len(f) : f[j].tool = t => j <= i
    BY <2>3
  <2> QED
    BY <2>4 DEF VersionIn
<1> QED
  BY <1>1, <1>2

\* An event becomes the version of its tool, and leaves the others as they are.
LEMMA AppendVersion ==
    ASSUME NEW f \in Seq([tool : Tools, created : BOOLEAN]), NEW e \in [tool : Tools, created : BOOLEAN],
           NEW t
    PROVE  VersionIn(Append(f, e), t) = IF t = e.tool THEN Len(f) + 1 ELSE VersionIn(f, t)
<1> DEFINE g == Append(f, e)
<1>1. /\ g \in Seq([tool : Tools, created : BOOLEAN]) /\ Len(f) \in Nat /\ Len(g) = Len(f) + 1
      /\ g[Len(f) + 1] = e /\ \A i \in 1..Len(f) : g[i] = f[i]
  OBVIOUS
<1> HIDE DEF g
<1>2. 1..Len(g) = 1..Len(f) \cup {Len(f) + 1}
  BY <1>1
<1>3. CASE t = e.tool
  <2>1. Len(f) + 1 \in 1..Len(g) /\ g[Len(f) + 1].tool = t
    BY <1>1, <1>3
  <2>2. VersionIn(g, t) \in 1..Len(g) /\ Len(f) + 1 <= VersionIn(g, t)
    BY <1>1, <2>1, VersionIsLast
  <2> QED
    BY <1>1, <1>3, <2>2 DEF g
<1>4. CASE t # e.tool
  <2>1. CASE \A j \in 1..Len(f) : f[j].tool # t
    <3>1. \A j \in 1..Len(g) : g[j].tool # t
      BY <1>1, <1>2, <1>4, <2>1
    <3>2. VersionIn(g, t) = 0 /\ VersionIn(f, t) = 0
      BY <2>1, <3>1 DEF VersionIn
    <3> QED
      BY <1>4, <3>2 DEF g
  <2>2. CASE ~ \A j \in 1..Len(f) : f[j].tool # t
    <3> DEFINE v == VersionIn(f, t)
               w == VersionIn(g, t)
    <3>1. /\ v \in 1..Len(f) /\ f[v].tool = t
          /\ \A j \in 1..Len(f) : f[j].tool = t => j <= v
      BY <2>2, VersionIsLast
    <3>2. v \in 1..Len(g) /\ g[v].tool = t
      BY <1>1, <1>2, <3>1
    <3>3. /\ w \in 1..Len(g) /\ g[w].tool = t /\ v <= w
      BY <1>1, <3>2, VersionIsLast
    <3>4. w \in 1..Len(f) /\ f[w].tool = t
      BY <1>1, <1>2, <1>4, <3>3
    <3>5. w = v
      BY <3>1, <3>3, <3>4
    <3> QED
      BY <1>4, <3>5 DEF g
  <2> QED
    BY <2>1, <2>2
<1> QED
  BY <1>3, <1>4

\* A step after which a tool waits only if it did before, for the same event, or for one
\* announced in that step.
Quiet ==
    /\ Len(feed') >= Len(feed)
    /\ \A i \in Events : feed'[i] = feed[i]
    /\ \A t \in unasked' :
         \/ t \in unasked /\ Version(t)' = Version(t)
         \/ Version(t)' \in Events' /\ Version(t)' > Len(feed)
    /\ \A t \in Open' :
         \/ t \in Open /\ Version(t)' = Version(t)
         \/ Version(t)' > Len(feed)

LEMMA AnsweredQuiet ==
    ASSUME UNCHANGED <<feed, live, pending>>, unasked' \subseteq unasked,
           feed \in Seq([tool : Tools, created : BOOLEAN])
    PROVE  Quiet
<1>1. Events' = Events /\ \A t : Version(t)' = Version(t)
  BY DEF Events, Version
<1>2. Open' \subseteq Open
  BY DEF Open
<1>3. Len(feed) \in Nat
  OBVIOUS
<1> QED
  BY <1>1, <1>2, <1>3 DEF Quiet

LEMMA UpstreamQuiet ==
    ASSUME TypeOK, Upstream
    PROVE  Quiet
<1>0. feed \in Seq([tool : Tools, created : BOOLEAN]) /\ Len(feed) \in Nat /\ UNCHANGED pending
  BY DEF TypeOK, UpstreamTypes, Upstream, recentVars
<1>1. ASSUME NEW t \in Tools, NEW isNew \in BOOLEAN, Announce(t, isNew), live' \subseteq live \cup {t}
      PROVE  Quiet
  <2> DEFINE e == [tool |-> t, created |-> isNew]
  <2>1. e \in [tool : Tools, created : BOOLEAN] /\ e.tool = t /\ feed' = Append(feed, e)
        /\ unasked' = unasked \cup {t}
    BY <1>1 DEF Announce
  <2> HIDE DEF e
  <2>2. Len(feed') = Len(feed) + 1 /\ Events' = 1..(Len(feed) + 1)
        /\ \A i \in Events : feed'[i] = feed[i]
    BY <1>0, <2>1 DEF Events
  <2>3. \A u : VersionIn(feed', u) = IF u = t THEN Len(feed) + 1 ELSE VersionIn(feed, u)
    BY <1>0, <2>1, AppendVersion
  <2>4. \A u : Version(u)' = IF u = t THEN Len(feed) + 1 ELSE Version(u)
    BY <2>3 DEF Version
  <2>5. \A u \in Open' : u = t \/ u \in Open
    BY <1>0, <1>1, <2>1 DEF Open
  <2>6. Len(feed) + 1 \in Events' /\ Len(feed) + 1 > Len(feed) /\ Len(feed') >= Len(feed)
    BY <1>0, <2>2
  <2>7. \A u \in unasked' : \/ u \in unasked /\ Version(u)' = Version(u)
                            \/ Version(u)' \in Events' /\ Version(u)' > Len(feed)
    BY <2>1, <2>4, <2>6
  <2>8. \A u \in Open' : \/ u \in Open /\ Version(u)' = Version(u)
                         \/ Version(u)' > Len(feed)
    BY <2>4, <2>5, <2>6
  <2> QED
    BY <2>2, <2>6, <2>7, <2>8 DEF Quiet
<1>2. CASE UNCHANGED <<feed, unasked>> /\ live' \subseteq live
  <2>1. Events' = Events /\ \A t : Version(t)' = Version(t)
    BY <1>2 DEF Events, Version
  <2>2. Open' \subseteq Open
    BY <1>0, <1>2 DEF Open
  <2> QED
    BY <1>0, <1>2, <2>1, <2>2 DEF Quiet
<1>3. CASE UpstreamTrim
  BY <1>2, <1>3 DEF UpstreamTrim, historyVars
<1>4. ASSUME NEW t \in Tools, UpstreamEdit(t) \/ UpstreamCreate(t) \/ UpstreamRemove(t)
      PROVE  Quiet
  <2>1. CASE UpstreamEdit(t)
    BY <1>1, <2>1 DEF UpstreamEdit
  <2>2. CASE UpstreamCreate(t)
    BY <1>1, <2>2 DEF UpstreamCreate
  <2>3. CASE UpstreamRemove(t)
    BY <1>2, <2>3 DEF UpstreamRemove
  <2> QED
    BY <1>4, <2>1, <2>2, <2>3
<1> QED
  BY <1>3, <1>4 DEF Upstream

\* Whatever leaves the checkpoint alone lets no tool wait anew but for a new event.
LEMMA QuietSteps ==
    ASSUME TypeOK, CaptureInv, Elsewhere \/ StartRecent \/ Scanning
    PROVE  /\ Quiet /\ UNCHANGED recentVars
           /\ trimmed' >= trimmed /\ abandoned \subseteq abandoned'
<1>1. /\ trimmed \in Nat /\ feed \in Seq([tool : Tools, created : BOOLEAN])
      /\ abandoned \subseteq Events
  BY DEF TypeOK, UpstreamTypes, HistoryTypes, Markers
<1>2. CASE Upstream
  <2>1. trimmed' = trimmed \/ trimmed' = trimmed + 1
    BY <1>2 DEF Upstream, UpstreamEdit, UpstreamCreate, UpstreamRemove, UpstreamTrim
  <2>2. UNCHANGED <<recentVars, abandoned>>
    BY <1>2 DEF Upstream, UpstreamEdit, UpstreamCreate, UpstreamRemove, UpstreamTrim, historyVars
  <2> QED
    BY <1>1, <1>2, <2>1, <2>2, UpstreamQuiet
<1>3. CASE ~Upstream
  <2>1. /\ UNCHANGED <<upstreamVars, recentVars>> /\ unasked' \subseteq unasked
        /\ abandoned' = abandoned \/ Scanning
    <3>1. CASE (Idling /\ ~StartRecent) \/ ListingLanes \/ Capture \/ LostCapture \/ StartRecent
      BY <3>1 DEF Idling, Fail, PastEndFails, ReconcileNotDue, StartIntegrity, StartBackfill,
         StartRecent, ReconcileDue, ListingLanes, BackfillFetch, BackfillStore, ReconcileFetch,
         ReconcileStore, FetchListing, Capture, LostCapture, historyVars
    <3>2. CASE \/ BeginSnapshot \/ SnapshotFetch \/ SnapshotStage \/ SnapshotAdvance
               \/ Closing
      BY <3>2 DEF BeginSnapshot, SnapshotFetch, SnapshotStage, SnapshotAdvance, Closing,
         EvictRetired, PublishRefused, RestartSnapshot, GiveUpSnapshot, historyVars
    <3>3. CASE Cache \/ (\E t \in Tools : Detail(t)) \/ UNCHANGED vars
      BY <3>3 DEF Cache, CachePoll, CacheExpires, Detail, DetailRefreshed, DetailGone,
         DetailFails, Hydrate, DetailFrame, vars, historyVars
    <3>4. CASE Scanning
      BY <3>4 DEF Scanning, ScanTooDeep, ScanAnchors, ScanMeetsCursor, ScanGoesOn, ScanFrame
    <3> QED
      BY <1>3, <3>1, <3>2, <3>3, <3>4 DEF Elsewhere
  <2>2. abandoned \subseteq abandoned'
    <3>1. CASE Scanning
      BY <3>1, ScanningFrame
    <3> QED
      BY <2>1, <3>1
  <2>3. Quiet
    BY <1>1, <2>1, AnsweredQuiet DEF upstreamVars, recentVars
  <2> QED
    BY <1>1, <2>1, <2>2, <2>3 DEF upstreamVars
<1> QED
  BY <1>2, <1>3

\* What the stored checkpoint, and a scan under way, say was read was asked about, or is
\* queued, or is about to be queued by this run.
StoredAsked == CheckpointCovers(Answered)
ScanAsked ==
    /\ ScanOpen => ScanCovers(Answered \cup scan.seen)
    /\ Scanned => ScanCoversAll(Asked \cup scan.seen)

LEMMA QuietKeeps ==
    ASSUME TypeOK, TypeOK', NoGap, Evented, Quiet, UNCHANGED recentVars,
           trimmed' >= trimmed, abandoned \subseteq abandoned'
    PROVE  NoGap' /\ Evented' /\ Asked \subseteq Asked' /\ Answered \subseteq Answered'
<1>1. /\ Len(feed) \in Nat /\ Len(feed') \in Nat /\ trimmed \in Nat /\ trimmed' \in Nat
      /\ cursor \in Nat /\ cursor <= Len(feed) /\ cursor' = cursor /\ pending' = pending
      /\ Events \subseteq Nat /\ Events' \subseteq Nat
  BY DEF TypeOK, UpstreamTypes, RecentTypes, Markers, recentVars, Events
<1>2. Events \subseteq Events' /\ \A i \in Events : i <= Len(feed)
  BY <1>1 DEF Quiet, Events
<1>3. Evented'
  BY <1>2 DEF Evented, Quiet
<1>4. NoGap'
  <2> SUFFICES ASSUME NEW t \in (unasked \cap live)', (t \notin pending)'
               PROVE  ~(Version(t) <= cursor)'
    BY DEF NoGap
  <2>1. t \in Open' /\ Version(t)' \in Nat /\ t \in unasked'
    BY <1>1, <1>3 DEF Open, Evented
  <2>2. CASE t \in Open /\ Version(t)' = Version(t)
    BY <1>1, <2>2 DEF NoGap, Open
  <2>3. CASE Version(t)' > Len(feed)
    BY <1>1, <2>1, <2>3
  <2> QED
    BY <2>1, <2>2, <2>3 DEF Quiet
<1>5. Asked \subseteq Asked'
  <2> SUFFICES ASSUME NEW i \in Asked, NEW t \in Open' PROVE Version(t)' # i
    BY <1>2 DEF Asked
  <2>1. i \in Nat /\ i <= Len(feed) /\ Version(t)' \in Nat
    BY <1>1, <1>2, <1>3 DEF Asked, Evented, Open
  <2>2. CASE t \in Open /\ Version(t)' = Version(t)
    BY <2>2 DEF Asked
  <2>3. CASE Version(t)' > Len(feed)
    BY <1>1, <2>1, <2>3
  <2> QED
    BY <2>2, <2>3 DEF Quiet
<1>6. \A i \in Events : i <= trimmed => i <= trimmed'
  BY <1>1
<1>7. Answered \subseteq Answered'
  BY <1>2, <1>5, <1>6 DEF Answered
<1> QED
  BY <1>3, <1>4, <1>5, <1>7

\* Steps that leave the checkpoint alone keep what it says true.
LEMMA StoredAskedStill ==
    ASSUME TypeOK, TypeOK', StoredAsked, UNCHANGED recentVars, Len(feed') >= Len(feed),
           Answered \subseteq Answered'
    PROVE  StoredAsked'
<1> PICK R : R = Answered
  OBVIOUS
<1> PICK Q : Q = Answered'
  OBVIOUS
<1>1. CheckpointCovers(R)
  BY DEF StoredAsked, CheckpointCovers
<1>2. CheckpointCovers(Q)'
  BY <1>1, CoversStill
<1> QED
  BY <1>2 DEF StoredAsked, CheckpointCovers

\* And those that leave the scan alone, too.
LEMMA ScanAskedStill ==
    ASSUME TypeOK, TypeOK', ScanAsked, UNCHANGED recentVars, Len(feed') >= Len(feed),
           Asked \subseteq Asked', Answered \subseteq Answered',
           \/ pc' \notin {"scan", "capture", "details"}
           \/ UNCHANGED <<pc, scan>>
           \/ pc = "capture" /\ pc' = "details" /\ UNCHANGED scan
    PROVE  ScanAsked'
<1>1. CASE pc' \notin {"scan", "capture", "details"}
  BY <1>1 DEF ScanAsked, ScanOpen, Scanned
<1>2. CASE UNCHANGED scan /\ (ScanOpen' => ScanOpen) /\ (Scanned' => Scanned)
  <2> PICK R : R = Answered \cup scan.seen
    OBVIOUS
  <2> PICK Q : Q = Answered' \cup scan.seen
    OBVIOUS
  <2> PICK A : A = Asked \cup scan.seen
    OBVIOUS
  <2> PICK B : B = Asked' \cup scan.seen
    OBVIOUS
  <2>1. ScanOpen => ScanCovers(R)
    BY DEF ScanAsked, ScanCovers
  <2>2. Scanned => ScanCoversAll(A)
    BY DEF ScanAsked, ScanCoversAll
  <2>3. ScanOpen => ScanCovers(Q)'
    BY <1>2, <2>1, CoversStill
  <2>4. Scanned => ScanCoversAll(B)'
    BY <1>2, <2>2, CoversStill
  <2>5. ScanOpen' => ScanCovers(Answered \cup scan.seen)'
    BY <1>2, <2>3 DEF ScanCovers
  <2>6. Scanned' => ScanCoversAll(Asked \cup scan.seen)'
    BY <1>2, <2>4 DEF ScanCoversAll
  <2> QED
    BY <2>5, <2>6 DEF ScanAsked
<1> QED
  BY <1>1, <1>2 DEF ScanOpen, Scanned

\* A resumed scan takes over what its checkpoint says.
LEMMA StartRecentAsked ==
    ASSUME TypeOK, CaptureInv, StoredAsked, Answered \subseteq Answered', StartRecent
    PROVE  ScanAsked'
<1> PICK R : R = Answered
  OBVIOUS
<1>1. CheckpointCovers(R)
  BY DEF StoredAsked, CheckpointCovers
<1>2. ScanCovers(R)'
  BY <1>1, ResumedCovers
<1>3. ScanCovers(Answered \cup scan.seen)'
  BY <1>2 DEF ScanCovers
<1>4. pc' = "scan"
  BY DEF StartRecent
<1> QED
  BY <1>3, <1>4 DEF ScanAsked, Scanned

\* What the depth guard gave up on, and what Toolhub no longer returns, is older than a
\* cursor that is met.
LEMMA ScanMeetsCursorAsked ==
    ASSUME TypeOK, ScanNeverOvershoots, CaptureInv, ScanAsked, Asked \subseteq Asked',
           ScanMeetsCursor
    PROVE  ScanAsked'
<1> PICK R : R = Answered \cup scan.seen
  OBVIOUS
<1>1. pc = "scan" /\ pc' = "capture" /\ UNCHANGED <<recentVars, feed>> /\ scan.seen \subseteq scan'.seen
      /\ scan'.complete = TRUE
  BY DEF ScanMeetsCursor, ScanReads, ScanFrame, upstreamVars, TypeOK, RunTypes, Scans
<1>2. ScanCovers(R)
  BY <1>1 DEF ScanAsked, ScanOpen, ScanCovers
<1>3. /\ ScanCoversAll(R \cup scan.seen)'
      /\ cursor > trimmed
      /\ Len(feed) - cursor < MaxScanPages * FeedPageSize
  BY <1>2, CursorMetCovers
<1>4. \A i \in Events : cursor < i /\ i \in R => i \in Asked \cup scan.seen
  <2> SUFFICES ASSUME NEW i \in Events, cursor < i, i \in Answered PROVE i \in Asked
    OBVIOUS
  <2> DEFINE deepest == MaxScanPages * FeedPageSize
  <2>1. /\ Len(feed) \in Nat /\ trimmed \in Nat /\ cursor \in Nat /\ i \in Nat
        /\ deepest \in Nat
    BY SizesAssumption DEF TypeOK, UpstreamTypes, RecentTypes, Markers, Events
  <2>2. i \in abandoned => Len(feed) - i >= deepest
    BY DEF CaptureInv, AbandonedOld
  <2>3. Len(feed) - cursor < deepest
    BY <1>3
  <2> HIDE DEF deepest
  <2>4. i \notin abandoned
    BY <2>1, <2>2, <2>3
  <2>5. ~(i <= trimmed)
    BY <1>3, <2>1
  <2> QED
    BY <2>4, <2>5 DEF Answered
<1>5. Events' = Events /\ cursor' = cursor
  BY <1>1 DEF Events, recentVars
<1>6. ScanCoversAll(Asked \cup scan.seen)'
  BY <1>1, <1>3, <1>4, <1>5 DEF ScanCoversAll
<1> QED
  BY <1>1, <1>6 DEF ScanAsked, ScanOpen

LEMMA ScanGoesOnAsked ==
    ASSUME TypeOK, ScanNeverOvershoots, CaptureInv, ScanAsked, Answered \subseteq Answered',
           ScanGoesOn
    PROVE  ScanAsked'
<1> PICK R : R = Answered \cup scan.seen
  OBVIOUS
<1>1. /\ pc = "scan" /\ pc' \in {"lost", "capture", "scan"}
      /\ pc' # "lost" => FeedMore(scan.page)
      /\ scan.seen \subseteq scan'.seen /\ scan'.complete = scan.complete
  BY DEF ScanGoesOn, ScanReads, TypeOK, RunTypes, Scans
<1>2. ScanCovers(R)
  BY <1>1 DEF ScanAsked, ScanOpen, ScanCovers
<1>3. \A i \in Events : i <= trimmed => i \in R
  BY DEF Answered
<1>4. FeedMore(scan.page) => ScanCovers(R \cup scan.seen)'
  BY <1>2, <1>3, PageLeftCovers
<1>5. pc' # "lost" => ScanCovers(Answered \cup scan.seen)'
  BY <1>1, <1>4 DEF ScanCovers
<1>6. ~scan.complete
  BY <1>1 DEF CaptureInv, ScanRead
<1> QED
  BY <1>1, <1>5, <1>6 DEF ScanAsked, ScanOpen, Scanned

\* While details are fetched, every tool whose event the cursor will pass is in the run's
\* lists until Toolhub has answered for it.
WorkHeld ==
    pc = "details" =>
      \A t \in (pending \cup Changed(scan.seen)) \cap unasked :
        Version(t) <= scan.latest => t \in work.todo \cup work.remaining

\* A scan that resumes a checkpoint, or a recovery, keeps its newest marker.
AnchorKept == pc \in LocalPhases /\ scanLatest # NoMarker => scan.latest = scanLatest

\* A run fetches details after a capture, and until it stores its progress.
LEMMA DetailSteps ==
    ASSUME [Next]_vars, pc' = "details"
    PROVE  \/ Capture
           \/ pc = "details" /\ \E t \in Tools : Detail(t)
           \/ UNCHANGED <<pc, scan, work>> /\ (Upstream \/ Cache \/ UNCHANGED vars)
<1>1. CASE Upstream \/ Cache \/ UNCHANGED vars
  BY <1>1 DEF Upstream, Cache, CachePoll, CacheExpires, vars, runVars
<1>2. CASE \E t \in Tools : Detail(t)
  BY <1>2 DEF Detail, DetailRefreshed, DetailGone, DetailFails, Hydrate, DetailFrame
<1>3. CASE Idling \/ ListingLanes \/ LostCapture
  BY <1>3 DEF Idling, Fail, PastEndFails, ReconcileNotDue, StartIntegrity, StartBackfill,
     StartRecent, ReconcileDue, ListingLanes, BackfillFetch, BackfillStore,
     ReconcileFetch, ReconcileStore, LostCapture, RunOver, Continue
<1>4. CASE BeginSnapshot \/ SnapshotFetch \/ SnapshotStage \/ SnapshotAdvance \/ Closing \/ PublishSnapshot
  BY <1>4 DEF BeginSnapshot, SnapshotFetch, SnapshotStage, SnapshotAdvance, Closing,
     EvictRetired, PublishRefused, RestartSnapshot, GiveUpSnapshot, DiscardStage,
     PublishSnapshot, RunOver, Continue
<1>5. CASE Scanning \/ StoreAnchor \/ StoreProgress \/ PrepareRecovery
  BY <1>5 DEF Scanning, ScanTooDeep, ScanAnchors, ScanMeetsCursor, ScanGoesOn, StoreAnchor,
     StoreProgress, PrepareRecovery, DiscardStage, RunOver, Continue
<1> QED
  BY <1>1, <1>2, <1>3, <1>4, <1>5, StepKinds

LEMMA WorkStep ==
    ASSUME TypeOK, TypeOK', WorkHeld, [Next]_vars
    PROVE  WorkHeld'
<1>1. /\ Len(feed) \in Nat /\ scan.latest \in Nat /\ scan.latest <= Len(feed) /\ scan.seen \subseteq Events
      /\ work \in Works
  BY DEF TypeOK, UpstreamTypes, RunTypes, Scans, Markers
<1>2. SUFFICES ASSUME pc' = "details", NEW t \in unasked', t \in (pending \cup Changed(scan.seen))',
                      (Version(t) <= scan.latest)'
               PROVE  t \in work'.todo \cup work'.remaining
  BY DEF WorkHeld
<1>3. CASE Capture
  <2>1. PICK todo \in SUBSET (pending \cup Changed(scan.seen)) :
          work' = [todo |-> todo, remaining |-> (pending \cup Changed(scan.seen)) \ todo]
    BY <1>3 DEF Capture
  <2>2. (pending \cup Changed(scan.seen))' = pending \cup Changed(scan.seen)
    BY <1>3 DEF Capture, recentVars, upstreamVars, Changed
  <2> QED
    BY <1>2, <2>1, <2>2
<1>4. CASE UNCHANGED <<pc, scan, work>> /\ (Upstream \/ Cache \/ UNCHANGED vars)
  <2>1. Quiet /\ UNCHANGED pending
    <3>1. CASE Upstream
      BY <3>1, UpstreamQuiet DEF Upstream, recentVars
    <3>2. CASE Cache \/ UNCHANGED vars
      <4>1. UNCHANGED <<feed, live, pending, unasked>>
        BY <3>2 DEF Cache, CachePoll, CacheExpires, vars, upstreamVars, recentVars, historyVars
      <4> QED
        BY <4>1, AnsweredQuiet DEF TypeOK, UpstreamTypes
    <3> QED
      BY <1>4, <3>1, <3>2
  <2>2. t \in unasked /\ Version(t)' = Version(t)
    <3>1. ~(Version(t)' \in Events' /\ Version(t)' > Len(feed))
      BY <1>1, <1>2, <1>4 DEF Events
    <3> QED
      BY <1>2, <2>1, <3>1 DEF Quiet
  <2>3. Changed(scan.seen)' = Changed(scan.seen)
    <3>1. \A i \in scan.seen : feed'[i] = feed[i]
      BY <1>1, <2>1 DEF Quiet
    <3> QED
      BY <1>4, <3>1 DEF Changed
  <2> QED
    BY <1>2, <1>4, <2>1, <2>2, <2>3 DEF WorkHeld
<1>5. ASSUME pc = "details", NEW u \in Tools, Detail(u)
      PROVE  t \in work'.todo \cup work'.remaining
  <2>1. /\ UNCHANGED <<scan, upstreamVars, recentVars>>
        /\ unasked' \subseteq unasked
        /\ \/ unasked' = unasked \ {u} /\ work' = [work EXCEPT !.todo = work.todo \ {u}]
           \/ work' = [todo |-> work.todo \ {u}, remaining |-> work.remaining \cup {u}]
    BY <1>5 DEF Detail, DetailRefreshed, DetailGone, DetailFails, Hydrate, DetailFrame
  <2>2. \/ u \notin unasked' /\ work'.todo = work.todo \ {u} /\ work'.remaining = work.remaining
        \/ work'.todo = work.todo \ {u} /\ work'.remaining = work.remaining \cup {u}
    BY <1>1, <2>1 DEF Works
  <2>3. (pending \cup Changed(scan.seen))' = pending \cup Changed(scan.seen) /\ Version(t)' = Version(t)
    BY <2>1 DEF recentVars, upstreamVars, Changed, Version
  <2>4. t \in work.todo \cup work.remaining
    BY <1>2, <1>5, <2>1, <2>3 DEF WorkHeld
  <2> QED
    BY <1>2, <2>2, <2>4
<1> QED
  BY <1>2, <1>3, <1>4, <1>5, DetailSteps

LEMMA AnchorStep ==
    ASSUME TypeOK, ScanNeverOvershoots, CaptureInv, AnchorKept, [Next]_vars
    PROVE  AnchorKept'
<1>1. CASE Elsewhere
  <2>1. UNCHANGED scanLatest
    BY <1>1, QuietSteps DEF recentVars
  <2> QED
    BY <1>1, <2>1, ElsewherePhases DEF AnchorKept, LocalPhases
<1>2. CASE StartRecent
  BY <1>2 DEF StartRecent, AnchorKept, recentVars, NoScan
<1>3. CASE Scanning
  <2>1. UNCHANGED scanLatest
    BY <1>3 DEF Scanning, ScanTooDeep, ScanAnchors, ScanMeetsCursor, ScanGoesOn, ScanFrame, recentVars
  <2>2. pc = "scan" /\ (scan'.latest = scan.latest \/ scan'.latest = SightedLatest)
    BY <1>3 DEF Scanning, ScanTooDeep, ScanAnchors, ScanMeetsCursor, ScanGoesOn, ScanReads,
       TypeOK, RunTypes, Scans
  <2>3. scan.latest = NoMarker => scanLatest = NoMarker
    BY <2>2 DEF ScanNeverOvershoots, LocalScan
  <2>4. scan.latest # NoMarker => SightedLatest = scan.latest
    BY DEF SightedLatest, FirstSight
  <2> QED
    BY <2>1, <2>2, <2>3, <2>4 DEF AnchorKept, LocalPhases
<1>4. CASE StoreAnchor \/ StoreProgress \/ PrepareRecovery \/ PublishSnapshot
  BY <1>4 DEF StoreAnchor, StoreProgress, PrepareRecovery, PublishSnapshot, DiscardStage, RunOver,
     Continue, AnchorKept, LocalPhases
<1> QED
  BY <1>1, <1>2, <1>3, <1>4, StepKinds DEF Elsewhere

\* A tool that waits for an event the recovery's anchor lies at or beyond.
Owed == {t \in Open : Version(t) <= scanLatest}

\* A snapshot that has staged the pages before this one, of a catalog with that many tools
\* (0: none yet).  If the count still holds, every tool still owed is listed further on.
Passed(page, count) ==
    IF count = 0 THEN page = 1
    ELSE /\ count <= Cardinality(live)
         /\ count = Cardinality(live) =>
              \A t \in Owed : Position(t) > (page - 1) * ListingPageSize

SnapPhases == {"snapFetch", "snapStage", "snapAdvance", "publish"}
SnapHeld ==
    /\ ~snapOpen => snapCount = 0 /\ snapPage = 1
    /\ pc \in SnapPhases => snapOpen

\* The snapshot of a recovery asks about every tool the anchor would pass.
Recovered ==
    recovering =>
      /\ Passed(snapPage, snapCount)
      /\ pc = "snapFetch" => Passed(listing.page, listing.count)
      /\ pc \in {"snapStage", "snapAdvance"} =>
           /\ listing.count # 0
           /\ Passed(listing.page + 1, listing.count)
           /\ ~listing.more => Owed = {}
      /\ pc = "publish" => Owed = {}

\* While a recovery is open, Toolhub removes no tool.
RecoveryCalm == recovering => live \subseteq live'

\* Where a tool is listed.
LEMMA PositionRange ==
    ASSUME TypeOK, NEW t \in live
    PROVE  Position(t) \in Nat /\ 1 <= Position(t) /\ Position(t) <= Cardinality(live)
<1> DEFINE S == {u \in live : u <= t}
<1>1. IsFiniteSet(live) /\ Cardinality(live) \in Nat /\ t \in Nat
  BY SizesAssumption, FS_Subset, FS_CardinalityType DEF TypeOK, UpstreamTypes
<1>2. S \in SUBSET live /\ t \in S
  BY <1>1
<1> HIDE DEF S
<1>3. /\ IsFiniteSet(S) /\ Cardinality(S) <= Cardinality(live) /\ Cardinality(S) \in Nat
      /\ Cardinality(S) # 0
  BY <1>1, <1>2, FS_Subset, FS_CardinalityType, FS_EmptySet
<1> QED
  BY <1>1, <1>3 DEF Position, S

\* A listing that only gains tools, and owes no tool more, is passed as far as it was.
LEMMA PassedStill ==
    ASSUME TypeOK, TypeOK', live \subseteq live', Owed' \subseteq Owed,
           NEW page, NEW count \in Nat, Passed(page, count)
    PROVE  Passed(page, count)'
<1>1. /\ IsFiniteSet(live') /\ Cardinality(live') \in Nat /\ Cardinality(live) \in Nat
      /\ Cardinality(live) <= Cardinality(live')
      /\ Cardinality(live) = Cardinality(live') => live' = live
  <2>1. IsFiniteSet(live') /\ IsFiniteSet(live)
    BY SizesAssumption, FS_Subset DEF TypeOK, UpstreamTypes
  <2> QED
    BY <2>1, FS_Subset, FS_CardinalityType
<1>2. live' = live => \A t : Position(t)' = Position(t)
  BY DEF Position
<1>3. CASE count = 0
  BY <1>3 DEF Passed
<1>4. CASE count # 0
  <2>1. count <= Cardinality(live')
    BY <1>1, <1>4 DEF Passed
  <2>2. ASSUME count = Cardinality(live'), NEW t \in Owed'
        PROVE  Position(t)' > (page - 1) * ListingPageSize
    <3>1. live' = live /\ count = Cardinality(live)
      BY <1>1, <1>4, <2>2 DEF Passed
    <3>2. Position(t) > (page - 1) * ListingPageSize
      BY <1>4, <2>2, <3>1 DEF Passed
    <3> QED
      BY <1>2, <3>1, <3>2
  <2> QED
    BY <1>4, <2>1, <2>2 DEF Passed
<1> QED
  BY <1>3, <1>4

\* What waits for a new event is not owed.
LEMMA OwedStill ==
    ASSUME TypeOK, TypeOK', Quiet, UNCHANGED scanLatest
    PROVE  Owed' \subseteq Owed
<1>1. Len(feed) \in Nat /\ scanLatest \in Nat /\ scanLatest <= Len(feed)
  BY DEF TypeOK, UpstreamTypes, RecentTypes, Markers
<1> SUFFICES ASSUME NEW t \in Owed' PROVE t \in Owed
  OBVIOUS
<1>2. t \in Open' /\ Version(t)' <= scanLatest
  BY DEF Owed
<1>3. ~(Version(t)' > Len(feed))
  <2>1. Version(t)' \in Nat
    <3>1. feed' \in Seq([tool : Tools, created : BOOLEAN]) /\ Len(feed') \in Nat
      BY DEF TypeOK, UpstreamTypes
    <3>2. VersionIn(feed', t) = 0 \/ VersionIn(feed', t) \in 1..Len(feed')
      BY <3>1, VersionIsLast
    <3> QED
      BY <3>1, <3>2 DEF Version
  <2> QED
    BY <1>1, <1>2, <2>1
<1> QED
  BY <1>2, <1>3 DEF Quiet, Owed

LEMMA RecoveredStill ==
    ASSUME TypeOK, TypeOK', Recovered, recovering' => recovering,
           UNCHANGED <<snapPage, snapCount>>,
           recovering => live \subseteq live' /\ Owed' \subseteq Owed,
           pc' \notin SnapPhases \/ UNCHANGED <<pc, listing>>
    PROVE  Recovered'
<1>1. SUFFICES ASSUME recovering' PROVE Recovered'
  BY DEF Recovered
<1>2. /\ recovering /\ live \subseteq live' /\ Owed' \subseteq Owed
      /\ snapCount \in Nat /\ snapCount' = snapCount /\ snapPage' = snapPage
      /\ listing.count \in Nat
  BY <1>1 DEF TypeOK, SnapTypes, RunTypes, Listings
<1>3. Passed(snapPage, snapCount)'
  <2>1. ASSUME NEW p, NEW c, p = snapPage, c = snapCount PROVE Passed(p, c)'
    BY <1>2, <2>1, PassedStill DEF Recovered
  <2> QED
    BY <1>2, <2>1 DEF Passed
<1>4. CASE pc' \notin SnapPhases
  BY <1>3, <1>4 DEF Recovered, SnapPhases
<1>5. CASE UNCHANGED <<pc, listing>>
  <2>1. ASSUME NEW p, NEW c \in Nat, Passed(p, c) PROVE Passed(p, c)'
    BY <1>2, <2>1, PassedStill
  <2>2. ASSUME NEW p, NEW c, p = listing.page, c = listing.count, Passed(p, c) PROVE Passed(p, c)'
    BY <1>2, <2>1, <2>2
  <2>3. Passed(listing.page, listing.count) => Passed(listing.page, listing.count)'
    BY <1>5, <2>2 DEF Passed
  <2>4. ASSUME NEW p, NEW c, p = listing.page + 1, c = listing.count, Passed(p, c)
        PROVE  Passed(p, c)'
    BY <1>2, <2>1, <2>4
  <2>5. Passed(listing.page + 1, listing.count) => Passed(listing.page + 1, listing.count)'
    BY <1>5, <2>4 DEF Passed
  <2> QED
    BY <1>2, <1>3, <1>5, <2>3, <2>5 DEF Recovered
<1> QED
  BY <1>4, <1>5

\* A page asks about the tools on it: what is still owed is listed behind it, and nothing
\* is behind the last one.
LEMMA SnapshotFetchRecovered ==
    ASSUME TypeOK, TypeOK', Recovered, SnapshotFetch
    PROVE  Recovered'
<1>1. /\ pc = "snapFetch" /\ UNCHANGED <<live, feed, pending, scanLatest, recovering, snapPage, snapCount>>
      /\ unasked' = unasked \ ListingPage(listing.page) /\ live # {}
  BY DEF SnapshotFetch, ListingAnswers, upstreamVars, recentVars, snapVars
<1>2. /\ \A t : Version(t)' = Version(t) /\ Position(t)' = Position(t)
      /\ Owed' = {t \in Owed : t \notin ListingPage(listing.page)}
  BY <1>1 DEF Version, Position, Owed, Open
<1>3. CASE CountMoved
  <2>1. pc' = "restart"
    BY <1>3 DEF SnapshotFetch
  <2> QED
    BY <1>1, <1>2, <2>1, RecoveredStill DEF SnapPhases
<1>4. CASE ~CountMoved /\ recovering
  <2> DEFINE p == listing.page
             n == Cardinality(live)
             near == (p - 1) * ListingPageSize
             edge == p * ListingPageSize
  <2>1. /\ pc' = "snapStage" /\ listing'.page = p /\ listing'.count = n
        /\ listing'.more = ListingMore(p)
    BY <1>4 DEF SnapshotFetch, TypeOK, RunTypes, Listings
  <2>2. /\ p \in Nat \ {0} /\ listing.count \in Nat /\ n \in Nat /\ n # 0
        /\ near \in Nat /\ edge \in Nat /\ ((p + 1) - 1) * ListingPageSize = edge
    <3>1. p \in Nat \ {0} /\ listing.count \in Nat /\ ListingPageSize \in Nat
      BY SizesAssumption DEF TypeOK, RunTypes, Listings
    <3>2. n \in Nat
      BY CountType
    <3>3. n # 0
      BY <1>1, SizesAssumption, FS_Subset, FS_EmptySet DEF TypeOK, UpstreamTypes
    <3> QED
      BY <3>1, <3>2, <3>3
  <2>3. Passed(p, listing.count)
    BY <1>1, <1>4 DEF Recovered
  <2>4. ASSUME NEW t \in Owed PROVE Position(t) \in Nat /\ Position(t) > near /\ Position(t) <= n
    <3>1. t \in live
      BY DEF Owed, Open
    <3>2. Position(t) \in Nat /\ 1 <= Position(t) /\ Position(t) <= n
      BY <3>1, PositionRange
    <3>3. CASE listing.count = 0
      <4>1. near = 0
        BY <2>3, <3>3, SizesAssumption DEF Passed
      <4> HIDE DEF near
      <4> QED
        BY <3>2, <4>1
    <3>4. CASE listing.count # 0
      <4>1. listing.count = n
        BY <1>4, <3>4 DEF CountMoved
      <4> QED
        BY <2>3, <3>2, <3>4, <4>1 DEF Passed
    <3> QED
      BY <3>3, <3>4
  <2>5. ASSUME NEW t \in Owed' PROVE Position(t) \in Nat /\ Position(t) > edge /\ Position(t) <= n
    <3>1. t \in Owed /\ t \in live /\ t \notin ListingPage(p)
      BY <1>2 DEF Owed, Open
    <3>2. Position(t) \in Nat /\ Position(t) > near /\ Position(t) <= n
      BY <2>4, <3>1
    <3>3. ~(Position(t) <= edge)
      BY <3>1, <3>2 DEF ListingPage
    <3> HIDE DEF near, edge
    <3> QED
      BY <2>2, <3>2, <3>3
  <2>6. ~ListingMore(p) => Owed' = {}
    <3> SUFFICES ASSUME ~ListingMore(p), NEW t \in Owed' PROVE FALSE
      OBVIOUS
    <3>1. n <= edge
      BY <2>2 DEF ListingMore
    <3> HIDE DEF n, edge
    <3> QED
      BY <2>2, <2>5, <3>1
  <2>7. Passed(p + 1, n)'
    <3>1. ASSUME NEW q, NEW c, q = p + 1, c = n PROVE Passed(q, c)'
      <4>1. c <= Cardinality(live)' /\ c # 0
        BY <1>1, <2>2, <3>1
      <4>2. \A t \in Owed' : Position(t)' > (q - 1) * ListingPageSize
        BY <1>2, <2>2, <2>5, <3>1
      <4> QED
        BY <4>1, <4>2 DEF Passed
    <3>2. (p + 1)' = p + 1 /\ n' = n
      BY <1>1, <2>1
    <3> QED
      BY <3>1, <3>2 DEF Passed
  <2>8. Passed(listing.page + 1, listing.count)'
    BY <1>1, <2>1, <2>7 DEF Passed
  <2>9. Passed(snapPage, snapCount)'
    <3>1. snapCount \in Nat /\ Owed' \subseteq Owed
      BY <1>2 DEF TypeOK, SnapTypes
    <3>2. ASSUME NEW q, NEW c, q = snapPage, c = snapCount PROVE Passed(q, c)'
      BY <1>1, <1>4, <3>1, <3>2, PassedStill DEF Recovered
    <3> QED
      BY <1>1, <3>2 DEF Passed
  <2> QED
    BY <1>1, <2>1, <2>2, <2>6, <2>8, <2>9 DEF Recovered
<1> QED
  BY <1>1, <1>3, <1>4 DEF Recovered

\* The other steps of a snapshot ask nothing; they carry over how far it came.
LEMMA SnapshotRecovered ==
    ASSUME TypeOK, TypeOK', Recovered, SnapHeld,
           \/ BeginSnapshot \/ SnapshotStage \/ SnapshotAdvance \/ RestartSnapshot \/ GiveUpSnapshot
    PROVE  Recovered'
<1>1. UNCHANGED <<live, feed, pending, unasked, scanLatest, recovering>>
  BY DEF BeginSnapshot, SnapshotStage, SnapshotAdvance, RestartSnapshot, GiveUpSnapshot,
     upstreamVars, recentVars, historyVars
<1>2. Owed' = Owed /\ \A t : Position(t)' = Position(t)
  BY <1>1 DEF Owed, Open, Version, Position
<1>3. /\ \A q, c : Passed(q, c) => Passed(q, c)'
  BY <1>1, <1>2 DEF Passed
<1>4. SUFFICES ASSUME recovering PROVE Recovered'
  BY <1>1 DEF Recovered
<1>5. CASE BeginSnapshot /\ snapOpen
  <2>1. /\ pc' = "snapFetch" /\ listing'.page = snapPage /\ listing'.count = snapCount
        /\ UNCHANGED <<snapPage, snapCount>>
    BY <1>5 DEF BeginSnapshot, NoListing, snapVars
  <2>2. Passed(snapPage, snapCount)'
    BY <1>1, <1>2, <1>4, <2>1 DEF Recovered, Passed
  <2>3. Passed(listing.page, listing.count)'
    BY <2>1, <2>2 DEF Passed
  <2> QED
    BY <2>1, <2>2, <2>3 DEF Recovered
<1>6. CASE BeginSnapshot /\ ~snapOpen
  <2>1. /\ pc' = "snapFetch" /\ listing'.page = 1 /\ listing'.count = 0
        /\ snapPage' = 1 /\ snapCount' = 0
    BY <1>6 DEF BeginSnapshot, NoListing
  <2> QED
    BY <2>1 DEF Recovered, Passed
<1>7. CASE SnapshotStage
  <2>1. pc = "snapStage" /\ pc' = "snapAdvance" /\ UNCHANGED <<listing, snapPage, snapCount>>
    BY <1>7 DEF SnapshotStage
  <2>2. Passed(snapPage, snapCount)' /\ Passed(listing.page + 1, listing.count)'
    BY <1>1, <1>2, <1>4, <2>1 DEF Recovered, Passed
  <2> QED
    BY <1>2, <1>4, <2>1, <2>2 DEF Recovered
<1>8. CASE SnapshotAdvance
  <2>1. /\ pc = "snapAdvance" /\ snapPage' = listing.page + 1 /\ snapCount' = listing.count
        /\ \/ listing.more /\ pc' = "snapFetch" /\ listing'.page = listing.page + 1
              /\ listing'.count = listing.count
           \/ ~listing.more /\ pc' = "publish"
    BY <1>8 DEF SnapshotAdvance, TypeOK, RunTypes, Listings
  <2>2. Passed(snapPage, snapCount)'
    BY <1>1, <1>2, <1>4, <2>1 DEF Recovered, Passed
  <2>3. pc' = "snapFetch" => Passed(listing.page, listing.count)'
    BY <2>1, <2>2 DEF Passed
  <2> QED
    BY <1>2, <1>4, <2>1, <2>2, <2>3 DEF Recovered
<1>9. CASE RestartSnapshot \/ GiveUpSnapshot
  <2>1. /\ snapPage' = 1 /\ snapCount' = 0 /\ pc' \in {"snapBegin", "idle"}
    BY <1>9 DEF RestartSnapshot, GiveUpSnapshot, ResetSnapshot, DiscardStage, RunOver, Continue
  <2> QED
    BY <2>1 DEF Recovered, Passed
<1> QED
  BY <1>5, <1>6, <1>7, <1>8, <1>9

\* A cursor lost: a recovery begins before any page, or goes on as it was.
LEMMA PrepareRecoveryRecovered ==
    ASSUME TypeOK, TypeOK', ScanNeverOvershoots, AnchorKept, Recovered, SnapHeld, PrepareRecovery
    PROVE  Recovered'
<1>1. /\ pc = "recover" /\ pc' \in {"snapBegin", "idle"} /\ UNCHANGED <<live, feed, unasked>>
      /\ pending \subseteq pending' /\ scanLatest' = scan.latest
  BY DEF PrepareRecovery, DiscardStage, RunOver, Continue, upstreamVars
<1>2. CASE recovering
  <2>1. UNCHANGED <<snapPage, snapCount>>
    BY <1>2 DEF PrepareRecovery, SnapshotPredates
  <2>2. scanLatest' = scanLatest
    BY <1>1, <1>2 DEF ScanNeverOvershoots, CheckpointSound, AnchorKept, LocalPhases
  <2>3. Owed' \subseteq Owed
    BY <1>1, <2>2 DEF Owed, Open, Version
  <2>4. pc' \notin SnapPhases
    BY <1>1 DEF SnapPhases
  <2> QED
    BY <1>1, <1>2, <2>1, <2>3, <2>4, RecoveredStill
<1>3. CASE ~recovering
  <2>1. snapPage' = 1 /\ snapCount' = 0
    BY <1>3 DEF PrepareRecovery, SnapshotPredates, SnapHeld, ResetSnapshot
  <2> QED
    BY <1>1, <2>1 DEF Recovered, Passed
<1> QED
  BY <1>2, <1>3

\* Where a snapshot's lane is left alone.
LEMMA LaneAlone ==
    ASSUME \/ Upstream \/ Idling \/ ListingLanes \/ Scanning \/ Capture \/ LostCapture
           \/ EvictRetired \/ PublishRefused \/ Cache \/ (\E t \in Tools : Detail(t))
           \/ UNCHANGED vars
    PROVE  /\ UNCHANGED <<snapOpen, snapPage, snapCount>>
           /\ pc' \notin SnapPhases \/ UNCHANGED <<pc, listing>>
<1>1. CASE Upstream \/ Idling \/ ListingLanes
  BY <1>1 DEF Upstream, Idling, Fail, PastEndFails, ReconcileNotDue, StartIntegrity,
     StartBackfill, StartRecent, ReconcileDue, ListingLanes, BackfillFetch, BackfillStore,
     ReconcileFetch, ReconcileStore, RunOver, Continue, runVars, snapVars, SnapPhases
<1>2. CASE Scanning \/ Capture \/ LostCapture
  BY <1>2 DEF Scanning, ScanTooDeep, ScanAnchors, ScanMeetsCursor, ScanGoesOn, ScanFrame,
     Capture, LostCapture, snapVars, SnapPhases
<1>3. CASE EvictRetired \/ PublishRefused
  BY <1>3 DEF EvictRetired, PublishRefused, RunOver, Continue, snapVars, SnapPhases
<1>4. CASE Cache \/ (\E t \in Tools : Detail(t)) \/ UNCHANGED vars
  BY <1>4 DEF Cache, CachePoll, CacheExpires, Detail, DetailRefreshed, DetailGone, DetailFails,
     Hydrate, DetailFrame, vars, runVars, snapVars
<1> QED
  BY <1>1, <1>2, <1>3, <1>4

LEMMA SnapHeldStep ==
    ASSUME SnapHeld, [Next]_vars
    PROVE  SnapHeld'
<1>1. CASE \/ Upstream \/ Idling \/ ListingLanes \/ Scanning \/ Capture \/ LostCapture
           \/ EvictRetired \/ PublishRefused \/ Cache \/ (\E t \in Tools : Detail(t))
           \/ UNCHANGED vars
  BY <1>1, LaneAlone DEF SnapHeld
<1>2. CASE BeginSnapshot \/ SnapshotFetch \/ SnapshotStage \/ SnapshotAdvance
  BY <1>2 DEF BeginSnapshot, SnapshotFetch, SnapshotStage, SnapshotAdvance, SnapHeld, SnapPhases,
     snapVars
<1>3. CASE RestartSnapshot \/ GiveUpSnapshot \/ PublishSnapshot
  BY <1>3 DEF RestartSnapshot, GiveUpSnapshot, PublishSnapshot, ResetSnapshot, DiscardStage,
     RunOver, Continue, SnapHeld, SnapPhases
<1>4. CASE StoreAnchor \/ StoreProgress \/ PrepareRecovery
  BY <1>4 DEF StoreAnchor, StoreProgress, PrepareRecovery, ResetSnapshot, DiscardStage, RunOver,
     Continue, SnapHeld, SnapPhases, snapVars
<1> QED
  BY <1>1, <1>2, <1>3, <1>4, StepKinds DEF Closing

LEMMA RecoveredStep ==
    ASSUME TypeOK, TypeOK', ScanNeverOvershoots, CaptureInv, AnchorKept, Recovered, SnapHeld,
           [Next]_vars, RecoveryCalm
    PROVE  Recovered'
<1>1. CASE \/ Upstream \/ Idling \/ ListingLanes \/ Scanning \/ Capture \/ LostCapture
           \/ EvictRetired \/ PublishRefused \/ Cache \/ (\E t \in Tools : Detail(t))
           \/ UNCHANGED vars
  <2>1. Quiet /\ UNCHANGED recentVars
    BY <1>1, QuietSteps DEF Elsewhere, Closing
  <2>2. UNCHANGED <<scanLatest, recovering>>
    BY <2>1 DEF recentVars
  <2>3. Owed' \subseteq Owed
    BY <2>1, <2>2, OwedStill
  <2> QED
    BY <1>1, <2>2, <2>3, LaneAlone, RecoveredStill DEF RecoveryCalm
<1>2. CASE \/ BeginSnapshot \/ SnapshotFetch \/ SnapshotStage \/ SnapshotAdvance
           \/ RestartSnapshot \/ GiveUpSnapshot \/ PrepareRecovery
  BY <1>2, SnapshotFetchRecovered, SnapshotRecovered, PrepareRecoveryRecovered
<1>3. CASE StoreProgress \/ PublishSnapshot \/ StoreAnchor
  <2>1. ~recovering'
    BY <1>3 DEF StoreProgress, PublishSnapshot, StoreAnchor, ScanNeverOvershoots, LocalScan,
       CheckpointSound
  <2> QED
    BY <2>1 DEF Recovered
<1> QED
  BY <1>1, <1>2, <1>3, StepKinds DEF Closing

\* What NoGap rests on.
GapInv ==
    /\ NoGap /\ Evented /\ StoredAsked /\ ScanAsked
    /\ WorkHeld /\ AnchorKept /\ SnapHeld /\ Recovered

LEMMA InitGap == Init => GapInv
<1> SUFFICES ASSUME Init PROVE GapInv
  OBVIOUS
<1>1. Events = {} /\ unasked = {} /\ pc = "idle" /\ ~recovering
  BY DEF Init, Events
<1>2. NoGap /\ Evented /\ StoredAsked /\ ScanAsked
  BY <1>1 DEF NoGap, Evented, StoredAsked, CheckpointCovers, ScanAsked, ScanOpen, Scanned
<1>3. WorkHeld /\ AnchorKept /\ SnapHeld /\ Recovered
  BY <1>1 DEF Init, WorkHeld, AnchorKept, LocalPhases, SnapHeld, SnapPhases, Recovered
<1> QED
  BY <1>2, <1>3 DEF GapInv

\* What the steps keep that leave the checkpoint alone.
LEMMA QuietGap ==
    ASSUME TypeOK, TypeOK', ScanNeverOvershoots, CaptureInv, GapInv,
           Elsewhere \/ StartRecent \/ Scanning
    PROVE  NoGap' /\ Evented' /\ StoredAsked' /\ ScanAsked'
<1>1. /\ Quiet /\ UNCHANGED recentVars
      /\ trimmed' >= trimmed /\ abandoned \subseteq abandoned'
  BY QuietSteps
<1>2. NoGap' /\ Evented' /\ Asked \subseteq Asked' /\ Answered \subseteq Answered'
  BY <1>1, QuietKeeps DEF GapInv
<1>3. StoredAsked'
  BY <1>1, <1>2, StoredAskedStill DEF GapInv, Quiet
<1>4. CASE Elsewhere
  <2>1. \/ pc' \notin {"scan", "capture", "details"}
        \/ UNCHANGED <<pc, scan>>
        \/ pc = "capture" /\ pc' = "details" /\ UNCHANGED scan
    BY <1>4, ElsewherePhases
  <2>2. ScanAsked'
    BY <1>1, <1>2, <2>1, ScanAskedStill DEF GapInv, Quiet
  <2> QED
    BY <1>2, <1>3, <2>2
<1>5. CASE StartRecent \/ ScanMeetsCursor \/ ScanGoesOn
  BY <1>2, <1>3, <1>5, StartRecentAsked, ScanMeetsCursorAsked, ScanGoesOnAsked DEF GapInv
<1>6. CASE ScanTooDeep \/ ScanAnchors
  <2>1. pc' \notin {"scan", "capture", "details"}
    BY <1>6 DEF ScanTooDeep, ScanAnchors
  <2>2. ScanAsked'
    BY <1>1, <1>2, <2>1, ScanAskedStill DEF GapInv, Quiet
  <2> QED
    BY <1>2, <1>3, <2>2
<1> QED
  BY <1>4, <1>5, <1>6 DEF Scanning

\* No step that moves the cursor or the checkpoint changes what happened at Toolhub.
LEMMA StoreFrame ==
    ASSUME TypeOK, GapInv, StoreAnchor \/ StoreProgress \/ PrepareRecovery \/ PublishSnapshot
    PROVE  /\ UNCHANGED <<feed, live, trimmed, abandoned>> /\ unasked' \subseteq unasked
           /\ Events' = Events /\ \A t : Version(t)' = Version(t)
           /\ Evented' /\ ScanAsked'
<1>1. /\ UNCHANGED <<feed, live, trimmed, abandoned>> /\ unasked' \subseteq unasked
      /\ pc' \notin {"scan", "capture", "details"}
  BY DEF StoreAnchor, StoreProgress, PrepareRecovery, PublishSnapshot, upstreamVars,
     DiscardStage, RunOver, Continue
<1>2. Events' = Events /\ \A t : Version(t)' = Version(t)
  BY <1>1 DEF Events, Version
<1>3. Evented'
  BY <1>1, <1>2 DEF GapInv, Evented
<1>4. ScanAsked'
  BY <1>1 DEF ScanAsked, ScanOpen, Scanned
<1> QED
  BY <1>1, <1>2, <1>3, <1>4

\* The end of a recent run: whatever still waits for an event up to the new cursor is queued,
\* or the checkpoint has not come to that event.
LEMMA StoreProgressGap ==
    ASSUME TypeOK, TypeOK', ScanNeverOvershoots, GapInv, StoreProgress
    PROVE  NoGap' /\ StoredAsked'
<1>1. /\ UNCHANGED <<feed, live, trimmed, abandoned, unasked>>
      /\ pc = "details" /\ work.todo = {} /\ pending' = work.remaining
      /\ cursor' = NextCursor /\ scanBoundary' = NextBoundary
      /\ scanPage' = IF scan.complete THEN 1 ELSE scan.page
      /\ scanLatest' = IF scan.complete THEN NoMarker ELSE scan.latest
      /\ Events' = Events /\ \A t : Version(t)' = Version(t)
  BY StoreFrame DEF StoreProgress, DetailsDone
<1>2. /\ scan.latest \in Nat /\ cursor \in Nat /\ scan.seen \subseteq Events /\ Events \subseteq Nat
      /\ scan.latest >= cursor /\ scan.complete \in BOOLEAN
  <2>1. /\ scan.latest \in Markers /\ scan.seen \subseteq Events /\ scan.complete \in BOOLEAN
        /\ cursor \in Markers
    BY DEF TypeOK, RunTypes, RecentTypes, Scans
  <2>2. Events \subseteq Nat /\ Markers \subseteq Nat
    BY DEF Events, Markers
  <2>3. scan.latest >= cursor
    BY <1>1 DEF ScanNeverOvershoots, LocalScan
  <2> QED
    BY <2>1, <2>2, <2>3
<1>3. ASSUME NEW t \in Open', Version(t) <= scan.latest
      PROVE  t \in Open /\ Version(t) \notin scan.seen /\ Version(t) \in Events
  <2>1. t \in unasked \cap live /\ t \notin work.todo \cup work.remaining
    BY <1>1 DEF Open
  <2>2. t \notin pending \cup Changed(scan.seen)
    BY <1>1, <1>3, <2>1 DEF GapInv, WorkHeld
  <2>3. Version(t) \in Events
    BY <2>1 DEF GapInv, Evented
  <2>4. feed[Version(t)].tool = t
    <3>1. feed \in Seq([tool : Tools, created : BOOLEAN])
      BY DEF TypeOK, UpstreamTypes
    <3>2. VersionIn(feed, t) # 0
      BY <2>3 DEF Version, Events
    <3> QED
      BY <3>1, <3>2, VersionIsLast DEF Version
  <2> QED
    BY <2>1, <2>2, <2>3, <2>4 DEF Open, Changed
<1>4. ASSUME NEW t \in Open PROVE Version(t) > cursor /\ Version(t) \in Nat
  <2>1. t \in unasked \cap live /\ t \notin pending
    BY DEF Open
  <2>2. Version(t) \in Nat /\ ~(Version(t) <= cursor)
    BY <1>2, <2>1 DEF GapInv, NoGap, Evented
  <2> QED
    BY <1>2, <2>2
<1>5. CASE scan.complete
  <2>1. cursor' = scan.latest /\ scanLatest' = NoMarker /\ scanBoundary' = NoMarker
    BY <1>1, <1>5 DEF NextCursor, NextBoundary
  <2>2. ASSUME NEW t \in Open', Version(t) <= scan.latest PROVE FALSE
    <3>1. t \in Open /\ Version(t) \notin scan.seen /\ Version(t) \in Events /\ cursor < Version(t)
      BY <1>2, <1>3, <1>4, <2>2
    <3>2. Version(t) \in Asked \cup scan.seen
      BY <1>1, <1>5, <2>2, <3>1 DEF GapInv, ScanAsked, Scanned, ScanCoversAll
    <3> QED
      BY <3>1, <3>2 DEF Asked
  <2>3. NoGap'
    BY <1>1, <2>1, <2>2 DEF NoGap, Open
  <2>4. StoredAsked'
    BY <1>1, <1>2, <2>1 DEF StoredAsked, CheckpointCovers, NoMarker
  <2> QED
    BY <2>3, <2>4
<1>6. CASE ~scan.complete
  <2>1. /\ cursor' = cursor /\ scanPage' = scan.page /\ scanLatest' = scan.latest
        /\ scanBoundary' = scan.bound
    BY <1>1, <1>6 DEF NextCursor, NextBoundary
  <2>2. NoGap'
    <3>1. ASSUME NEW t \in Open', Version(t) <= cursor PROVE FALSE
      <4>1. Version(t) \in Nat
        BY <1>1, <1>2 DEF GapInv, Evented, Open
      <4>2. t \in Open
        BY <1>2, <1>3, <3>1, <4>1
      <4> QED
        BY <1>2, <1>4, <3>1, <4>2
    <3> QED
      BY <1>1, <2>1, <3>1 DEF NoGap, Open
  <2>3. ASSUME NEW i \in Events, i <= scan.latest, i \in Answered \cup scan.seen
        PROVE  i \in Answered'
    <3>1. CASE i \in abandoned \/ i <= trimmed
      BY <1>1, <3>1 DEF Answered
    <3>2. CASE i \in Asked \cup scan.seen
      <4>1. \A t \in Open' : Version(t) # i
        BY <1>3, <2>3, <3>2 DEF Asked
      <4> QED
        BY <1>1, <4>1 DEF Answered, Asked
    <3> QED
      BY <2>3, <3>1, <3>2 DEF Answered
  <2>4. ScanCovers(Answered \cup scan.seen)
    BY <1>1, <1>6 DEF GapInv, ScanAsked, ScanOpen
  <2>5. \A i \in Events : Reaches(i, scanPage)' <=> Reaches(i, scan.page)
    BY <1>1, <2>1 DEF Reaches
  <2>6. StoredAsked'
    BY <1>1, <2>1, <2>3, <2>4, <2>5 DEF StoredAsked, CheckpointCovers, ScanCovers
  <2> QED
    BY <2>2, <2>6
<1> QED
  BY <1>2, <1>5, <1>6

\* The first cursor, a lost one, and the one a recovery ends with.
LEMMA AnchorsGap ==
    ASSUME TypeOK, TypeOK', ScanNeverOvershoots, GapInv, StoreAnchor \/ PrepareRecovery \/ PublishSnapshot
    PROVE  NoGap' /\ StoredAsked'
<1>1. /\ UNCHANGED <<feed, live, trimmed, abandoned>> /\ unasked' \subseteq unasked
      /\ Events' = Events /\ \A t : Version(t)' = Version(t) /\ Evented'
  BY StoreFrame
<1>2. Events \subseteq Nat \ {0} /\ cursor \in Nat /\ scanLatest \in Nat /\ scan.latest \in Nat
  <2>1. Len(feed) \in Nat /\ scan \in Scans /\ cursor \in Markers /\ scanLatest \in Markers
    BY DEF TypeOK, UpstreamTypes, RecentTypes, RunTypes
  <2>2. scan.latest \in Markers
    BY <2>1 DEF Scans
  <2> QED
    BY <2>1, <2>2 DEF Events, Markers
<1>3. CASE StoreAnchor
  <2>1. /\ cursor' = scan.latest /\ unasked' = {t \in unasked : Version(t) > scan.latest}
        /\ UNCHANGED <<scanLatest, scanBoundary>> /\ pc = "anchor"
    BY <1>3 DEF StoreAnchor
  <2>2. scanLatest = NoMarker /\ scanBoundary = NoMarker
    BY <2>1 DEF ScanNeverOvershoots, LocalScan, CheckpointSound
  <2>3. NoGap'
    <3>1. \A t \in unasked' : Version(t) \in Nat /\ Version(t) > scan.latest
      BY <1>1, <1>2, <2>1 DEF Evented
    <3> QED
      BY <1>1, <1>2, <2>1, <3>1 DEF NoGap
  <2>4. StoredAsked'
    BY <1>1, <1>2, <2>1, <2>2 DEF StoredAsked, CheckpointCovers, NoMarker
  <2> QED
    BY <2>3, <2>4
<1>4. CASE PrepareRecovery
  <2>1. /\ UNCHANGED cursor /\ pending \subseteq pending' /\ scanPage' = 1 /\ scanBoundary' = NoMarker
    BY <1>4 DEF PrepareRecovery
  <2>2. NoGap'
    BY <1>1, <2>1 DEF GapInv, NoGap
  <2>3. \A i \in Events : Reaches(i, scanPage)'
    <3>1. Len(feed) \in Nat /\ \A i \in Events : i <= Len(feed) /\ i \in Nat
      BY DEF TypeOK, UpstreamTypes, Events
    <3>2. (1 - 1) * FeedPageSize = 0
      BY SizesAssumption
    <3> QED
      BY <1>1, <2>1, <3>1, <3>2 DEF Reaches
  <2>4. StoredAsked'
    BY <1>1, <2>1, <2>3 DEF StoredAsked, CheckpointCovers
  <2> QED
    BY <2>2, <2>4
<1>5. CASE PublishSnapshot /\ recovering
  <2>1. /\ cursor' = scanLatest /\ scanLatest' = NoMarker /\ scanBoundary' = NoMarker
        /\ UNCHANGED pending /\ pc = "publish"
    BY <1>5 DEF PublishSnapshot
  <2>2. Owed = {}
    BY <1>5, <2>1 DEF GapInv, Recovered
  <2>3. NoGap'
    BY <1>1, <2>1, <2>2 DEF NoGap, Owed, Open
  <2>4. StoredAsked'
    BY <1>1, <1>2, <2>1 DEF StoredAsked, CheckpointCovers, NoMarker
  <2> QED
    BY <2>3, <2>4
<1>6. CASE PublishSnapshot /\ ~recovering
  <2>1. UNCHANGED recentVars
    BY <1>6 DEF PublishSnapshot, recentVars
  <2>2. Quiet
    BY <1>1, <2>1, AnsweredQuiet DEF TypeOK, UpstreamTypes, recentVars
  <2>3. trimmed' >= trimmed /\ abandoned \subseteq abandoned'
    BY <1>1 DEF TypeOK, UpstreamTypes, Markers
  <2>4. NoGap' /\ Answered \subseteq Answered'
    BY <2>1, <2>2, <2>3, QuietKeeps DEF GapInv
  <2>5. StoredAsked'
    BY <2>1, <2>2, <2>4, StoredAskedStill DEF GapInv, Quiet
  <2> QED
    BY <2>4, <2>5
<1> QED
  BY <1>3, <1>4, <1>5, <1>6

LEMMA StepGap ==
    TypeOK /\ TypeOK' /\ ScanNeverOvershoots /\ CaptureInv /\ GapInv /\ [Next]_vars
      /\ [RecoveryCalm]_vars => GapInv'
<1> SUFFICES ASSUME TypeOK, TypeOK', ScanNeverOvershoots, CaptureInv, GapInv, [Next]_vars,
                    [RecoveryCalm]_vars
             PROVE  GapInv'
  OBVIOUS
<1>1. RecoveryCalm
  BY DEF RecoveryCalm, vars, upstreamVars
<1>2. WorkHeld' /\ AnchorKept' /\ SnapHeld' /\ Recovered'
  BY <1>1, WorkStep, AnchorStep, SnapHeldStep, RecoveredStep DEF GapInv
<1>3. CASE Elsewhere \/ StartRecent \/ Scanning
  BY <1>2, <1>3, QuietGap DEF GapInv
<1>4. CASE StoreAnchor \/ StoreProgress \/ PrepareRecovery \/ PublishSnapshot
  BY <1>2, <1>4, StoreFrame, StoreProgressGap, AnchorsGap DEF GapInv
<1> QED
  BY <1>3, <1>4, StepKinds DEF Elsewhere

\* As long as Toolhub removes no tool while a recovery is open, a listed tool whose last
\* change the cursor has passed was asked about since, or is queued for it: through pages
\* that drift, checkpoints, kills, the depth guard, lost cursors and the snapshots that
\* recover them.
THEOREM NothingPassedOver == Spec /\ [][RecoveryCalm]_vars => []NoGap
<1>1. Init => GapInv
  BY InitGap
<1>2. TypeOK /\ TypeOK' /\ ScanNeverOvershoots /\ CaptureInv /\ GapInv /\ [Next]_vars
        /\ [RecoveryCalm]_vars => GapInv'
  BY StepGap
<1>3. GapInv => NoGap
  BY DEF GapInv
<1>4. Init => CaptureInv
  BY InitCapture
<1>5. TypeOK /\ TypeOK' /\ ScanNeverOvershoots /\ CaptureInv /\ [Next]_vars => CaptureInv'
  BY StepCapture
<1> QED
  BY <1>1, <1>2, <1>3, <1>4, <1>5, TypeCorrect, SearchCorrect, PTL DEF Spec

(***************************************************************************)
(* What a snapshot retires                                                 *)
(***************************************************************************)
\* A tool has one row in a generation, and one in a page.
Keyed ==
    /\ \A r, q \in stage : r.gen = q.gen /\ r.tool = q.tool => r = q
    /\ \A r, q \in listing.rows : r.tool = q.tool => r = q

\* These tools are among as many listed ones as the snapshot counted (0: not yet).
Among(names, count) ==
    IF count = 0 THEN names \subseteq live
    ELSE \E S \in SUBSET live : Cardinality(S) = count /\ names \subseteq S

\* The tools a snapshot must keep, and those it staged, are among those it counted.
Kept == steady \cup Names(Staged)
Counted ==
    snapOpen =>
      /\ Among(Kept, snapCount)
      /\ pc = "snapFetch" => Among(Kept, listing.count)
      /\ pc = "snapStage" => Among(Kept \cup Names(listing.rows), listing.count)
      /\ pc \in {"snapAdvance", "publish"} => Among(Kept, listing.count)
      /\ pc \in {"snapFetch", "snapStage"} => snapCount \in {0, listing.count}
      /\ pc \in {"snapStage", "snapAdvance", "publish"} => listing.count # 0

RetireInv == Keyed /\ SnapHeld /\ Counted

\* While a snapshot is open, Toolhub removes no tool.
SnapshotCalm == snapOpen => live \subseteq live'

LEMMA InitRetire == Init => RetireInv
BY DEF Init, RetireInv, Keyed, SnapHeld, Counted, SnapPhases, NoListing

\* Fewer names, of a listing that only grows, stay among those counted.
LEMMA AmongStill ==
    ASSUME live \subseteq live', NEW names, NEW less, less \subseteq names, NEW count,
           Among(names, count)
    PROVE  Among(less, count)'
<1>1. CASE count = 0
  BY <1>1 DEF Among
<1>2. CASE count # 0
  <2>1. PICK S \in SUBSET live : Cardinality(S) = count /\ names \subseteq S
    BY <1>2 DEF Among
  <2>2. S \in SUBSET live' /\ less \subseteq S
    BY <2>1
  <2> QED
    BY <1>2, <2>1, <2>2 DEF Among
<1> QED
  BY <1>1, <1>2

\* Steps that stage nothing and leave the snapshot as far as it is.
LEMMA CountedStill ==
    ASSUME Counted, snapOpen' => snapOpen /\ live \subseteq live',
           UNCHANGED <<snapCount, snapGen, stage>>, snapOpen' => steady' \subseteq steady,
           pc' \notin SnapPhases \/ UNCHANGED <<pc, listing>>
    PROVE  Counted'
<1> SUFFICES ASSUME snapOpen' PROVE Counted'
  BY DEF Counted
<1>1. /\ Names(Staged)' = Names(Staged) /\ Kept' \subseteq Kept /\ live \subseteq live' /\ snapOpen
  BY DEF Names, Staged, Kept
<1> PICK K : K = Kept'
  OBVIOUS
<1>2. \A c : Among(Kept, c) => Among(K, c)'
  BY <1>1, AmongStill DEF Among
<1>3. Among(Kept, snapCount)'
  BY <1>1, <1>2 DEF Counted, Among
<1>4. CASE pc' \notin SnapPhases
  BY <1>3, <1>4 DEF Counted, SnapPhases
<1>5. CASE UNCHANGED <<pc, listing>>
  <2>1. Among(Kept, listing.count) => Among(Kept, listing.count)'
    BY <1>2, <1>5 DEF Among
  <2> PICK M : M = Kept' \cup Names(listing.rows)
    OBVIOUS
  <2>2. \A c : Among(Kept \cup Names(listing.rows), c) => Among(M, c)'
    BY <1>1, AmongStill DEF Among
  <2>3. Among(Kept \cup Names(listing.rows), listing.count)
          => Among(Kept \cup Names(listing.rows), listing.count)'
    BY <1>5, <2>2 DEF Among, Names
  <2> QED
    BY <1>1, <1>3, <1>5, <2>1, <2>3 DEF Counted
<1> QED
  BY <1>4, <1>5

LEMMA KeyedStep ==
    ASSUME TypeOK, Keyed, [Next]_vars
    PROVE  Keyed'
<1>1. CASE BackfillFetch \/ ReconcileFetch \/ SnapshotFetch
  <2>1. stage' = stage /\ (listing'.rows = listing.rows \/ listing'.rows = RowsOf(listing.page))
    BY <1>1 DEF BackfillFetch, ReconcileFetch, SnapshotFetch, FetchListing, snapVars, TypeOK,
       RunTypes, Listings
  <2> QED
    BY <2>1 DEF Keyed, RowsOf
<1>2. CASE SnapshotStage
  <2>1. /\ listing' = listing
        /\ stage' = {r \in stage : ~(r.gen = snapGen /\ r.tool \in Names(listing.rows))}
                    \cup {[gen |-> snapGen, tool |-> r.tool, ver |-> r.ver] : r \in listing.rows}
    BY <1>2 DEF SnapshotStage
  <2> QED
    BY <2>1 DEF Keyed, Names
<1>3. CASE stage' \subseteq stage /\ (listing' = listing \/ listing'.rows = {})
  BY <1>3 DEF Keyed
<1>4. CASE \/ Upstream \/ Idling \/ BackfillStore \/ ReconcileStore \/ Capture \/ LostCapture
           \/ Scanning \/ Cache \/ (\E t \in Tools : Detail(t)) \/ UNCHANGED vars
  BY <1>3, <1>4 DEF Upstream, Idling, Fail, PastEndFails, ReconcileNotDue, StartIntegrity,
     StartBackfill, StartRecent, ReconcileDue, BackfillStore, ReconcileStore, Capture, LostCapture,
     Scanning, ScanTooDeep, ScanAnchors, ScanMeetsCursor, ScanGoesOn, ScanFrame, Cache, CachePoll,
     CacheExpires, Detail, DetailRefreshed, DetailGone, DetailFails, Hydrate, DetailFrame, vars,
     runVars, snapVars, RunOver, Continue, NoListing
<1>5. CASE StoreAnchor \/ StoreProgress \/ PrepareRecovery
  BY <1>3, <1>5 DEF StoreAnchor, StoreProgress, PrepareRecovery, DiscardStage, RunOver, Continue,
     snapVars, NoListing
<1>6. CASE BeginSnapshot \/ SnapshotAdvance \/ PublishSnapshot \/ Closing
  <2>1. CASE SnapshotAdvance
    <3>1. stage' = stage /\ (listing' = listing \/ listing'.rows = {})
      BY <2>1 DEF SnapshotAdvance, TypeOK, RunTypes, Listings
    <3> QED
      BY <1>3, <3>1
  <2>2. CASE BeginSnapshot
    <3>1. CASE snapOpen
      <4>1. stage' = stage /\ listing' = [NoListing EXCEPT !.page = snapPage, !.count = snapCount]
        BY <2>2, <3>1 DEF BeginSnapshot, snapVars
      <4>2. listing'.rows = {}
        BY <4>1 DEF NoListing
      <4> QED
        BY <1>3, <4>1, <4>2
    <3>2. CASE ~snapOpen
      <4>1. stage' = stage /\ listing'.rows = {}
        BY <2>2, <3>2 DEF BeginSnapshot, NoListing
      <4> QED
        BY <1>3, <4>1
    <3> QED
      BY <3>1, <3>2
  <2>3. CASE PublishSnapshot \/ Closing
    BY <1>3, <2>3 DEF PublishSnapshot, Closing, EvictRetired, PublishRefused,
       RestartSnapshot, GiveUpSnapshot, DiscardStage, RunOver, Continue, snapVars, NoListing
  <2> QED
    BY <1>6, <2>1, <2>2, <2>3
<1> QED
  BY <1>1, <1>2, <1>4, <1>5, <1>6, StepKinds DEF ListingLanes

\* A snapshot begins with the tools it must keep; a resumed one goes on as it was.
LEMMA BeginCounted ==
    ASSUME TypeOK, SnapHeld, Counted, BeginSnapshot
    PROVE  Counted'
<1>1. pc' = "snapFetch" /\ UNCHANGED <<live, stage>>
  BY DEF BeginSnapshot, upstreamVars, snapVars
<1>2. CASE snapOpen
  <2>1. listing'.count = snapCount /\ UNCHANGED <<snapOpen, snapGen, snapCount, steady>>
    BY <1>2 DEF BeginSnapshot, NoListing, snapVars
  <2>2. Among(Kept, snapCount)'
    BY <1>1, <1>2, <2>1 DEF Counted, Among, Kept, Staged, Names
  <2>3. Among(Kept, listing.count)'
    BY <2>1, <2>2 DEF Among
  <2> QED
    BY <1>1, <2>1, <2>2, <2>3 DEF Counted
<1>3. CASE ~snapOpen
  <2>1. /\ listing'.count = 0 /\ snapCount' = 0 /\ snapGen' = NextGeneration /\ steady' = live
        /\ FreshGenerations # {}
    BY <1>3 DEF BeginSnapshot, NoListing
  <2>2. NextGeneration \in FreshGenerations
    BY <2>1, NextGenerationType
  <2>3. Kept' \subseteq live
    BY <1>1, <2>1, <2>2 DEF Kept, Names, Staged, FreshGenerations
  <2> QED
    BY <1>1, <2>1, <2>3 DEF Counted, Among
<1> QED
  BY <1>2, <1>3

\* As long as the count holds, the tools counted are those listed now.
LEMMA FetchCounted ==
    ASSUME TypeOK, Counted, SnapshotFetch
    PROVE  Counted'
<1>1. /\ pc = "snapFetch" /\ UNCHANGED <<live, stage, snapOpen, snapGen, snapCount, steady>>
      /\ live # {} /\ Cardinality(live) \in Nat
  BY CountType DEF SnapshotFetch, upstreamVars, snapVars, ListingAnswers
<1>2. CASE CountMoved
  <2>1. pc' \notin SnapPhases
    BY <1>2 DEF SnapshotFetch, SnapPhases
  <2> QED
    BY <1>1, <2>1, CountedStill
<1>3. CASE ~CountMoved /\ snapOpen
  <2>1. /\ pc' = "snapStage" /\ listing'.rows = RowsOf(listing.page)
        /\ listing'.count = Cardinality(live)
    BY <1>3 DEF SnapshotFetch, TypeOK, RunTypes, Listings
  <2>2. IsFiniteSet(live) /\ Cardinality(live) # 0
    BY <1>1, SizesAssumption, FS_Subset, FS_EmptySet DEF TypeOK, UpstreamTypes
  <2>3. Among(Kept, listing.count) /\ snapCount \in {0, listing.count}
        /\ Among(Kept, snapCount)
    BY <1>1, <1>3 DEF Counted
  <2>4. Kept \subseteq live
    BY <2>3 DEF Among
  <2>5. Kept' = Kept /\ Names(listing'.rows) \subseteq live
    BY <1>1, <2>1 DEF Kept, Names, Staged, RowsOf, ListingPage
  <2>6. Among(Kept \cup Names(listing.rows), listing.count)'
    <3>1. (Kept \cup Names(listing.rows))' \subseteq live /\ live \in SUBSET live'
      BY <1>1, <2>4, <2>5 DEF Names
    <3> QED
      BY <1>1, <2>1, <2>2, <3>1 DEF Among
  <2>7. Among(Kept, snapCount)'
    BY <1>1, <2>3, <2>5 DEF Among
  <2>8. snapCount' \in {0, listing'.count}
    BY <1>1, <1>3, <2>1, <2>3 DEF CountMoved
  <2> QED
    BY <1>1, <2>1, <2>2, <2>6, <2>7, <2>8 DEF Counted
<1> QED
  BY <1>1, <1>2, <1>3 DEF Counted

LEMMA StageCounted ==
    ASSUME TypeOK, Counted, SnapshotStage \/ SnapshotAdvance
    PROVE  Counted'
<1> SUFFICES ASSUME snapOpen' PROVE Counted'
  BY DEF Counted
<1>1. UNCHANGED <<live, snapOpen, snapGen, steady>> /\ snapOpen
  BY DEF SnapshotStage, SnapshotAdvance, upstreamVars, historyVars
<1>2. CASE SnapshotStage
  <2>1. /\ pc = "snapStage" /\ pc' = "snapAdvance" /\ UNCHANGED <<listing, snapCount>>
        /\ stage' = {r \in stage : ~(r.gen = snapGen /\ r.tool \in Names(listing.rows))}
                    \cup {[gen |-> snapGen, tool |-> r.tool, ver |-> r.ver] : r \in listing.rows}
    BY <1>2 DEF SnapshotStage
  <2>2. /\ listing.count # 0 /\ snapCount \in {0, listing.count}
        /\ Among(Kept \cup Names(listing.rows), listing.count)
    BY <1>1, <2>1 DEF Counted
  <2>3. Kept' \subseteq Kept \cup Names(listing.rows)
    <3>1. ASSUME NEW r \in Staged' PROVE r.tool \in Names(Staged) \cup Names(listing.rows)
      <4>1. r \in stage' /\ r.gen = snapGen
        BY <1>1 DEF Staged
      <4>2. CASE r \in stage
        BY <4>1, <4>2 DEF Staged, Names
      <4>3. CASE r \notin stage
        <5>1. PICK q \in listing.rows : r = [gen |-> snapGen, tool |-> q.tool, ver |-> q.ver]
          BY <2>1, <4>1, <4>3
        <5> QED
          BY <5>1 DEF Names
      <4> QED
        BY <4>2, <4>3
    <3> QED
      BY <1>1, <3>1 DEF Kept, Names
  <2>4. PICK S \in SUBSET live : Cardinality(S) = listing.count /\ Kept' \subseteq S
    BY <2>2, <2>3 DEF Among
  <2>5. Among(Kept, listing.count)'
    BY <1>1, <2>1, <2>4 DEF Among
  <2>6. Among(Kept, snapCount)'
    BY <1>1, <2>1, <2>2, <2>4 DEF Among
  <2> QED
    BY <2>1, <2>2, <2>5, <2>6 DEF Counted
<1>3. CASE SnapshotAdvance
  <2>1. /\ pc = "snapAdvance" /\ pc' \in {"snapFetch", "publish"} /\ UNCHANGED stage
        /\ snapCount' = listing.count /\ listing'.count = listing.count
    BY <1>3 DEF SnapshotAdvance, TypeOK, RunTypes, Listings
  <2>2. listing.count # 0 /\ Among(Kept, listing.count)
    BY <1>1, <2>1 DEF Counted
  <2>3. Kept' = Kept
    BY <1>1, <2>1 DEF Kept, Names, Staged
  <2>4. Among(Kept, snapCount)' /\ Among(Kept, listing.count)'
    BY <1>1, <2>1, <2>2, <2>3 DEF Among
  <2> QED
    BY <2>1, <2>2, <2>4 DEF Counted
<1> QED
  BY <1>2, <1>3

LEMMA CountedStep ==
    ASSUME TypeOK, SnapHeld, Counted, [Next]_vars, SnapshotCalm
    PROVE  Counted'
<1>1. CASE \/ Upstream \/ Idling \/ ListingLanes \/ Scanning \/ Capture \/ LostCapture
           \/ EvictRetired \/ PublishRefused \/ Cache \/ (\E t \in Tools : Detail(t))
           \/ UNCHANGED vars
  <2>1. /\ UNCHANGED <<snapOpen, snapCount>>
        /\ pc' \notin SnapPhases \/ UNCHANGED <<pc, listing>>
    BY <1>1, LaneAlone
  <2>2. UNCHANGED <<snapGen, stage>> /\ steady' \subseteq steady
    <3>1. CASE Upstream
      BY <3>1 DEF Upstream, UpstreamEdit, UpstreamCreate, UpstreamRemove, UpstreamTrim, snapVars,
         historyVars
    <3>2. CASE Idling \/ ListingLanes \/ Scanning \/ Capture \/ LostCapture
      BY <3>2 DEF Idling, Fail, PastEndFails, ReconcileNotDue, StartIntegrity, StartBackfill,
         StartRecent, ReconcileDue, ListingLanes, BackfillFetch, BackfillStore, ReconcileFetch,
         ReconcileStore, Scanning, ScanTooDeep, ScanAnchors, ScanMeetsCursor, ScanGoesOn, ScanFrame,
         Capture, LostCapture, snapVars, historyVars
    <3>3. CASE EvictRetired \/ PublishRefused \/ Cache \/ (\E t \in Tools : Detail(t)) \/ UNCHANGED vars
      BY <3>3 DEF EvictRetired, PublishRefused, Cache, CachePoll, CacheExpires, Detail,
         DetailRefreshed, DetailGone, DetailFails, Hydrate, DetailFrame, vars, snapVars, historyVars
    <3> QED
      BY <1>1, <3>1, <3>2, <3>3
  <2> QED
    BY <2>1, <2>2, CountedStill DEF SnapshotCalm
<1>2. CASE BeginSnapshot \/ SnapshotFetch \/ SnapshotStage \/ SnapshotAdvance
  BY <1>2, BeginCounted, FetchCounted, StageCounted
<1>3. CASE RestartSnapshot \/ GiveUpSnapshot \/ PublishSnapshot
  BY <1>3 DEF RestartSnapshot, GiveUpSnapshot, PublishSnapshot, ResetSnapshot, Counted
<1>4. CASE StoreAnchor \/ StoreProgress \/ PrepareRecovery
  <2>1. snapOpen' => snapOpen /\ UNCHANGED <<live, snapCount, snapGen, stage, steady>>
    BY <1>4 DEF StoreAnchor, StoreProgress, PrepareRecovery, ResetSnapshot, upstreamVars, snapVars
  <2>2. pc' \notin SnapPhases
    BY <1>4 DEF StoreAnchor, StoreProgress, PrepareRecovery, DiscardStage, RunOver, Continue,
       SnapPhases
  <2> QED
    BY <2>1, <2>2, CountedStill DEF Counted
<1> QED
  BY <1>1, <1>2, <1>3, <1>4, StepKinds DEF Closing

\* A set of rows with one row a tool is as large as the set of their tools.
LEMMA KeyedCardinality ==
    ASSUME NEW R, NEW N, IsFiniteSet(N), N = Names(R), \A r, q \in R : r.tool = q.tool => r = q
    PROVE  Cardinality(R) = Cardinality(N)
<1> DEFINE f == [r \in R |-> r.tool]
<1>1. f \in Injection(R, N)
  BY DEF Names, Injection, IsInjective
<1>2. f \in Surjection(R, N)
  BY DEF Names, Surjection
<1> HIDE DEF f
<1> QED
  BY <1>1, <1>2, FS_Injection

\* A generation that is published holds every tool it must keep.
LEMMA PublishKeeps ==
    ASSUME TypeOK, RetireInv, PublishSnapshot
    PROVE  steady \subseteq Names(Staged)
<1>1. pc = "publish" /\ snapOpen /\ CountHolds
  BY DEF PublishSnapshot, RetireInv, SnapHeld, SnapPhases
<1>2. listing.count # 0 /\ Among(Kept, listing.count)
  BY <1>1 DEF RetireInv, Counted
<1>3. PICK S \in SUBSET live : Cardinality(S) = listing.count /\ Kept \subseteq S
  BY <1>2 DEF Among
<1>4. IsFiniteSet(live) /\ IsFiniteSet(S)
  BY SizesAssumption, FS_Subset DEF TypeOK, UpstreamTypes
<1>5. Names(Staged) \subseteq S /\ steady \subseteq S /\ IsFiniteSet(Names(Staged))
  BY <1>3, <1>4, FS_Subset DEF Kept
<1>6. \A r, q \in Staged : r.tool = q.tool => r = q
  BY DEF RetireInv, Keyed, Staged
<1>7. Cardinality(Staged) = Cardinality(Names(Staged))
  BY <1>5, <1>6, KeyedCardinality
<1>8. Cardinality(S) = Cardinality(Names(Staged))
  BY <1>1, <1>3, <1>7 DEF CountHolds
<1>9. S = Names(Staged)
  BY <1>4, <1>5, <1>8, FS_Subset
<1> QED
  BY <1>5, <1>9

\* No other step takes a row away.
LEMMA RowsStay ==
    ASSUME TypeOK, RetireInv, [Next]_vars, NEW t \in steady, canon[t] # Absent
    PROVE  canon'[t] # Absent
<1>1. /\ t \in Tools /\ canon \in [Tools -> Versions] /\ Len(feed) \in Nat
      /\ \A m \in Markers : m # Absent
  BY DEF TypeOK, HistoryTypes, RowTypes, UpstreamTypes, Markers, Absent
<1>2. ASSUME NEW p, canon' = Upserted(RowsOf(p)) PROVE canon'[t] # Absent
  <2>1. CASE t \in Names(RowsOf(p))
    <3>1. RowOf(RowsOf(p), t) \in RowsOf(p)
      BY <2>1 DEF Names, RowOf
    <3>2. RowOf(RowsOf(p), t).ver \in Markers
      BY <3>1, RowsOfType DEF TypeOK
    <3> QED
      BY <1>1, <1>2, <2>1, <3>2 DEF Upserted
  <2>2. CASE t \notin Names(RowsOf(p))
    BY <1>1, <1>2, <2>2 DEF Upserted
  <2> QED
    BY <2>1, <2>2
<1>3. CASE BackfillFetch \/ ReconcileFetch \/ SnapshotFetch
  BY <1>2, <1>3 DEF BackfillFetch, ReconcileFetch, SnapshotFetch, FetchListing
<1>4. ASSUME NEW u \in Tools, Detail(u) PROVE canon'[t] # Absent
  <2>1. \/ canon' = canon
        \/ \E v : canon' = [canon EXCEPT ![u] = v] /\ v # Absent
    <3>1. Version(u) # Absent
      BY <1>1, VersionInFeed DEF TypeOK, UpstreamTypes
    <3> QED
      BY <1>4, <3>1 DEF Detail, DetailRefreshed, DetailGone, DetailFails, Hydrate, DetailAnswered,
         rowVars
  <2> QED
    BY <1>1, <2>1
<1>5. CASE PublishSnapshot
  <2>1. t \in Names(Staged)
    BY <1>5, PublishKeeps
  <2>2. RowOf(Staged, t) \in Staged
    BY <2>1 DEF Names, RowOf
  <2>3. RowOf(Staged, t).ver \in Markers
    BY <2>2 DEF Staged, TypeOK, SnapTypes
  <2> QED
    BY <1>1, <1>5, <2>1, <2>3 DEF PublishSnapshot, Served
<1>6. CASE canon' = canon
  BY <1>6
<1>7. CASE \/ Upstream \/ Idling \/ BackfillStore \/ ReconcileStore \/ Scanning \/ Capture
           \/ LostCapture \/ Cache \/ UNCHANGED vars
  BY <1>6, <1>7 DEF Upstream, Idling, Fail, PastEndFails, ReconcileNotDue, StartIntegrity,
     StartBackfill, StartRecent, ReconcileDue, BackfillStore, ReconcileStore, Scanning, ScanTooDeep,
     ScanAnchors, ScanMeetsCursor, ScanGoesOn, ScanFrame, Capture, LostCapture, Cache, CachePoll,
     CacheExpires, vars, rowVars
<1>8. CASE \/ StoreAnchor \/ StoreProgress \/ PrepareRecovery \/ BeginSnapshot \/ SnapshotStage
           \/ SnapshotAdvance \/ Closing
  BY <1>6, <1>8 DEF StoreAnchor, StoreProgress, PrepareRecovery, BeginSnapshot, SnapshotStage,
     SnapshotAdvance, Closing, EvictRetired, PublishRefused, RestartSnapshot, GiveUpSnapshot, rowVars
<1> QED
  BY <1>3, <1>4, <1>5, <1>7, <1>8, StepKinds DEF ListingLanes

LEMMA StepRetire ==
    TypeOK /\ RetireInv /\ [Next]_vars /\ [SnapshotCalm]_vars => RetireInv'
<1> SUFFICES ASSUME TypeOK, RetireInv, [Next]_vars, [SnapshotCalm]_vars PROVE RetireInv'
  OBVIOUS
<1>1. SnapshotCalm
  BY DEF SnapshotCalm, vars, upstreamVars
<1> QED
  BY <1>1, KeyedStep, SnapHeldStep, CountedStep DEF RetireInv

\* As long as Toolhub removes no tool while a snapshot is open, no step takes a tool it listed
\* all along off the mirror: a generation is published only if it holds as many tools as each
\* of its pages counted, over kills and resumptions between the pages.
THEOREM OnlyGoneRetired == Spec /\ [][SnapshotCalm]_vars => NoLiveToolRetired
<1>1. Init => RetireInv
  BY InitRetire
<1>2. TypeOK /\ RetireInv /\ [Next]_vars /\ [SnapshotCalm]_vars => RetireInv'
  BY StepRetire
<1>3. TypeOK /\ RetireInv /\ [Next]_vars
        => [\A t \in steady : canon[t] # Absent => canon'[t] # Absent]_vars
  BY RowsStay
<1> QED
  BY <1>1, <1>2, <1>3, TypeCorrect, PTL DEF Spec, NoLiveToolRetired
----------------------------------------------------------------------------
(***************************************************************************)
(* Projection: loops over a sequence                                       *)
(***************************************************************************)
\* What holds at 0, and one further whenever it holds, holds at m.
LEMMA Counting ==
    ASSUME NEW m \in Nat, NEW G, 0 \in G, \A k \in Nat : k < m /\ k \in G => k + 1 \in G
    PROVE  m \in G
<1> DEFINE Missing == {k \in 0 .. m : k \notin G}
<1>1. CASE Missing = {}
  BY <1>1
<1>2. CASE Missing # {}
  <2>1. PICK k \in Missing : \A j \in Missing : k <= j
    <3> Missing \in SUBSET Nat
      OBVIOUS
    <3> HIDE DEF Missing
    <3> QED
      BY <1>2, MinExists
  <2>2. k # 0 /\ k - 1 \in Nat /\ k - 1 < m /\ k - 1 \notin Missing
    BY <2>1
  <2> QED
    BY <2>1, <2>2
<1> QED
  BY <1>1, <1>2

\* The n-th turn of the loops of the merge: what it makes of v, and of its operands a.
Turn(kind, a, v, n) ==
    CASE kind = "those"  -> (IF n \in a[2] THEN Append(v, a[1][n]) ELSE v)
      [] kind = "joined" -> Joined(v, a[1][n], a[2])
      [] kind = "merged" -> Merged(v, a[n])

\* f says what each of N turns leaves, x being there before the first.
Turns(f, N, kind, a, x) ==
    f = [n \in 0 .. N |-> IF n = 0 THEN x ELSE Turn(kind, a, f[n - 1], n)]

LEMMA TurnsBy ==
    ASSUME NEW f, NEW N \in Nat, NEW kind, NEW a, NEW x, f = [n \in 0 .. N |-> f[n]],
           f[0] = x, \A n \in 1 .. N : f[n] = Turn(kind, a, f[n - 1], n)
    PROVE  Turns(f, N, kind, a, x)
<1> DEFINE R == [n \in 0 .. N |-> IF n = 0 THEN x ELSE Turn(kind, a, f[n - 1], n)]
<1>1. R = [n \in 0 .. N |-> R[n]]
  OBVIOUS
<1>2. R[0] = f[0]
  OBVIOUS
<1>3. ASSUME NEW n \in 1 .. N PROVE R[n] = f[n]
  <2>1. n \in 0 .. N /\ n # 0
    OBVIOUS
  <2>2. R[n] = Turn(kind, a, f[n - 1], n)
    BY <2>1
  <2> QED
    BY <2>2
<1>4. \A n \in 0 .. N : n = 0 \/ n \in 1 .. N
  OBVIOUS
<1> HIDE DEF R
<1>5. f = R
  <2>1. \A n \in 0 .. N : R[n] = f[n]
    BY <1>2, <1>3, <1>4
  <2>2. [n \in 0 .. N |-> R[n]] = [n \in 0 .. N |-> f[n]]
    BY <2>1, Zenon
  <2> QED
    BY <1>1, <2>2, Zenon
<1> QED
  BY <1>5 DEF R, Turns

\* Whatever a loop does, and for however many turns, its recursion has a solution.
LEMMA LoopsEnd ==
    ASSUME NEW N \in Nat, NEW kind, NEW a, NEW x
    PROVE  \E f : Turns(f, N, kind, a, x)
<1> DEFINE G == {n \in Nat : \E f : Turns(f, n, kind, a, x)}
<1>1. 0 \in G
  <2> DEFINE f == [n \in 0 .. 0 |-> x]
  <2>1. f = [n \in 0 .. 0 |-> f[n]] /\ f[0] = x /\ \A n \in 1 .. 0 : f[n] = Turn(kind, a, f[n - 1], n)
    OBVIOUS
  <2> HIDE DEF f
  <2>2. Turns(f, 0, kind, a, x)
    BY <2>1, TurnsBy
  <2> QED
    BY <2>2
<1>2. ASSUME NEW k \in Nat, k \in G PROVE k + 1 \in G
  <2>1. PICK f : Turns(f, k, kind, a, x)
    BY <1>2
  <2>2. f[0] = x /\ \A n \in 1 .. k : f[n] = Turn(kind, a, f[n - 1], n)
    <3> HIDE DEF G
    <3> QED
      BY <2>1 DEF Turns
  <2> DEFINE h == [n \in 0 .. k + 1 |-> IF n <= k THEN f[n] ELSE Turn(kind, a, f[k], n)]
  <2>3. h = [n \in 0 .. k + 1 |-> h[n]] /\ h[0] = x
    BY <2>2
  <2>4. ASSUME NEW n \in 1 .. k + 1 PROVE h[n] = Turn(kind, a, h[n - 1], n)
    <3>1. h[n - 1] = f[n - 1]
      OBVIOUS
    <3>2. CASE n <= k
      BY <2>2, <3>1, <3>2
    <3>3. CASE n = k + 1
      BY <3>1, <3>3
    <3> QED
      BY <3>2, <3>3
  <2> HIDE DEF h
  <2>5. k + 1 \in Nat
    OBVIOUS
  <2>6. Turns(h, k + 1, kind, a, x)
    <3> HIDE DEF G
    <3> QED
      BY <2>3, <2>4, <2>5, TurnsBy, Zenon
  <2> QED
    BY <2>5, <2>6
<1>3. N \in G
  <2> HIDE DEF G
  <2> QED
    BY <1>1, <1>2, Counting
<1> QED
  BY <1>3

\* The three loops.
LEMMA ThoseRun ==
    ASSUME NEW s, Len(s) \in Nat, NEW I
    PROVE  \E f : /\ f[0] = <<>> /\ Those(s, I) = f[Len(s)]
                  /\ \A n \in 1 .. Len(s) : f[n] = IF n \in I THEN Append(f[n - 1], s[n]) ELSE f[n - 1]
<1> DEFINE N == Len(s)
           Is(f) == f = [n \in 0 .. N |-> IF n = 0 THEN <<>> ELSE
                            IF n \in I THEN Append(f[n - 1], s[n]) ELSE f[n - 1]]
           F == CHOOSE f : Is(f)
<1>1. PICK f : Turns(f, N, "those", <<s, I>>, <<>>)
  BY LoopsEnd
<1>2. Is(f)
  BY <1>1 DEF Turns, Turn
<1>3. Is(F)
  <2> HIDE DEF Is
  <2> QED
    BY <1>2, Zenon
<1>4. Those(s, I) = F[N]
  BY Zenon DEF Those
<1> HIDE DEF F
<1>5. F[0] = <<>>
  BY <1>3
<1>6. ASSUME NEW n \in 1 .. N PROVE F[n] = IF n \in I THEN Append(F[n - 1], s[n]) ELSE F[n - 1]
  <2>1. n \in 0 .. N /\ n # 0
    OBVIOUS
  <2> QED
    BY <1>3, <2>1
<1> QED
  BY <1>4, <1>5, <1>6

ExtendedBy(f, list, more, ceiling) ==
    /\ f[0] = list /\ Extended(list, more, ceiling) = f[Len(more)]
    /\ \A n \in 1 .. Len(more) : f[n] = Joined(f[n - 1], more[n], ceiling)
LEMMA ExtendedRuns ==
    ASSUME NEW list, NEW more, Len(more) \in Nat, NEW ceiling
    PROVE  \E f : ExtendedBy(f, list, more, ceiling)
<1> DEFINE N == Len(more)
           Is(f) == f = [n \in 0 .. N |-> IF n = 0 THEN list ELSE Joined(f[n - 1], more[n], ceiling)]
           F == CHOOSE f : Is(f)
<1>1. PICK f : Turns(f, N, "joined", <<more, ceiling>>, list)
  BY LoopsEnd
<1>2. Is(f)
  BY <1>1 DEF Turns, Turn
<1>3. Is(F)
  <2> HIDE DEF Is
  <2> QED
    BY <1>2, Zenon
<1>4. Extended(list, more, ceiling) = F[N]
  BY Zenon DEF Extended
<1> HIDE DEF F
<1>5. F[0] = list /\ \A n \in 1 .. N : F[n] = Joined(F[n - 1], more[n], ceiling)
  BY <1>3
<1> QED
  BY <1>4, <1>5 DEF ExtendedBy

MergedBy(f, sources) ==
    /\ f[0] = <<>> /\ MergeWords(sources) = f[Len(sources)]
    /\ \A n \in 1 .. Len(sources) : f[n] = Merged(f[n - 1], sources[n])
LEMMA MergeRuns ==
    ASSUME NEW sources, Len(sources) \in Nat
    PROVE  \E f : MergedBy(f, sources)
<1> DEFINE N == Len(sources)
           Is(f) == f = [n \in 0 .. N |-> IF n = 0 THEN <<>> ELSE Merged(f[n - 1], sources[n])]
           F == CHOOSE f : Is(f)
<1>1. PICK f : Turns(f, N, "merged", sources, <<>>)
  BY LoopsEnd
<1>2. Is(f)
  BY <1>1 DEF Turns, Turn
<1>3. Is(F)
  <2> HIDE DEF Is
  <2> QED
    BY <1>2, Zenon
<1>4. MergeWords(sources) = F[N]
  BY Zenon DEF MergeWords
<1> HIDE DEF F
<1>5. F[0] = <<>> /\ \A n \in 1 .. N : F[n] = Merged(F[n - 1], sources[n])
  BY <1>3
<1> QED
  BY <1>4, <1>5 DEF MergedBy


\* What stands at the positions I of a sequence, as it stood there.
Taken(t, s, I, V, g) ==
    /\ t \in Seq(V)
    /\ g \in [1 .. Len(t) -> I]
    /\ \A j \in 1 .. Len(t) : t[j] = s[g[j]]
    /\ \A i, j \in 1 .. Len(t) : i < j => g[i] < g[j]
    /\ \A i \in I : \E j \in 1 .. Len(t) : g[j] = i

LEMMA ThoseAre ==
    ASSUME NEW V, NEW s \in Seq(V), NEW I \in SUBSET DOMAIN s
    PROVE  \E g : Taken(Those(s, I), s, I, V, g)
<1>0. Len(s) \in Nat /\ DOMAIN s = 1 .. Len(s)
  BY LenProperties
<1>1. PICK f : /\ f[0] = <<>> /\ Those(s, I) = f[Len(s)]
               /\ \A n \in 1 .. Len(s) : f[n] = IF n \in I THEN Append(f[n - 1], s[n]) ELSE f[n - 1]
  BY <1>0, ThoseRun
<1> DEFINE Upto(n) == {i \in I : i <= n}
           G == {n \in Nat : n <= Len(s) => \E g : Taken(f[n], s, Upto(n), V, g)}
<1>2. 0 \in G
  <2>1. Upto(0) = {}
    BY <1>0
  <2>2. Taken(f[0], s, {}, V, <<>>)
    <3>1. <<>> \in [1 .. Len(<<>>) -> {}] /\ Len(<<>>) = 0 /\ <<>> \in Seq(V)
      OBVIOUS
    <3> QED
      BY <1>1, <3>1 DEF Taken
  <2> QED
    BY <2>1, <2>2
<1>3. ASSUME NEW n \in Nat, n < Len(s), n \in G PROVE n + 1 \in G
  <2>0. n + 1 \in Nat /\ n + 1 \in 1 .. Len(s) /\ (n + 1) - 1 = n
    BY <1>0, <1>3
  <2>a. n <= Len(s) => \E g : Taken(f[n], s, Upto(n), V, g)
    BY <1>3, Zenon
  <2>b. n <= Len(s)
    BY <1>0, <1>3
  <2>1. PICK g : Taken(f[n], s, Upto(n), V, g)
    BY <2>a, <2>b, Zenon
  <2>2. CASE n + 1 \notin I
    <3>1. Upto(n + 1) = Upto(n) /\ f[n + 1] = f[n]
      BY <1>0, <1>1, <2>0, <2>2
    <3> QED
      BY <2>0, <2>1, <3>1
  <2>3. CASE n + 1 \in I
    <3> DEFINE t == f[n]
               u == Append(t, s[n + 1])
               h == [j \in 1 .. Len(t) + 1 |-> IF j <= Len(t) THEN g[j] ELSE n + 1]
    <3>1. f[n + 1] = u
      BY <1>1, <2>0, <2>3
    <3>2. t \in Seq(V) /\ Len(t) \in Nat /\ s[n + 1] \in V
      BY <1>0, <2>0, <2>1, LenProperties DEF Taken
    <3>3. /\ u \in Seq(V) /\ Len(u) = Len(t) + 1
          /\ \A j \in 1 .. Len(t) : u[j] = t[j] 
          /\ u[Len(t) + 1] = s[n + 1]
      BY <3>2, AppendProperties
    <3>4. Upto(n + 1) = Upto(n) \cup {n + 1} /\ \A i \in Upto(n) : i \in Nat /\ i < n + 1
      BY <1>0, <2>0, <2>3
    <3> HIDE DEF u, Upto
    <3>5. /\ g \in [1 .. Len(t) -> Upto(n)] /\ \A j \in 1 .. Len(t) : t[j] = s[g[j]]
          /\ \A i, j \in 1 .. Len(t) : i < j => g[i] < g[j]
          /\ \A i \in Upto(n) : \E j \in 1 .. Len(t) : g[j] = i
      BY <2>1 DEF Taken
    <3> HIDE DEF t
    <3>6. /\ h \in [1 .. Len(u) -> Upto(n + 1)] /\ h[Len(t) + 1] = n + 1
          /\ \A j \in 1 .. Len(t) : h[j] = g[j]
      BY <3>2, <3>3, <3>4, <3>5
    <3> HIDE DEF h
    <3>7. \A j \in 1 .. Len(u) : j = Len(t) + 1 \/ j \in 1 .. Len(t)
      BY <3>2, <3>3
    <3>8. \A j \in 1 .. Len(u) : u[j] = s[h[j]]
      BY <3>3, <3>5, <3>6, <3>7
    <3>9. \A i, j \in 1 .. Len(u) : i < j => h[i] < h[j]
      <4> SUFFICES ASSUME NEW i \in 1 .. Len(u), NEW j \in 1 .. Len(u), i < j PROVE h[i] < h[j]
        OBVIOUS
      <4>1. i \in 1 .. Len(t)
        BY <3>2, <3>3
      <4>2. h[i] = g[i] /\ g[i] \in Upto(n)
        BY <3>5, <3>6, <4>1
      <4>3. CASE j \in 1 .. Len(t)
        BY <3>5, <3>6, <4>1, <4>3
      <4>4. CASE j = Len(t) + 1
        BY <3>4, <3>6, <4>2, <4>4
      <4> QED
        BY <3>7, <4>3, <4>4
    <3>10. \A i \in Upto(n + 1) : \E j \in 1 .. Len(u) : h[j] = i
      <4> SUFFICES ASSUME NEW i \in Upto(n + 1) PROVE \E j \in 1 .. Len(u) : h[j] = i
        OBVIOUS
      <4>0. 1 .. Len(t) \subseteq 1 .. Len(u) /\ Len(t) + 1 \in 1 .. Len(u)
        BY <3>2, <3>3
      <4>1. CASE i = n + 1
        BY <3>6, <4>0, <4>1
      <4>2. CASE i \in Upto(n)
        BY <3>5, <3>6, <4>0, <4>2
      <4> QED
        BY <3>4, <4>1, <4>2
    <3>11. Taken(u, s, Upto(n + 1), V, h)
      BY <3>3, <3>6, <3>8, <3>9, <3>10 DEF Taken
    <3> QED
      BY <2>0, <3>1, <3>11
  <2> QED
    BY <2>2, <2>3
<1>4. Len(s) \in G
  <2> HIDE DEF G
  <2> QED
    BY <1>0, <1>2, <1>3, Counting
<1>5. Upto(Len(s)) = I /\ Len(s) <= Len(s)
  BY <1>0
<1>6. \E g : Taken(f[Len(s)], s, Upto(Len(s)), V, g)
  <2>1. Len(s) <= Len(s) => \E g : Taken(f[Len(s)], s, Upto(Len(s)), V, g)
    BY <1>4, Zenon
  <2> QED
    BY <1>5, <2>1, Zenon
<1> QED
  BY <1>1, <1>5, <1>6

\* Sources as Sources lists them.
SourceRecords == [kind : {"record", "talk", "item", "report", "community", "owner", "inference"},
                  link : Links \cup {Cleared}, words : Lists, conflict : BOOLEAN]
Stated(S) ==
    /\ S \in Seq(SourceRecords) /\ S # <<>>
    /\ \A i \in DOMAIN S :
          /\ S[i].kind = "community" => Valid(S[i].link) /\ ~S[i].conflict
          /\ S[i].kind = "owner" => S[i].link \in Urls \cup {Cleared}
          /\ S[i].kind = "talk" => S[i].words = <<>>
          /\ S[i].kind = "inference" => ~Valid(S[i].link)
    /\ \E i \in DOMAIN S : S[i].kind = "talk" /\ Valid(S[i].link)

\* o is S in the order of the merge: o[j] is S[g[j]], and the first k of them assert.
Reordered(S, o, k, g) ==
    /\ o \in Seq(SourceRecords) /\ k \in 0 .. Len(o)
    /\ g \in [1 .. Len(o) -> DOMAIN S]
    /\ \A j \in 1 .. Len(o) : o[j] = S[g[j]] /\ (FillOnly(o[j]) <=> j > k)
    /\ \A i, j \in 1 .. Len(o) : i < j /\ (j <= k \/ i > k) => g[i] < g[j]
    /\ \A i \in DOMAIN S : \E j \in 1 .. Len(o) : g[j] = i

LEMMA OrderedAre ==
    ASSUME NEW S, Stated(S)
    PROVE  \E k, g : Reordered(S, Ordered(S), k, g)
<1> DEFINE V == SourceRecords
           A == DOMAIN S \ Fills(S)
           B == Fills(S)
           a == Those(S, A)
           b == Those(S, B)
<1>0. S \in Seq(V) /\ A \in SUBSET DOMAIN S /\ B \in SUBSET DOMAIN S
  BY DEF Stated, Fills
<1>1. (\E g : Taken(a, S, A, V, g)) /\ (\E g : Taken(b, S, B, V, g))
  <2> HIDE DEF A, B, V
  <2> QED
    BY <1>0, ThoseAre
<1>2. PICK ga : Taken(a, S, A, V, ga)
  BY <1>1
<1>3. PICK gb : Taken(b, S, B, V, gb)
  BY <1>1
<1>4. Ordered(S) = a \o b
  BY DEF Ordered
<1>5. (\A i \in A : i \in DOMAIN S /\ ~FillOnly(S[i])) /\ (\A i \in B : i \in DOMAIN S /\ FillOnly(S[i]))
      /\ DOMAIN S \subseteq A \cup B /\ DOMAIN S \subseteq Nat
  BY <1>0, LenProperties DEF Fills
<1> HIDE DEF A, B, a, b, V
<1> DEFINE k == Len(a)
           o == a \o b
           g == [j \in 1 .. Len(a) + Len(b) |-> IF j <= k THEN ga[j] ELSE gb[j - k]]
<1>6. /\ a \in Seq(V) /\ b \in Seq(V) /\ Len(a) \in Nat /\ Len(b) \in Nat
      /\ o \in Seq(V) /\ Len(o) = Len(a) + Len(b)
      /\ \A i \in 1 .. Len(a) + Len(b) : o[i] = IF i <= Len(a) THEN a[i] ELSE b[i - Len(a)]
  BY <1>2, <1>3, ConcatProperties, LenProperties DEF Taken
<1>7. /\ ga \in [1 .. Len(a) -> A] /\ \A j \in 1 .. Len(a) : a[j] = S[ga[j]]
      /\ \A i, j \in 1 .. Len(a) : i < j => ga[i] < ga[j]
      /\ \A i \in A : \E j \in 1 .. Len(a) : ga[j] = i
  BY <1>2 DEF Taken
<1>8. /\ gb \in [1 .. Len(b) -> B] /\ \A j \in 1 .. Len(b) : b[j] = S[gb[j]]
      /\ \A i, j \in 1 .. Len(b) : i < j => gb[i] < gb[j]
      /\ \A i \in B : \E j \in 1 .. Len(b) : gb[j] = i
  BY <1>3 DEF Taken
<1>9. \A j \in 1 .. Len(o) : \/ j \in 1 .. Len(a) /\ j <= k /\ o[j] = a[j] /\ g[j] = ga[j]
                             \/ j - k \in 1 .. Len(b) /\ j > k /\ o[j] = b[j - k] /\ g[j] = gb[j - k]
  BY <1>6
<1>10. /\ (\A j \in 1 .. Len(a) : j \in 1 .. Len(o) /\ j <= k)
       /\ (\A j \in 1 .. Len(b) : j + k \in 1 .. Len(o) /\ j + k > k /\ (j + k) - k = j)
  BY <1>6
<1>11. g = [j \in 1 .. Len(o) |-> g[j]]
  BY <1>6
<1>12. k \in 0 .. Len(o)
  BY <1>6
<1> HIDE DEF o, g, k
<1>13. ASSUME NEW j \in 1 .. Len(o) PROVE g[j] \in DOMAIN S /\ o[j] = S[g[j]] /\ (FillOnly(o[j]) <=> j > k)
  <2>1. CASE j \in 1 .. Len(a) /\ j <= k /\ o[j] = a[j] /\ g[j] = ga[j]
    <3>1. ga[j] \in A /\ a[j] = S[ga[j]]
      BY <1>7, <2>1
    <3>2. ~(j > k)
      BY <1>6, <1>12, <2>1
    <3> QED
      BY <1>5, <2>1, <3>1, <3>2
  <2>2. CASE j - k \in 1 .. Len(b) /\ j > k /\ o[j] = b[j - k] /\ g[j] = gb[j - k]
    <3>1. gb[j - k] \in B /\ b[j - k] = S[gb[j - k]]
      BY <1>8, <2>2
    <3> QED
      BY <1>5, <2>2, <3>1
  <2> QED
    BY <1>9, <2>1, <2>2
<1>14. ASSUME NEW i \in 1 .. Len(o), NEW j \in 1 .. Len(o), i < j, j <= k \/ i > k PROVE g[i] < g[j]
  <2>1. CASE j <= k
    <3>1. i \in 1 .. Len(a) /\ j \in 1 .. Len(a) /\ g[i] = ga[i] /\ g[j] = ga[j]
      BY <1>6, <1>9, <1>12, <1>14, <2>1
    <3> QED
      BY <1>7, <1>14, <3>1
  <2>2. CASE i > k
    <3>1. i - k \in 1 .. Len(b) /\ j - k \in 1 .. Len(b) /\ g[i] = gb[i - k] /\ g[j] = gb[j - k] /\ i - k < j - k
      BY <1>6, <1>9, <1>12, <1>14, <2>2
    <3> QED
      BY <1>8, <3>1
  <2> QED
    BY <1>14, <2>1, <2>2
<1>15. ASSUME NEW i \in DOMAIN S PROVE \E j \in 1 .. Len(o) : g[j] = i
  <2>1. CASE i \in A
    <3>1. PICK j \in 1 .. Len(a) : ga[j] = i
      BY <1>7, <2>1
    <3>2. j \in 1 .. Len(o) /\ j <= k
      BY <1>10
    <3>3. g[j] = ga[j]
      BY <1>6, <1>9, <1>12, <3>2
    <3> QED
      BY <3>1, <3>2, <3>3
  <2>2. CASE i \in B
    <3>1. PICK j \in 1 .. Len(b) : gb[j] = i
      BY <1>8, <2>2
    <3>2. PICK n \in 1 .. Len(o) : n > k /\ n - k = j
      BY <1>10
    <3>3. g[n] = gb[n - k]
      BY <1>6, <1>9, <1>12, <3>2
    <3> QED
      BY <3>1, <3>2, <3>3
  <2> QED
    BY <1>5, <2>1, <2>2
<1>16. g \in [1 .. Len(o) -> DOMAIN S]
  BY <1>11, <1>13
<1>17. Reordered(S, o, k, g)
  BY <1>6, <1>12, <1>13, <1>14, <1>15, <1>16 DEF Reordered, V
<1>18. Ordered(S) = o
  BY <1>4 DEF o
<1> QED
  BY <1>17, <1>18

\* The scalar field: the last revision of a kind is the one that stands last in S.
LEMMA OverlayIs ==
    ASSUME NEW S, Stated(S), NEW o, NEW k, NEW g, Reordered(S, o, k, g), NEW kind \in {"community", "owner"}
    PROVE  LET stands == {i \in DOMAIN S : S[i].kind = kind /\ ~S[i].conflict}
           IN  Overlay(o, kind) =
                 IF stands = {} THEN None ELSE S[CHOOSE i \in stands : \A j \in stands : j <= i].link
<1> DEFINE stands == {i \in DOMAIN S : S[i].kind = kind /\ ~S[i].conflict}
           states == {i \in DOMAIN o : o[i].kind = kind /\ ~o[i].conflict}
<1>0. /\ o \in Seq(SourceRecords) /\ k \in 0 .. Len(o) /\ g \in [1 .. Len(o) -> DOMAIN S]
      /\ \A j \in 1 .. Len(o) : o[j] = S[g[j]] /\ (FillOnly(o[j]) <=> j > k)
      /\ \A i, j \in 1 .. Len(o) : i < j /\ (j <= k \/ i > k) => g[i] < g[j]
      /\ \A i \in DOMAIN S : \E j \in 1 .. Len(o) : g[j] = i
  BY DEF Reordered
<1>1. DOMAIN o = 1 .. Len(o) /\ Len(o) \in Nat /\ DOMAIN S \subseteq Nat
  BY <1>0, LenProperties DEF Stated
<1>2. Overlay(o, kind) = IF states = {} THEN None ELSE o[Max(states)].link
  BY DEF Overlay
<1>3. \A i \in stands : \E j \in states : g[j] = i
  BY <1>0, <1>1
<1>4. \A j \in states : g[j] \in stands /\ j \in 1 .. k /\ o[j] = S[g[j]]
  <2> SUFFICES ASSUME NEW j \in states PROVE g[j] \in stands /\ j \in 1 .. k /\ o[j] = S[g[j]]
    OBVIOUS
  <2>1. j \in 1 .. Len(o) /\ o[j] = S[g[j]] /\ g[j] \in DOMAIN S /\ (FillOnly(o[j]) <=> j > k)
    BY <1>0, <1>1
  <2>2. ~FillOnly(o[j])
    BY DEF FillOnly
  <2>3. j <= k
    BY <1>0, <1>1, <2>1, <2>2
  <2> QED
    BY <1>0, <1>1, <2>1, <2>3
<1>5. stands = {} <=> states = {}
  BY <1>3, <1>4
<1>6. states \subseteq 0 .. Len(o)
  BY <1>1
<1>7. stands \subseteq Nat
  BY <1>1
<1> HIDE DEF stands, states
<1>8. ASSUME states # {} PROVE o[Max(states)].link = S[CHOOSE i \in stands : \A j \in stands : j <= i].link
  <2>1. \E m \in states : \A j \in states : m >= j
    <3>1. \E m \in states : \A j \in states : j <= m
      BY <1>1, <1>6, <1>8, MaxExists
    <3> QED
      BY <1>6, <3>1
  <2> DEFINE m == Max(states)
  <2>2. m \in states /\ \A j \in states : m >= j
    BY <2>1 DEF Max
  <2> HIDE DEF m
  <2>3. \A i \in stands : i <= g[m]
    <3> SUFFICES ASSUME NEW i \in stands PROVE i <= g[m]
      OBVIOUS
    <3>1. PICK j \in states : g[j] = i
      BY <1>3
    <3>2. j \in 1 .. Len(o) /\ m \in 1 .. Len(o) /\ m <= k /\ j <= m /\ g[m] \in Nat
      BY <1>0, <1>1, <1>4, <1>6, <2>2, <3>1
    <3>3. CASE j = m
      BY <3>1, <3>2, <3>3
    <3>4. CASE j < m
      <4>1. g[j] < g[m]
        BY <1>0, <3>2, <3>4
      <4> QED
        BY <1>7, <3>1, <3>2, <4>1
    <3> QED
      BY <3>2, <3>3, <3>4
  <2>4. g[m] \in stands /\ o[m] = S[g[m]]
    BY <1>4, <2>2
  <2> DEFINE c == CHOOSE i \in stands : \A j \in stands : j <= i
  <2>5. c \in stands /\ \A j \in stands : j <= c
    BY <2>3, <2>4
  <2> HIDE DEF c
  <2>6. c = g[m]
    <3>1. c <= g[m] /\ g[m] <= c /\ c \in Nat /\ g[m] \in Nat
      BY <1>7, <2>3, <2>4, <2>5
    <3> QED
      BY <3>1
  <2> QED
    BY <2>4, <2>6 DEF c, m
<1> QED
  BY <1>2, <1>5, <1>8 DEF stands

\* The first source to fill the field is the first that asserts a valid value, and the first
\* that may fill a gap where none does.
LEMMA FirstValidIs ==
    ASSUME NEW S, Stated(S), NEW o, NEW k, NEW g, Reordered(S, o, k, g)
    PROVE  LET asserts == {i \in DOMAIN S : ~FillOnly(S[i]) /\ Valid(S[i].link)}
               fills == {i \in DOMAIN S : FillOnly(S[i]) /\ Valid(S[i].link)}
               first(I) == S[CHOOSE i \in I : \A j \in I : i <= j].link
           IN  FirstValid(o) = IF asserts # {} THEN first(asserts) ELSE first(fills)
<1> DEFINE asserts == {i \in DOMAIN S : ~FillOnly(S[i]) /\ Valid(S[i].link)}
           fills == {i \in DOMAIN S : FillOnly(S[i]) /\ Valid(S[i].link)}
           valid == {i \in DOMAIN o : Valid(o[i].link)}
<1>0. /\ o \in Seq(SourceRecords) /\ k \in 0 .. Len(o) /\ g \in [1 .. Len(o) -> DOMAIN S]
      /\ \A j \in 1 .. Len(o) : o[j] = S[g[j]] /\ (FillOnly(o[j]) <=> j > k)
      /\ \A i, j \in 1 .. Len(o) : i < j /\ (j <= k \/ i > k) => g[i] < g[j]
      /\ \A i \in DOMAIN S : \E j \in 1 .. Len(o) : g[j] = i
  BY DEF Reordered
<1>1. DOMAIN o = 1 .. Len(o) /\ Len(o) \in Nat /\ DOMAIN S \subseteq Nat
  BY <1>0, LenProperties DEF Stated
<1>2. FirstValid(o) = IF valid = {} THEN None ELSE o[Min(valid)].link
  BY DEF FirstValid
<1>3. \A i \in asserts : \E j \in valid : g[j] = i /\ j <= k
  <2> SUFFICES ASSUME NEW i \in asserts PROVE \E j \in valid : g[j] = i /\ j <= k
    OBVIOUS
  <2>1. PICK j \in 1 .. Len(o) : g[j] = i
    BY <1>0
  <2>2. o[j] = S[i] /\ (FillOnly(o[j]) <=> j > k)
    BY <1>0, <2>1
  <2>3. j <= k
    BY <1>0, <1>1, <2>2
  <2> QED
    BY <1>1, <2>1, <2>2, <2>3
<1>4. \A i \in fills : \E j \in valid : g[j] = i /\ j > k
  <2> SUFFICES ASSUME NEW i \in fills PROVE \E j \in valid : g[j] = i /\ j > k
    OBVIOUS
  <2>1. PICK j \in 1 .. Len(o) : g[j] = i
    BY <1>0
  <2>2. o[j] = S[i] /\ (FillOnly(o[j]) <=> j > k)
    BY <1>0, <2>1
  <2> QED
    BY <1>1, <2>1, <2>2
<1>5. \A j \in valid : o[j] = S[g[j]] /\ (IF j <= k THEN g[j] \in asserts ELSE g[j] \in fills)
  <2> SUFFICES ASSUME NEW j \in valid PROVE o[j] = S[g[j]] /\ (IF j <= k THEN g[j] \in asserts ELSE g[j] \in fills)
    OBVIOUS
  <2>1. j \in 1 .. Len(o) /\ o[j] = S[g[j]] /\ g[j] \in DOMAIN S /\ (FillOnly(o[j]) <=> j > k)
    BY <1>0, <1>1
  <2>2. j > k <=> ~(j <= k)
    BY <1>0, <1>1, <2>1
  <2> QED
    BY <2>1, <2>2
<1>6. valid \subseteq 1 .. Len(o) /\ asserts \subseteq Nat /\ fills \subseteq Nat /\ fills # {}
  <2>1. fills # {}
    BY DEF Stated, FillOnly
  <2> QED
    BY <1>1, <2>1
<1>7. valid # {}
  BY <1>4, <1>6
<1> HIDE DEF asserts, fills, valid
<1>8. \E m \in valid : \A j \in valid : m <= j
  <2>1. valid \in SUBSET Nat
    BY <1>6
  <2> QED
    BY <1>7, <2>1, MinExists
<1> DEFINE m == Min(valid)
<1>9. m \in valid /\ \A j \in valid : m <= j
  BY <1>8 DEF Min
<1> HIDE DEF m
<1> DEFINE P == IF asserts # {} THEN asserts ELSE fills
<1>10. P \subseteq Nat /\ g[m] \in P
  <2>1. CASE asserts # {}
    <3>1. m <= k
      <4>1. PICK j \in valid : j <= k
        BY <1>3, <2>1
      <4>2. m <= j /\ m \in Nat /\ j \in Nat /\ k \in Nat
        BY <1>0, <1>1, <1>6, <1>9
      <4> QED
        BY <4>1, <4>2
    <3> QED
      BY <1>5, <1>6, <1>9, <2>1, <3>1
  <2>2. CASE asserts = {}
    BY <1>5, <1>6, <1>9, <2>2
  <2> QED
    BY <2>1, <2>2
<1>11. \A i \in P : g[m] <= i
  <2> SUFFICES ASSUME NEW i \in P PROVE g[m] <= i
    OBVIOUS
  <2>1. PICK j \in valid : g[j] = i /\ (asserts # {} => j <= k) /\ (asserts = {} => m > k)
    <3>1. CASE asserts # {}
      BY <1>3, <3>1
    <3>2. CASE asserts = {}
      <4>1. \A j \in valid : ~(j <= k)
        BY <1>5, <3>2
      <4>2. m \in Nat /\ k \in Nat
        BY <1>0, <1>1, <1>6, <1>9
      <4> QED
        BY <1>4, <1>9, <3>2, <4>1, <4>2
    <3> QED
      BY <3>1, <3>2
  <2>2. j \in 1 .. Len(o) /\ m \in 1 .. Len(o) /\ m <= j /\ g[m] \in Nat /\ i \in Nat
    BY <1>0, <1>1, <1>6, <1>9, <1>10
  <2>3. CASE j = m
    BY <2>1, <2>2, <2>3
  <2>4. CASE m < j
    <3>1. g[m] < g[j]
      BY <1>0, <2>1, <2>2, <2>4
    <3> QED
      BY <2>1, <2>2, <3>1
  <2> QED
    BY <2>2, <2>3, <2>4
<1> DEFINE c == CHOOSE i \in P : \A j \in P : i <= j
<1> HIDE DEF P
<1>12. c \in P /\ \A j \in P : c <= j
  BY <1>10, <1>11
<1>13. c = g[m]
  <2>1. c <= g[m] /\ g[m] <= c /\ c \in Nat /\ g[m] \in Nat
    BY <1>10, <1>11, <1>12
  <2> QED
    BY <2>1
<1>14. FirstValid(o) = S[c].link
  BY <1>2, <1>5, <1>7, <1>9, <1>13 DEF m
<1>15. FirstValid(o) = IF asserts # {} THEN S[CHOOSE i \in asserts : \A j \in asserts : i <= j].link
                       ELSE S[CHOOSE i \in fills : \A j \in fills : i <= j].link
  BY <1>14 DEF c, P
<1> QED
  BY <1>15 DEF asserts, fills

\* Lists without repetition.
Elements(s) == {s[i] : i \in DOMAIN s}

LEMMA JoinedIs ==
    ASSUME NEW list \in Lists, IsInjective(list), NEW w \in Words, NEW ceiling \in Nat
    PROVE  LET r == Joined(list, w, ceiling)
           IN  /\ r \in Lists /\ IsInjective(r)
               /\ Elements(list) \subseteq Elements(r) /\ Elements(r) \subseteq Elements(list) \cup {w}
               /\ Len(list) <= Len(r) /\ Len(r) <= Len(list) + 1
               /\ r = list \/ Len(r) <= ceiling
               /\ Len(list) < ceiling => w \in Elements(r)
<1> DEFINE u == Append(list, w)
<1>1. list \in Seq(Words) /\ Len(list) \in Nat /\ DOMAIN list = 1 .. Len(list)
  BY LenProperties DEF Lists
<1>2. /\ u \in Seq(Words) /\ Len(u) = Len(list) + 1 /\ DOMAIN u = 1 .. Len(list) + 1
      /\ \A j \in 1 .. Len(list) : u[j] = list[j]
      /\ u[Len(list) + 1] = w
  BY <1>1, AppendProperties, LenProperties
<1>3. CASE Contains(list, w)
  <2>1. w \in Elements(list)
    BY <1>1, <1>3 DEF Contains, Elements
  <2>2. Joined(list, w, ceiling) = list
    BY <1>3 DEF Joined
  <2> QED
    BY <1>1, <2>1, <2>2
<1>4. CASE ~Contains(list, w) /\ Len(list) >= ceiling
  <2>1. Joined(list, w, ceiling) = list
    BY <1>4 DEF Joined
  <2> QED
    BY <1>1, <1>4, <2>1
<1>5. CASE ~Contains(list, w) /\ ~(Len(list) >= ceiling)
  <2>1. Joined(list, w, ceiling) = u
    BY <1>5 DEF Joined
  <2>2. \A i \in 1 .. Len(list) : list[i] # w
    BY <1>5 DEF Contains
  <2> HIDE DEF u
  <2>3. \A i \in DOMAIN u : i \in 1 .. Len(list) \/ i = Len(list) + 1
    BY <1>1, <1>2
  <2>4. IsInjective(u)
    BY <1>1, <1>2, <2>2, <2>3 DEF IsInjective
  <2>5. Elements(u) = Elements(list) \cup {w}
    <3>1. \A i \in DOMAIN list : i \in DOMAIN u /\ u[i] = list[i]
      BY <1>1, <1>2
    <3>2. Len(list) + 1 \in DOMAIN u
      BY <1>1, <1>2
    <3> QED
      BY <1>1, <1>2, <2>3, <3>1, <3>2 DEF Elements
  <2> QED
    BY <1>1, <1>2, <1>5, <2>1, <2>4, <2>5 DEF Lists
<1> QED
  BY <1>3, <1>4, <1>5

LEMMA ExtendedIs ==
    ASSUME NEW list \in Lists, IsInjective(list), NEW more \in Lists, NEW ceiling \in Nat
    PROVE  LET r == Extended(list, more, ceiling)
           IN  /\ r \in Lists /\ IsInjective(r)
               /\ Elements(list) \subseteq Elements(r) /\ Elements(r) \subseteq Elements(list) \cup Elements(more)
               /\ r = list \/ Len(r) <= ceiling
               /\ Len(list) + Len(more) <= ceiling => Elements(more) \subseteq Elements(r)
<1>0. Len(more) \in Nat /\ DOMAIN more = 1 .. Len(more) /\ Len(list) \in Nat
      /\ \A i \in 1 .. Len(more) : more[i] \in Words
  BY LenProperties, ElementOfSeq DEF Lists
<1>a. PICK f : ExtendedBy(f, list, more, ceiling)
  BY <1>0, ExtendedRuns
<1>1. /\ f[0] = list /\ Extended(list, more, ceiling) = f[Len(more)]
      /\ \A n \in 1 .. Len(more) : f[n] = Joined(f[n - 1], more[n], ceiling)
  BY <1>a DEF ExtendedBy
<1> DEFINE Upto(n) == {more[i] : i \in 1 .. n}
           Holds(n) == /\ f[n] \in Lists /\ IsInjective(f[n])
                       /\ Elements(list) \subseteq Elements(f[n])
                       /\ Elements(f[n]) \subseteq Elements(list) \cup Upto(n)
                       /\ Len(f[n]) <= Len(list) + n
                       /\ f[n] = list \/ Len(f[n]) <= ceiling
                       /\ Len(list) + Len(more) <= ceiling => Upto(n) \subseteq Elements(f[n])
           G == {n \in Nat : n <= Len(more) => Holds(n)}
<1>2. Holds(0)
  <2>1. Upto(0) = {}
    OBVIOUS
  <2> QED
    BY <1>0, <1>1, <2>1
<1>3. ASSUME NEW n \in Nat, n < Len(more), Holds(n) PROVE Holds(n + 1)
  <2>0. n + 1 \in 1 .. Len(more) /\ (n + 1) - 1 = n /\ more[n + 1] \in Words
    BY <1>0, <1>3
  <2>1. f[n + 1] = Joined(f[n], more[n + 1], ceiling)
    BY <1>1, <2>0
  <2>2. Upto(n + 1) = Upto(n) \cup {more[n + 1]}
    <3>1. 1 .. n + 1 = (1 .. n) \cup {n + 1}
      OBVIOUS
    <3> QED
      BY <3>1
  <2> HIDE DEF Upto
  <2> DEFINE r == f[n + 1]
  <2>3. /\ r \in Lists /\ IsInjective(r)
        /\ Elements(f[n]) \subseteq Elements(r) /\ Elements(r) \subseteq Elements(f[n]) \cup {more[n + 1]}
        /\ Len(f[n]) <= Len(r) /\ Len(r) <= Len(f[n]) + 1
        /\ r = f[n] \/ Len(r) <= ceiling
        /\ Len(f[n]) < ceiling => more[n + 1] \in Elements(r)
    <3>1. f[n] \in Lists /\ IsInjective(f[n])
      BY <1>3
    <3> QED
      BY <2>0, <2>1, <3>1, JoinedIs
  <2>4. Len(f[n]) \in Nat /\ Len(r) \in Nat
    BY <1>3, <2>3, LenProperties DEF Lists
  <2>5. Len(r) <= Len(list) + (n + 1)
    BY <1>0, <1>3, <2>3, <2>4
  <2>6. Len(list) + Len(more) <= ceiling => Upto(n + 1) \subseteq Elements(r)
    BY <1>0, <1>3, <2>2, <2>3, <2>4
  <2> QED
    BY <1>3, <2>2, <2>3, <2>5, <2>6
<1>4. Len(more) \in G
  <2>1. 0 \in G
    BY <1>2
  <2>2. ASSUME NEW n \in Nat, n < Len(more), n \in G PROVE n + 1 \in G
    <3>1. n <= Len(more) => Holds(n)
      BY <2>2
    <3>2. n <= Len(more) /\ n + 1 \in Nat
      BY <1>0, <2>2
    <3> HIDE DEF Holds
    <3> QED
      BY <1>3, <2>2, <3>1, <3>2
  <2> HIDE DEF G
  <2> QED
    BY <1>0, <2>1, <2>2, Counting
<1>5. Holds(Len(more))
  BY <1>0, <1>4
<1>6. Upto(Len(more)) = Elements(more)
  BY <1>0 DEF Elements
<1> QED
  BY <1>1, <1>5, <1>6

\* No repetition: as many elements as positions.
LEMMA CountedOnce ==
    ASSUME NEW list \in Lists, IsInjective(list)
    PROVE  IsFiniteSet(Elements(list)) /\ Cardinality(Elements(list)) = Len(list)
<1>1. Len(list) \in Nat /\ DOMAIN list = 1 .. Len(list) /\ list \in [1 .. Len(list) -> Words]
  BY LenProperties DEF Lists
<1>2. list \in Bijection(1 .. Len(list), Elements(list))
  <2>1. list \in [1 .. Len(list) -> Elements(list)]
    BY <1>1 DEF Elements
  <2>2. \A a, b \in 1 .. Len(list) : list[a] = list[b] => a = b
    BY <1>1 DEF IsInjective
  <2>3. \A w \in Elements(list) : \E i \in 1 .. Len(list) : list[i] = w
    BY <1>1 DEF Elements
  <2> QED
    BY <2>1, <2>2, <2>3 DEF Bijection, Injection, Surjection, IsInjective
<1> QED
  BY <1>1, <1>2, FS_CountingElements, FS_NatBijection DEF ExistsBijection

\* The list: what the asserting sources declare, and what may fill it.
WordsAt(S, I) == UNION {Elements(S[i].words) : i \in I}

LEMMA MergedIs ==
    ASSUME NEW list \in Lists, IsInjective(list), NEW s \in SourceRecords
    PROVE  LET r == Merged(list, s)
           IN  /\ r \in Lists /\ IsInjective(r)
               /\ Elements(list) \subseteq Elements(r)
               /\ Elements(r) \subseteq Elements(list) \cup Elements(s.words)
               /\ ~FillOnly(s) => Elements(r) = Elements(list) \cup Elements(s.words)
               /\ FillOnly(s) /\ Len(list) >= Floor => r = list
               /\ FillOnly(s) /\ list # <<>> => r = list \/ Len(r) <= Ceiling
<1> DEFINE w == s.words
           both == Len(list) + Len(w)
<1>1. w \in Lists /\ Len(w) \in Nat /\ Len(list) \in Nat /\ both \in Nat /\ both <= both
  BY LenProperties DEF SourceRecords, Lists
<1>2. /\ MergeLists(list, w) \in Lists /\ IsInjective(MergeLists(list, w))
      /\ Elements(MergeLists(list, w)) = Elements(list) \cup Elements(w)
  BY <1>1, ExtendedIs DEF MergeLists
<1>3. Ceiling \in Nat /\ Floor \in Nat \ {0}
  BY MergeAssumption
<1>4. LET r == Extended(list, w, Ceiling)
      IN  /\ r \in Lists /\ IsInjective(r)
          /\ Elements(list) \subseteq Elements(r) /\ Elements(r) \subseteq Elements(list) \cup Elements(w)
          /\ r = list \/ Len(r) <= Ceiling
  BY <1>1, <1>3, ExtendedIs
<1>5. Len(<<>>) = 0
  OBVIOUS
<1>6. CASE ~FillOnly(s)
  <2>1. Merged(list, s) = MergeLists(list, w)
    BY <1>6 DEF Merged
  <2> QED
    BY <1>2, <1>6, <2>1
<1>7. CASE FillOnly(s)
  <2>1. Merged(list, s) = FillWords(list, w)
    BY <1>7 DEF Merged
  <2>2. CASE list = <<>>
    <3>1. FillWords(list, w) = MergeLists(list, w) /\ ~(Len(list) >= Floor)
      BY <1>3, <1>5, <2>2 DEF FillWords
    <3> QED
      BY <1>2, <1>7, <2>1, <2>2, <3>1
  <2>3. CASE list # <<>> /\ Len(list) >= Floor
    <3>1. FillWords(list, w) = list
      BY <2>3 DEF FillWords
    <3> QED
      BY <1>7, <2>1, <3>1
  <2>4. CASE list # <<>> /\ ~(Len(list) >= Floor)
    <3>1. FillWords(list, w) = Extended(list, w, Ceiling)
      BY <2>4 DEF FillWords
    <3> QED
      BY <1>4, <1>7, <2>1, <2>4, <3>1
  <2> QED
    BY <2>2, <2>3, <2>4
<1> QED
  BY <1>6, <1>7

LEMMA WordsAre ==
    ASSUME NEW S, Stated(S), NEW o, NEW k, NEW g, Reordered(S, o, k, g)
    PROVE  LET r == MergeWords(o)
               asserted == WordsAt(S, DOMAIN S \ Fills(S))
           IN  /\ r \in Lists /\ IsInjective(r)
               /\ asserted \subseteq Elements(r) /\ Elements(r) \subseteq asserted \cup WordsAt(S, Fills(S))
               /\ Cardinality(asserted) >= Floor => Elements(r) = asserted
               /\ asserted # {} /\ Len(r) > Cardinality(asserted) => Len(r) <= Ceiling
<1>0. /\ o \in Seq(SourceRecords) /\ k \in 0 .. Len(o) /\ g \in [1 .. Len(o) -> DOMAIN S]
      /\ \A j \in 1 .. Len(o) : o[j] = S[g[j]] /\ (FillOnly(o[j]) <=> j > k)
      /\ \A i \in DOMAIN S : \E j \in 1 .. Len(o) : g[j] = i
  BY DEF Reordered
<1>1. Len(o) \in Nat /\ \A j \in 1 .. Len(o) : o[j] \in SourceRecords
  BY <1>0, LenProperties, ElementOfSeq
<1>2. PICK f : MergedBy(f, o)
  BY <1>1, MergeRuns
<1>3. /\ f[0] = <<>> /\ MergeWords(o) = f[Len(o)]
      /\ \A n \in 1 .. Len(o) : f[n] = Merged(f[n - 1], o[n])
  BY <1>2 DEF MergedBy
<1> DEFINE At(n) == Elements(o[n].words)
           Upto(n) == UNION {At(j) : j \in 1 .. n}
           Declared(n) == f[n] \in Lists /\ IsInjective(f[n]) /\ Elements(f[n]) = Upto(n)
           G == {n \in Nat : n <= k => Declared(n)}
<1>4. Declared(0)
  <2>1. 1 .. 0 = {}
    OBVIOUS
  <2>2. Upto(0) = {} /\ Elements(<<>>) = {} /\ <<>> \in Lists /\ IsInjective(<<>>)
    BY <2>1 DEF Elements, Lists, IsInjective
  <2> QED
    BY <1>3, <2>2
<1>5. ASSUME NEW n \in Nat, n < k, Declared(n) PROVE Declared(n + 1)
  <2>1. n + 1 \in 1 .. Len(o) /\ (n + 1) - 1 = n /\ ~(n + 1 > k)
    BY <1>0, <1>1, <1>5
  <2>2. f[n + 1] = Merged(f[n], o[n + 1]) /\ ~FillOnly(o[n + 1])
    BY <1>0, <1>3, <2>1
  <2>3. Upto(n + 1) = Upto(n) \cup At(n + 1)
    <3>1. 1 .. n + 1 = (1 .. n) \cup {n + 1}
      OBVIOUS
    <3> QED
      BY <3>1
  <2> HIDE DEF Upto
  <2>4. o[n + 1] \in SourceRecords
    BY <1>1, <2>1
  <2> QED
    BY <1>5, <2>2, <2>3, <2>4, MergedIs
<1>6. Declared(k)
  <2>1. 0 \in G
    BY <1>4
  <2>2. ASSUME NEW n \in Nat, n < k, n \in G PROVE n + 1 \in G
    <3>1. n <= k => Declared(n)
      BY <2>2
    <3>2. n <= k /\ n + 1 \in Nat
      BY <1>0, <2>2
    <3> HIDE DEF Declared
    <3> QED
      BY <1>5, <2>2, <3>1, <3>2
  <2>3. k \in G
    <3> HIDE DEF G
    <3> QED
      BY <1>0, <2>1, <2>2, Counting
  <2>4. k \in Nat /\ k <= k
    BY <1>0, <1>1
  <2> HIDE DEF Declared
  <2> QED
    BY <2>3, <2>4
<1> DEFINE L == f[k]
           After(n) == UNION {At(j) : j \in k + 1 .. n}
           Filled(n) == /\ f[n] \in Lists /\ IsInjective(f[n])
                        /\ Elements(L) \subseteq Elements(f[n]) /\ Elements(f[n]) \subseteq Elements(L) \cup After(n)
                        /\ Len(L) >= Floor => f[n] = L
                        /\ L # <<>> => f[n] = L \/ Len(f[n]) <= Ceiling
           H == {n \in Nat : n <= Len(o) => n < k \/ Filled(n)}
<1>7. Filled(k)
  BY <1>6
<1>8. ASSUME NEW n \in Nat, n < Len(o), ~(n < k), Filled(n) PROVE Filled(n + 1)
  <2>1. n + 1 \in 1 .. Len(o) /\ (n + 1) - 1 = n /\ n + 1 > k
    BY <1>0, <1>1, <1>8
  <2>2. f[n + 1] = Merged(f[n], o[n + 1]) /\ FillOnly(o[n + 1])
    BY <1>0, <1>3, <2>1
  <2>3. After(n + 1) = After(n) \cup At(n + 1)
    <3>1. k + 1 .. n + 1 = (k + 1 .. n) \cup {n + 1}
      BY <1>0, <1>1, <2>1
    <3> QED
      BY <3>1
  <2> HIDE DEF After
  <2>4. o[n + 1] \in SourceRecords
    BY <1>1, <2>1
  <2> DEFINE r == f[n + 1]
  <2>5. /\ r \in Lists /\ IsInjective(r)
        /\ Elements(f[n]) \subseteq Elements(r)
        /\ Elements(r) \subseteq Elements(f[n]) \cup At(n + 1)
        /\ Len(f[n]) >= Floor => r = f[n]
        /\ f[n] # <<>> => r = f[n] \/ Len(r) <= Ceiling
    BY <1>8, <2>2, <2>4, MergedIs
  <2>6. L # <<>> => f[n] # <<>>
    <3>1. ASSUME L # <<>> PROVE Elements(L) # {}
      <4>1. L \in Seq(Words) /\ Len(L) \in Nat /\ DOMAIN L = 1 .. Len(L)
        BY <1>6, LenProperties DEF Lists
      <4>2. Len(L) # 0
        BY <3>1, <4>1, EmptySeq
      <4>3. 1 \in DOMAIN L
        BY <4>1, <4>2
      <4> QED
        BY <4>3 DEF Elements
    <3>2. Elements(<<>>) = {}
      BY DEF Elements
    <3> QED
      BY <1>8, <3>1, <3>2
  <2>7. Len(L) >= Floor => r = L
    BY <1>8, <2>5
  <2>8. L # <<>> => r = L \/ Len(r) <= Ceiling
    BY <1>8, <2>5, <2>6
  <2> QED
    BY <1>8, <2>3, <2>5, <2>7, <2>8
<1>9. Filled(Len(o))
  <2>0. k \in Nat /\ k <= Len(o)
    BY <1>0, <1>1
  <2> HIDE DEF Filled
  <2>1. 0 \in H
    BY <1>7, <2>0
  <2>2. ASSUME NEW n \in Nat, n < Len(o), n \in H PROVE n + 1 \in H
    <3>1. n <= Len(o) => n < k \/ Filled(n)
      BY <2>2
    <3>2. n <= Len(o) /\ n + 1 \in Nat
      BY <1>1, <2>2
    <3>3. CASE n < k
      <4>1. n + 1 < k \/ n + 1 = k
        BY <2>0, <3>3
      <4> QED
        BY <1>7, <3>2, <4>1
    <3>4. CASE ~(n < k)
      BY <1>8, <2>2, <3>1, <3>2, <3>4
    <3> QED
      BY <3>3, <3>4
  <2>3. Len(o) \in H
    <3> HIDE DEF H
    <3> QED
      BY <1>1, <2>1, <2>2, Counting
  <2> QED
    BY <1>1, <2>0, <2>3
<1>10. Upto(k) = WordsAt(S, DOMAIN S \ Fills(S))
  <2>1. \A j \in 1 .. k : j \in 1 .. Len(o) /\ ~(j > k)
    BY <1>0, <1>1
  <2>2. \A j \in 1 .. k : o[j] = S[g[j]] /\ g[j] \in DOMAIN S \ Fills(S)
    BY <1>0, <2>1 DEF Fills
  <2>3. \A i \in DOMAIN S \ Fills(S) : \E j \in 1 .. k : g[j] = i /\ o[j] = S[i]
    <3> SUFFICES ASSUME NEW i \in DOMAIN S \ Fills(S) PROVE \E j \in 1 .. k : g[j] = i /\ o[j] = S[i]
      OBVIOUS
    <3>1. PICK j \in 1 .. Len(o) : g[j] = i
      BY <1>0
    <3>2. o[j] = S[i] /\ ~(j > k)
      BY <1>0, <3>1 DEF Fills
    <3>3. j \in 1 .. k
      BY <1>0, <1>1, <3>2
    <3> QED
      BY <3>1, <3>2, <3>3
  <2>4. Upto(k) \subseteq WordsAt(S, DOMAIN S \ Fills(S))
    BY <2>2, Zenon DEF WordsAt
  <2>5. WordsAt(S, DOMAIN S \ Fills(S)) \subseteq Upto(k)
    BY <2>3, Zenon DEF WordsAt
  <2> QED
    BY <2>4, <2>5
<1>11. After(Len(o)) \subseteq WordsAt(S, Fills(S))
  <2>1. \A j \in k + 1 .. Len(o) : j \in 1 .. Len(o) /\ j > k
    BY <1>0, <1>1
  <2>2. \A j \in k + 1 .. Len(o) : o[j] = S[g[j]] /\ g[j] \in Fills(S)
    BY <1>0, <2>1 DEF Fills
  <2> QED
    BY <2>2, Zenon DEF WordsAt
<1> DEFINE asserted == WordsAt(S, DOMAIN S \ Fills(S))
           r == MergeWords(o)
<1>12. Elements(L) = asserted
  BY <1>6, <1>10
<1>13. L \in Lists /\ IsInjective(L)
  BY <1>6
<1> HIDE DEF asserted, Upto, After, At, L
<1>14. Cardinality(asserted) = Len(L) /\ Len(L) \in Nat
  BY <1>12, <1>13, CountedOnce, LenProperties DEF Lists
<1>15. asserted # {} => L # <<>>
  BY <1>12 DEF Elements
<1>16. /\ r \in Lists /\ IsInjective(r)
       /\ asserted \subseteq Elements(r) /\ Elements(r) \subseteq asserted \cup WordsAt(S, Fills(S))
       /\ Len(L) >= Floor => r = L
       /\ L # <<>> => r = L \/ Len(r) <= Ceiling
  BY <1>3, <1>9, <1>11, <1>12
<1> HIDE DEF r
<1>17. Cardinality(asserted) >= Floor => Elements(r) = asserted
  BY <1>12, <1>14, <1>16
<1>18. asserted # {} /\ Len(r) > Cardinality(asserted) => Len(r) <= Ceiling
  BY <1>14, <1>15, <1>16
<1> QED
  BY <1>16, <1>17, <1>18 DEF asserted, r

LEMMA Apart == Cleared # None /\ None \notin Urls /\ Cleared \notin Urls /\ Bad \notin Urls /\ Talk \in Urls
<1>1. {Bad, None, Cleared} \cap Urls = {} /\ Talk \in Urls
  BY MergeAssumption
<1>2. Cleared # None
  <2> SUFFICES ASSUME Cleared = None PROVE FALSE
    OBVIOUS
  <2>1. {Bad, None, Cleared} = {Bad, None}
    OBVIOUS
  <2>2. Cardinality({Bad, None}) <= 2 /\ Cardinality({Bad, None, Cleared}) = 3
    <3>1. {Bad, None} = {Bad} \cup {None}
      OBVIOUS
    <3>2. Cardinality({Bad}) = 1 /\ IsFiniteSet({Bad})
      BY FS_Singleton
    <3>3. Cardinality({Bad} \cup {None}) = IF None \in {Bad} THEN 1 ELSE 1 + 1
      BY <3>2, FS_AddElement
    <3> QED
      BY <3>1, <3>3, MergeAssumption
  <2> QED
    BY <2>1, <2>2
<1> QED
  BY <1>1, <1>2

\* What _assemble makes of sources as they are listed is what Agrees asks.
LEMMA AssembledAgrees ==
    ASSUME NEW S, Stated(S), NEW link, NEW list, link = Assemble(S).link, list = Assemble(S).words
    PROVE  Agrees(S, link, list) /\ link \in Urls \cup {None} /\ list \in Lists
<1> DEFINE o == Ordered(S)
           said(kinds) == {i \in DOMAIN S : S[i].kind \in kinds}
           valid(kinds) == {i \in said(kinds) : Valid(S[i].link)}
           stands == {i \in said({"owner"}) : ~S[i].conflict}
           last(I) == S[CHOOSE i \in I : \A j \in I : j <= i].link
           first(I) == S[CHOOSE i \in I : \A j \in I : i <= j].link
           asserts == {"record", "item", "report", "community", "owner"}
           words(kinds) == UNION {{S[i].words[n] : n \in DOMAIN S[i].words} : i \in said(kinds)}
<1>0. PICK k, g : Reordered(S, o, k, g)
  BY OrderedAre
<1>1. Overlay(o, "owner") = IF stands = {} THEN None ELSE last(stands)
  <2> DEFINE mine == {i \in DOMAIN S : S[i].kind = "owner" /\ ~S[i].conflict}
  <2>1. Overlay(o, "owner") = IF mine = {} THEN None ELSE S[CHOOSE i \in mine : \A j \in mine : j <= i].link
    <3> HIDE DEF o
    <3> QED
      BY <1>0, OverlayIs
  <2>2. mine = stands
    OBVIOUS
  <2> HIDE DEF mine, stands, o
  <2> QED
    BY <2>1, <2>2
<1>2. Overlay(o, "community") = IF valid({"community"}) = {} THEN None ELSE last(valid({"community"}))
  <2> DEFINE theirs == {i \in DOMAIN S : S[i].kind = "community" /\ ~S[i].conflict}
  <2>1. Overlay(o, "community") = IF theirs = {} THEN None ELSE S[CHOOSE i \in theirs : \A j \in theirs : j <= i].link
    <3> HIDE DEF o
    <3> QED
      BY <1>0, OverlayIs
  <2>2. theirs = valid({"community"})
    BY DEF Stated
  <2> DEFINE v == valid({"community"})
  <2> HIDE DEF theirs, v, o
  <2>3. Overlay(o, "community") = IF v = {} THEN None ELSE last(v)
    BY <2>1, <2>2 DEF v
  <2> QED
    BY <2>3 DEF v
<1>3. FirstValid(o) = IF valid(asserts) # {} THEN first(valid(asserts)) ELSE first(valid({"talk"}))
  <2> DEFINE these == {i \in DOMAIN S : ~FillOnly(S[i]) /\ Valid(S[i].link)}
             fills == {i \in DOMAIN S : FillOnly(S[i]) /\ Valid(S[i].link)}
             va == valid(asserts)
             vt == valid({"talk"})
  <2>1. FirstValid(o) = IF these # {} THEN S[CHOOSE i \in these : \A j \in these : i <= j].link
                        ELSE S[CHOOSE i \in fills : \A j \in fills : i <= j].link
    <3> HIDE DEF o
    <3> QED
      BY <1>0, FirstValidIs
  <2>2. \A i \in DOMAIN S : S[i] \in SourceRecords
    BY LenProperties, ElementOfSeq DEF Stated
  <2>3. these = va
    BY <2>2 DEF FillOnly, SourceRecords
  <2>4. fills = vt
    BY DEF FillOnly, Stated
  <2> HIDE DEF these, fills, va, vt, o
  <2>5. FirstValid(o) = IF va # {} THEN first(va) ELSE first(vt)
    BY <2>1, <2>3, <2>4
  <2> QED
    BY <2>5 DEF va, vt
<1>4. stands # {} => last(stands) \in Urls \cup {Cleared}
  <2>1. stands \subseteq 0 .. Len(S) /\ Len(S) \in Nat /\ DOMAIN S = 1 .. Len(S)
    BY LenProperties DEF Stated
  <2>2. \A i \in stands : S[i].link \in Urls \cup {Cleared}
    BY DEF Stated
  <2> HIDE DEF stands
  <2>3. ASSUME stands # {} PROVE last(stands) \in Urls \cup {Cleared}
    <3>1. PICK m \in stands : \A j \in stands : j <= m
      BY <2>1, <2>3, MaxExists
    <3> DEFINE c == CHOOSE i \in stands : \A j \in stands : j <= i
    <3>2. c \in stands
      BY <3>1
    <3> HIDE DEF c
    <3>3. S[c].link \in Urls \cup {Cleared}
      BY <2>2, <3>2
    <3> QED
      BY <3>3 DEF c
  <2> QED
    BY <2>3
<1>5. valid({"community"}) # {} => last(valid({"community"})) \in Urls
  <2> DEFINE v == valid({"community"})
  <2>1. v \subseteq 0 .. Len(S) /\ Len(S) \in Nat /\ DOMAIN S = 1 .. Len(S)
    BY LenProperties DEF Stated
  <2>2. \A i \in v : S[i].link \in Urls
    BY DEF Valid
  <2> HIDE DEF v
  <2>3. ASSUME v # {} PROVE last(v) \in Urls
    <3>1. PICK m \in v : \A j \in v : j <= m
      BY <2>1, <2>3, MaxExists
    <3> DEFINE c == CHOOSE i \in v : \A j \in v : j <= i
    <3>2. c \in v
      BY <3>1
    <3> HIDE DEF c
    <3>3. S[c].link \in Urls
      BY <2>2, <3>2
    <3> QED
      BY <3>3 DEF c
  <2> QED
    BY <2>3 DEF v
<1>6. None \notin Urls \cup {Cleared}
  BY Apart
<1>7. link = IF stands # {} THEN IF last(stands) = Cleared THEN None ELSE last(stands)
               ELSE IF valid({"community"}) # {} THEN last(valid({"community"}))
               ELSE IF valid(asserts) # {} THEN first(valid(asserts))
               ELSE first(valid({"talk"}))
  <2> DEFINE lo == last(stands)
             vc == valid({"community"})
             lc == last(vc)
             fv == FirstValid(o)
             os == Overlay(o, "owner")
             oc == Overlay(o, "community")
  <2>1. link = IF os # None THEN IF os = Cleared THEN None ELSE os
                 ELSE IF oc # None THEN oc ELSE fv
    BY DEF Assemble, Assembled
  <2>2. /\ os = (IF stands = {} THEN None ELSE lo)
        /\ oc = (IF vc = {} THEN None ELSE lc)
        /\ stands # {} => lo # None
        /\ vc # {} => lc # None
    <3>1. os = (IF stands = {} THEN None ELSE lo)
      BY <1>1, Zenon
    <3>2. oc = (IF vc = {} THEN None ELSE lc)
      BY <1>2, Zenon
    <3>3. stands # {} => lo # None
      <4> HIDE DEF lo
      <4>1. stands # {} => lo \in Urls \cup {Cleared}
        BY <1>4, Zenon DEF lo
      <4> QED
        BY <1>6, <4>1
    <3>4. vc # {} => lc # None
      <4> HIDE DEF lc
      <4>1. vc # {} => lc \in Urls
        BY <1>5, Zenon DEF lc
      <4> QED
        BY <1>6, <4>1
    <3> QED
      BY <3>1, <3>2, <3>3, <3>4, Zenon
  <2>3. fv = IF valid(asserts) # {} THEN first(valid(asserts)) ELSE first(valid({"talk"}))
    BY <1>3, Zenon
  <2> HIDE DEF os, oc, stands
  <2> DEFINE va == valid(asserts)
             fa == first(valid(asserts))
             ft == first(valid({"talk"}))
  <2>4. fv = IF va # {} THEN fa ELSE ft
    BY <2>3, Zenon
  <2> HIDE DEF fv, lo, lc, vc, va, fa, ft
  <2>5. link = IF stands # {} THEN IF lo = Cleared THEN None ELSE lo
                 ELSE IF vc # {} THEN lc ELSE IF va # {} THEN fa ELSE ft
    BY <2>1, <2>2, <2>4
  <2> QED
    BY <2>5, Zenon DEF lo, lc, vc, va, fa, ft
<1>15. link \in Urls \cup {None}
  <2> DEFINE os == Overlay(o, "owner")
             oc == Overlay(o, "community")
             fv == FirstValid(o)
  <2>1. link = IF os # None THEN IF os = Cleared THEN None ELSE os
               ELSE IF oc # None THEN oc ELSE fv
    BY DEF Assemble, Assembled
  <2>2. os \in Urls \cup {Cleared, None}
    <3> HIDE DEF stands, last
    <3> QED
      BY <1>1, <1>4
  <2>3. oc \in Urls \cup {None}
    <3> HIDE DEF valid, last
    <3> QED
      BY <1>2, <1>5
  <2>4. fv \in Urls \cup {None}
    <3> DEFINE v == {i \in DOMAIN o : Valid(o[i].link)}
    <3>1. v \in SUBSET Nat
      BY <1>0, LenProperties DEF Reordered
    <3>2. fv = IF v = {} THEN None ELSE o[Min(v)].link
      BY DEF FirstValid
    <3>3. \A i \in v : o[i].link \in Urls
      BY DEF Valid
    <3> HIDE DEF v, fv, o
    <3>4. ASSUME v # {} PROVE Min(v) \in v
      <4>1. \E m \in v : \A n \in v : m <= n
        BY <3>1, <3>4, MinExists
      <4> QED
        BY <4>1 DEF Min
    <3> QED
      BY <3>2, <3>3, <3>4
  <2> HIDE DEF os, oc, fv
  <2> QED
    BY <2>1, <2>2, <2>3, <2>4
<1>8. words(asserts) = WordsAt(S, DOMAIN S \ Fills(S))
  <2>1. \A i \in DOMAIN S : S[i] \in SourceRecords
    BY LenProperties, ElementOfSeq DEF Stated
  <2>2. said(asserts) = DOMAIN S \ Fills(S)
    BY <2>1 DEF Fills, FillOnly, SourceRecords
  <2> DEFINE I == said(asserts)
  <2> HIDE DEF I
  <2> QED
    BY <2>2, Zenon DEF WordsAt, Elements, I
<1>9. WordsAt(S, DOMAIN S \ Fills(S)) \cup WordsAt(S, Fills(S)) \subseteq words(asserts \cup {"inference"})
  <2>1. \A i \in DOMAIN S : S[i] \in SourceRecords
    BY LenProperties, ElementOfSeq DEF Stated
  <2>2. ASSUME NEW i \in Fills(S) PROVE i \in said(asserts \cup {"inference"}) \/ DOMAIN S[i].words = {}
    BY DEF Fills, FillOnly, Stated
  <2>3. ASSUME NEW i \in DOMAIN S \ Fills(S) PROVE i \in said(asserts \cup {"inference"})
    BY <2>1 DEF Fills, FillOnly, SourceRecords
  <2> DEFINE I == said(asserts \cup {"inference"})
  <2> HIDE DEF I
  <2>4. WordsAt(S, DOMAIN S \ Fills(S)) \subseteq WordsAt(S, I)
    BY <2>3, Zenon DEF WordsAt, I
  <2>5. WordsAt(S, Fills(S)) \subseteq WordsAt(S, I)
    BY <2>2 DEF WordsAt, Elements, I
  <2>6. WordsAt(S, I) = words(asserts \cup {"inference"})
    BY Zenon DEF WordsAt, Elements, I
  <2> QED
    BY <2>4, <2>5, <2>6
<1>10. list = MergeWords(o)
  BY DEF Assemble, Assembled
<1>11. /\ list \in Lists /\ IsInjective(list)
       /\ words(asserts) \subseteq Elements(list)
       /\ Elements(list) \subseteq words(asserts \cup {"inference"})
       /\ Cardinality(words(asserts)) >= Floor => Elements(list) = words(asserts)
       /\ words(asserts) # {} /\ Len(list) > Cardinality(words(asserts)) => Len(list) <= Ceiling
  <2> DEFINE a == WordsAt(S, DOMAIN S \ Fills(S))
             m == MergeWords(o)
  <2>1. /\ m \in Lists /\ IsInjective(m)
        /\ a \subseteq Elements(m) /\ Elements(m) \subseteq a \cup WordsAt(S, Fills(S))
        /\ Cardinality(a) >= Floor => Elements(m) = a
        /\ a # {} /\ Len(m) > Cardinality(a) => Len(m) <= Ceiling
    <3> HIDE DEF o
    <3> QED
      BY <1>0, WordsAre
  <2> DEFINE wa == words(asserts)
             wi == words(asserts \cup {"inference"})
  <2>2. wa = a /\ a \cup WordsAt(S, Fills(S)) \subseteq wi /\ list = m
    BY <1>8, <1>9, <1>10
  <2> HIDE DEF wa, wi, a, m
  <2>3. /\ list \in Lists /\ IsInjective(list)
        /\ wa \subseteq Elements(list) /\ Elements(list) \subseteq wi
        /\ Cardinality(wa) >= Floor => Elements(list) = wa
        /\ wa # {} /\ Len(list) > Cardinality(wa) => Len(list) <= Ceiling
    BY <2>1, <2>2
  <2> QED
    BY <2>3 DEF wa, wi
<1> DEFINE shown == {list[i] : i \in DOMAIN list}
<1>12. Elements(list) = shown
  BY DEF Elements
<1>13. /\ words(asserts) \subseteq shown
       /\ shown \subseteq words(asserts \cup {"inference"})
       /\ Cardinality(words(asserts)) >= Floor =>
              shown = words(asserts)
       /\ IsInjective(list)
       /\ words(asserts) # {} /\ Len(list) > Cardinality(words(asserts)) => Len(list) <= Ceiling
  BY <1>11, <1>12, Zenon
<1>14. Agrees(S, link, list)
  BY <1>7, <1>13, Zenon DEF Agrees
<1> QED
  BY <1>11, <1>15, <1>14

\* Sources lists them so, whatever is known of the tool.
GoodSources ==
    {s \in SourceRecords :
        /\ s.kind = "community" => Valid(s.link) /\ ~s.conflict
        /\ s.kind = "owner" => s.link \in Urls \cup {Cleared}
        /\ s.kind = "talk" => s.words = <<>>
        /\ s.kind = "inference" => ~Valid(s.link)}

LEMMA SourceIsGood ==
    ASSUME NEW kind \in {"record", "item", "report", "talk", "inference"}, NEW link \in Links, NEW words \in Lists,
           kind = "talk" => words = <<>>, kind = "inference" => ~Valid(link)
    PROVE  <<Source(kind, link, words)>> \in Seq(GoodSources) /\ Len(<<Source(kind, link, words)>>) = 1
<1>1. Source(kind, link, words) \in GoodSources
  BY DEF Source, GoodSources, SourceRecords
<1> QED
  BY <1>1

\* The order of reports: by the moment of their review, then by number.
Before(t, j, i) == t[j] < t[i] \/ (t[j] = t[i] /\ j <= i)

LEMMA LatestExists ==
    ASSUME NEW m \in Nat, NEW A \in SUBSET (1 .. m), A # {}, NEW t \in [1 .. m -> Nat]
    PROVE  \E i \in A : \A j \in A : Before(t, j, i)
<1> DEFINE Upto(n) == {i \in A : i <= n}
           G == {n \in Nat : n <= m => Upto(n) = {} \/ \E i \in Upto(n) : \A j \in Upto(n) : Before(t, j, i)}
<1>0. \A i \in A : i \in Nat /\ 1 <= i /\ i <= m
  OBVIOUS
<1>1. 0 \in G
  <2>0. \A i \in A : ~(i <= 0)
    BY <1>0
  <2>1. Upto(0) = {}
    BY <2>0
  <2> QED
    BY <2>1
<1>2. ASSUME NEW n \in Nat, n < m, n \in G PROVE n + 1 \in G
  <2>0. n + 1 \in Nat /\ n + 1 \in 1 .. m
    BY <1>2
  <2>a. \A i \in A : (i <= n + 1 <=> i <= n \/ i = n + 1) /\ i \in 1 .. m
    BY <1>0
  <2>1. Upto(n) = {} \/ \E i \in Upto(n) : \A j \in Upto(n) : Before(t, j, i)
    BY <1>2
  <2>2. CASE n + 1 \notin A
    <3>1. Upto(n + 1) = Upto(n)
      BY <2>2, <2>a
    <3> QED
      BY <2>0, <2>1, <3>1
  <2>3. CASE n + 1 \in A
    <3>1. Upto(n + 1) = Upto(n) \cup {n + 1} /\ Upto(n) \subseteq 1 .. m
      BY <2>3, <2>a
    <3> DEFINE u == Upto(n)
               v == Upto(n + 1)
    <3> HIDE DEF u, v
    <3>2. \E i \in v : \A j \in v : Before(t, j, i)
      <4>0. v = u \cup {n + 1} /\ u \subseteq 1 .. m
        BY <3>1 DEF u, v
      <4>1. CASE u = {}
        <5>1. t[n + 1] \in Nat /\ v = {n + 1}
          BY <2>0, <4>0, <4>1
        <5> QED
          BY <2>0, <5>1 DEF Before
      <4>2. CASE u # {}
        <5>1. PICK i \in u : \A j \in u : Before(t, j, i)
          BY <2>1, <4>2 DEF u
        <5>2. /\ t[i] \in Nat /\ t[n + 1] \in Nat /\ \A j \in u : t[j] \in Nat
              /\ \A j \in u : j \in Nat /\ j <= n
          BY <2>0, <4>0 DEF u
        <5>3. CASE t[n + 1] < t[i]
          BY <4>0, <5>1, <5>3 DEF Before
        <5>4. CASE t[i] <= t[n + 1]
          <6>1. ASSUME NEW j \in u PROVE Before(t, j, n + 1)
            <7>1. t[j] \in Nat /\ j \in Nat /\ j <= n
              BY <5>2
            <7>2. t[j] <= t[i]
              BY <5>1, <5>2, <7>1 DEF Before
            <7>3. t[j] <= t[n + 1] /\ j <= n + 1
              BY <5>2, <5>4, <7>1, <7>2
            <7> QED
              BY <5>2, <7>1, <7>3 DEF Before
          <6>2. Before(t, n + 1, n + 1) /\ n + 1 \in v
            BY <2>0, <4>0, <5>2 DEF Before
          <6> QED
            BY <4>0, <6>1, <6>2
        <5> QED
          BY <5>2, <5>3, <5>4
      <4> QED
        BY <4>1, <4>2
    <3> QED
      BY <2>0, <3>2 DEF v
  <2> QED
    BY <2>2, <2>3
<1>3. m \in G
  <2> HIDE DEF G
  <2> QED
    BY <1>1, <1>2, Counting
<1>4. Upto(m) = A
  BY <1>0
<1> QED
  BY <1>3, <1>4

LEMMA LatestIs ==
    ASSUME NEW e \in Evidence
    PROVE  LatestReport(e) \in 0 .. Len(e.reports) /\ Len(e.reports) \in Nat
<1> DEFINE m == Len(e.reports)
           A == {i \in DOMAIN e.reports : e.reports[i].status = "approved"}
           t == [i \in 1 .. m |-> e.reports[i].at]
<1>1. e.reports \in Seq(Reports)
  BY DEF Evidence
<1>2. m \in Nat /\ DOMAIN e.reports = 1 .. m
  BY <1>1, LenProperties
<1>3. t \in [1 .. m -> Nat]
  <2>1. \A i \in 1 .. m : e.reports[i] \in Reports
    BY <1>1, ElementOfSeq
  <2> QED
    BY <2>1 DEF Reports
<1>4. A \in SUBSET (1 .. m)
  BY <1>2
<1>5. CASE A = {}
  BY <1>2, <1>5 DEF LatestReport
<1>6. CASE A # {}
  <2>1. \E i \in A : \A j \in A : Before(t, j, i)
    <3> HIDE DEF A, t, m
    <3> QED
      BY <1>2, <1>3, <1>4, <1>6, LatestExists
  <2>2. \E i \in A : \A j \in A :
            e.reports[j].at < e.reports[i].at \/ (e.reports[j].at = e.reports[i].at /\ j <= i)
    BY <1>4, <2>1 DEF Before
  <2>3. LatestReport(e) = CHOOSE i \in A : \A j \in A :
            e.reports[j].at < e.reports[i].at \/ (e.reports[j].at = e.reports[i].at /\ j <= i)
    BY <1>6 DEF LatestReport
  <2> HIDE DEF A
  <2>4. LatestReport(e) \in A
    BY <2>2, <2>3
  <2>5. LatestReport(e) \in 1 .. m
    BY <1>4, <2>4
  <2> QED
    BY <1>2, <2>5
<1> QED
  BY <1>5, <1>6

LEMMA CorrectionsAre ==
    ASSUME NEW e \in Evidence, NEW kind \in {"community", "owner"}
    PROVE  /\ Approved(e, kind) \in Seq(Curations)
           /\ \A i \in DOMAIN Approved(e, kind) : Approved(e, kind)[i].kind = kind
<1> DEFINE s == e.curations
           I == {i \in DOMAIN s : s[i].status = "approved" /\ s[i].kind = kind}
           t == Those(s, I)
<1>1. s \in Seq(Curations) /\ I \in SUBSET DOMAIN s
  BY DEF Evidence
<1>2. PICK g : Taken(t, s, I, Curations, g)
  <2> HIDE DEF s, I
  <2> QED
    BY <1>1, ThoseAre
<1>3. t \in Seq(Curations) /\ DOMAIN t = 1 .. Len(t) /\ \A j \in 1 .. Len(t) : t[j] = s[g[j]] /\ g[j] \in I
  BY <1>2, LenProperties DEF Taken
<1> HIDE DEF t
<1>4. \A j \in DOMAIN t : t[j].kind = kind
  BY <1>3
<1> QED
  BY <1>3, <1>4 DEF Approved, t

LEMMA CorrectionSources ==
    ASSUME NEW e \in Evidence
    PROVE  CurationSources(e) \in Seq(GoodSources) /\ OwnerSources(e) \in Seq(GoodSources)
<1>1. ASSUME NEW kind \in {"community", "owner"}, NEW c \in Curations, c.kind = kind
      PROVE  CurationSource(e, c) \in GoodSources
  <2> DEFINE s == [kind |-> c.kind, link |-> c.link, words |-> <<>>, conflict |-> Conflicts(e, c)]
  <2>1. CurationSource(e, c) = s
    BY DEF CurationSource, Source
  <2>2. Conflicts(e, c) \in BOOLEAN /\ (c.kind = "community" => ~Conflicts(e, c))
    BY DEF Conflicts
  <2>3. c.link \in Urls \cup {Cleared} /\ (c.kind = "community" => c.link \in Urls) /\ <<>> \in Lists
    BY DEF Curations, Lists
  <2>4. s \in SourceRecords
    BY <1>1, <2>2, <2>3 DEF SourceRecords, Links
  <2> QED
    BY <1>1, <2>1, <2>2, <2>3, <2>4 DEF GoodSources, Valid
<1>2. ASSUME NEW kind \in {"community", "owner"}
      PROVE  [i \in DOMAIN Approved(e, kind) |-> CurationSource(e, Approved(e, kind)[i])] \in Seq(GoodSources)
  <2> DEFINE t == Approved(e, kind)
  <2>1. t \in Seq(Curations) /\ \A i \in DOMAIN t : t[i].kind = kind
    BY CorrectionsAre
  <2> HIDE DEF t
  <2>2. Len(t) \in Nat /\ DOMAIN t = 1 .. Len(t) /\ \A i \in 1 .. Len(t) : t[i] \in Curations
    BY <2>1, LenProperties, ElementOfSeq
  <2>3. [i \in 1 .. Len(t) |-> CurationSource(e, t[i])] \in [1 .. Len(t) -> GoodSources]
    BY <1>1, <2>1, <2>2
  <2>4. [i \in 1 .. Len(t) |-> CurationSource(e, t[i])] \in Seq(GoodSources)
    BY <2>2, <2>3, SeqDef
  <2> QED
    BY <2>2, <2>4 DEF t
<1> QED
  BY <1>2 DEF CurationSources, OwnerSources

LEMMA SourcesStated ==
    ASSUME NEW e \in Evidence
    PROVE  Stated(Sources(e))
<1> DEFINE V == GoodSources
           a == <<Source("record", e.link, e.words)>>
           b == DerivedSources
           c == <<Source("item", e.item, <<>>)>>
           d == ReportSources(e)
           f == CurationSources(e)
           h == OwnerSources(e)
           n == InferenceSources(e)
           S == Sources(e)
<1>1. <<>> \in Lists /\ e.link \in Links /\ e.item \in Links /\ e.words \in Lists /\ e.read \in Lists
      /\ e.reports \in Seq(Reports)
  BY DEF Evidence, Lists
<1>2. Talk \in Links /\ None \in Links /\ ~Valid(None) /\ Valid(Talk)
  BY Apart DEF Links, Valid
<1>3. a \in Seq(V) /\ Len(a) = 1
  BY <1>1, SourceIsGood
<1>4. b \in Seq(V) /\ Len(b) = 1
  BY <1>1, <1>2, SourceIsGood DEF DerivedSources
<1>5. c \in Seq(V) /\ Len(c) = 1
  BY <1>1, SourceIsGood
<1>6. d \in Seq(V)
  <2> DEFINE i == LatestReport(e)
  <2>1. CASE i = 0
    <3>1. d = <<>>
      BY <2>1 DEF ReportSources
    <3> QED
      BY <3>1
  <2>2. CASE i # 0
    <3>1. i \in 1 .. Len(e.reports)
      BY <2>2, LatestIs
    <3>2. e.reports[i] \in Reports
      BY <1>1, <3>1, ElementOfSeq
    <3>3. e.reports[i].words \in Lists
      BY <3>2 DEF Reports
    <3>4. d = <<Source("report", None, e.reports[i].words)>>
      BY <2>2 DEF ReportSources
    <3> QED
      BY <1>2, <3>3, <3>4, SourceIsGood
  <2> QED
    BY <2>1, <2>2
<1>7. f \in Seq(V) /\ h \in Seq(V)
  BY CorrectionSources
<1>8. n \in Seq(V)
  BY <1>1, <1>2, SourceIsGood DEF InferenceSources
<1>9. b[1] = Source("talk", Talk, <<>>)
  BY DEF DerivedSources
<1>10. S = a \o b \o c \o d \o f \o h \o n
  BY DEF Sources
<1> HIDE DEF V, a, b, c, d, f, h, n, S
<1>11. a \o b \in Seq(V) /\ Len(a \o b) = 2 /\ (a \o b)[2] = b[1]
  <2>1. /\ a \o b \in Seq(V) /\ Len(a \o b) = Len(a) + Len(b)
        /\ \A i \in 1 .. Len(a) + Len(b) : (a \o b)[i] = IF i <= Len(a) THEN a[i] ELSE b[i - Len(a)]
    BY <1>3, <1>4, ConcatProperties
  <2> QED
    BY <1>3, <1>4, <2>1
<1>12. ASSUME NEW x \in Seq(V), NEW y \in Seq(V), Len(x) >= 2, x[2] = b[1]
       PROVE  x \o y \in Seq(V) /\ Len(x \o y) >= 2 /\ (x \o y)[2] = b[1]
  <2>1. /\ Len(x) \in Nat /\ Len(y) \in Nat /\ x \o y \in Seq(V) /\ Len(x \o y) = Len(x) + Len(y)
        /\ \A i \in 1 .. Len(x) + Len(y) : (x \o y)[i] = IF i <= Len(x) THEN x[i] ELSE y[i - Len(x)]
    BY ConcatProperties, LenProperties
  <2>2. 2 \in 1 .. Len(x) + Len(y) /\ Len(x) + Len(y) >= 2
    BY <1>12, <2>1
  <2> QED
    BY <1>12, <2>1, <2>2
<1>13. a \o b \o c \in Seq(V) /\ Len(a \o b \o c) >= 2 /\ (a \o b \o c)[2] = b[1]
  BY <1>5, <1>11, <1>12
<1>14. a \o b \o c \o d \in Seq(V) /\ Len(a \o b \o c \o d) >= 2 /\ (a \o b \o c \o d)[2] = b[1]
  BY <1>6, <1>12, <1>13
<1>15. a \o b \o c \o d \o f \in Seq(V) /\ Len(a \o b \o c \o d \o f) >= 2 /\ (a \o b \o c \o d \o f)[2] = b[1]
  BY <1>7, <1>12, <1>14
<1>16. a \o b \o c \o d \o f \o h \in Seq(V) /\ Len(a \o b \o c \o d \o f \o h) >= 2 /\ (a \o b \o c \o d \o f \o h)[2] = b[1]
  BY <1>7, <1>12, <1>15
<1>17. S \in Seq(V) /\ Len(S) >= 2 /\ S[2] = b[1]
  BY <1>8, <1>10, <1>12, <1>16
<1>18. Len(S) \in Nat /\ DOMAIN S = 1 .. Len(S) /\ 2 \in DOMAIN S /\ \A i \in DOMAIN S : S[i] \in V
  BY <1>17, LenProperties, ElementOfSeq
<1>19. S \in Seq(SourceRecords)
  <2>1. V \subseteq SourceRecords
    BY DEF V, GoodSources
  <2> QED
    BY <1>17, <2>1, SeqMonotonic
<1>20. S[2].kind = "talk" /\ Valid(S[2].link)
  BY <1>2, <1>9, <1>17 DEF Source
<1>21. S # <<>>
  BY <1>17
<1>22. Stated(S)
  BY <1>18, <1>19, <1>20, <1>21 DEF Stated, V, GoodSources
<1> QED
  BY <1>22 DEF S

----------------------------------------------------------------------------
(***************************************************************************)
(* Projection: what is served                                              *)
(***************************************************************************)
Rows == [status : {"none", "ready", "error"}, provenance : Seq(SourceRecords), report : Nat,
         link : Urls \cup {None}, words : Lists, checked : Urls \cup {None}, at : Nat, waiting : BOOLEAN]
GraphRows == [status : {"none", "error", "enriched", "official_only", "no_metadata"}, facets : SUBSET Words,
              waiting : BOOLEAN]
Where == [at : Steps, evidence : Evidence, row : Rows, now : Nat, link : Urls \cup {None}]

\* Reports are only added, and what one detected stays.
Grown(e, f) ==
    /\ Len(e.reports) <= Len(f.reports)
    /\ \A i \in DOMAIN e.reports : i \in DOMAIN f.reports /\ f.reports[i].libs = e.reports[i].libs

\* A batch in the middle holds evidence that has been.
RowsInv ==
    /\ evidence \in Evidence /\ clock \in 0 .. edits
    /\ edits \in 0 .. MaxEdits /\ faults \in 0 .. MaxFaults
    /\ row \in Rows /\ graph \in GraphRows
    /\ run \in [Procs -> Where] /\ Idle \in Where
    /\ \A p \in Procs : run[p].at = "assemble" => Grown(run[p].evidence, evidence)
    /\ row.report \in 0 .. Len(evidence.reports)
    /\ ~overtaken => FacetsMatch /\ MergeAgrees

LEMMA RowsAsServed ==
    ASSUME RowsInv PROVE RowsAgree
<1>1. evidence.link \in Links /\ evidence.item \in Links
  BY DEF RowsInv, Evidence
<1>2. clock \in 0 .. MaxEdits
  BY ProjectionAssumption DEF RowsInv
<1>3. /\ row.status \in {"none", "ready", "error"} /\ row.link \in Urls \cup {None}
      /\ row.checked \in Urls \cup {None}
      /\ graph.status \in {"none", "error", "enriched", "official_only", "no_metadata"}
  BY DEF RowsInv, Rows, GraphRows
<1>4. \A p \in Procs : run[p].at \in Steps
  BY DEF RowsInv, Where
<1> QED
  BY <1>1, <1>2, <1>3, <1>4 DEF RowsInv, RowsAgree, ProjectionTypes

\* What a batch makes of evidence e.
LEMMA ProjectedIs ==
    ASSUME NEW e \in Evidence, NEW old \in Rows, NEW now \in Nat
    PROVE  LET a == Assemble(Sources(e))
               r == Projected(e, Sources(e), a, old, now)
           IN  /\ r \in Rows /\ r.words = a.words /\ r.report = LatestReport(e) 
               /\ Agrees(r.provenance, r.link, r.words)
<1> DEFINE S == Sources(e)
           a == Assemble(S)
           r == Projected(e, S, a, old, now)
<1>1. Stated(S)
  BY SourcesStated
<1>2. Agrees(S, a.link, a.words) /\ a.link \in Urls \cup {None} /\ a.words \in Lists
  <2> HIDE DEF S
  <2> QED
    BY <1>1, AssembledAgrees
<1>3. S \in Seq(SourceRecords)
  BY <1>1 DEF Stated
<1>4. LatestReport(e) \in Nat
  BY LatestIs
<1>5. PreservedCheck(old, a.link) \in Urls \cup {None}
  BY DEF PreservedCheck, Rows
<1> HIDE DEF S, a
<1>6. /\ r.words = a.words /\ r.report = LatestReport(e) /\ r.provenance = S /\ r.link = a.link
      /\ r \in Rows
  BY <1>2, <1>3, <1>4, <1>5 DEF Projected, Rows
<1> HIDE DEF r
<1>7. Agrees(r.provenance, r.link, r.words)
  BY <1>2, <1>6
<1> QED
  BY <1>6, <1>7 DEF r, S, a

LEMMA GraphRowIs ==
    ASSUME NEW e \in Evidence
    PROVE  GraphRow(e) \in GraphRows
<1>1. GraphStatus(e) \in {"enriched", "official_only", "no_metadata"}
  BY DEF GraphStatus
<1>2. GraphFacets(e) \subseteq Words
  <2> DEFINE i == LatestReport(e)
             words(l) == {l[n] : n \in DOMAIN l}
  <2>1. \A l \in Lists : words(l) \subseteq Words
    BY LenProperties, ElementOfSeq DEF Lists
  <2>2. e.words \in Lists /\ e.reports \in Seq(Reports)
    BY DEF Evidence
  <2>3. i # 0 => e.reports[i].words \in Lists
    <3>1. ASSUME i # 0 PROVE e.reports[i] \in Reports
      <4>1. i \in 1 .. Len(e.reports)
        BY <3>1, LatestIs
      <4> QED
        BY <2>2, <4>1, ElementOfSeq
    <3> QED
      BY <3>1 DEF Reports
  <2>4. GraphFacets(e) = words(e.words) \cup IF i = 0 THEN {} ELSE words(e.reports[i].words)
    BY DEF GraphFacets
  <2> HIDE DEF words, i
  <2> QED
    BY <2>1, <2>2, <2>3, <2>4
<1> QED
  BY <1>1, <1>2 DEF GraphRow, GraphRows

LEMMA RowsStart == ProjectionInit => RowsInv
<1> SUFFICES ASSUME ProjectionInit PROVE RowsInv
  OBVIOUS
<1>1. evidence \in Starts /\ clock = 0 /\ edits = 0 /\ faults = 0 /\ run = [p \in Procs |-> Idle]
  BY DEF ProjectionInit
<1>2. evidence \in Evidence /\ MaxEdits \in Nat /\ MaxFaults \in Nat
  BY <1>1, ProjectionAssumption
<1>3. NoRow \in Rows /\ NoGraph \in GraphRows
  <2>1. <<>> \in Seq(SourceRecords) /\ <<>> \in Lists
    BY DEF Lists
  <2> QED
    BY <2>1 DEF NoRow, NoGraph, Rows, GraphRows
<1>4. Idle \in Where
  <2> DEFINE e == CHOOSE f \in Starts : TRUE
  <2>1. e \in Evidence
    <3>1. e \in Starts
      BY <1>1
    <3> QED
      BY <3>1, ProjectionAssumption
  <2>2. "idle" \in Steps
    BY DEF Steps
  <2> HIDE DEF e
  <2>3. [at |-> "idle", evidence |-> e, row |-> NoRow, now |-> 0, link |-> None] \in Where
    BY <1>3, <2>1, <2>2 DEF Where
  <2> QED
    BY <2>3 DEF Idle, e
<1>5. run \in [Procs -> Where] /\ \A p \in Procs : run[p].at = "idle"
  BY <1>1, <1>4 DEF Idle
<1>6. CASE graph = NoGraph /\ row = NoRow /\ facets = {}
  <2>1. row.report = 0 /\ row.words = <<>> /\ row.provenance = <<>>
    BY <1>6 DEF NoRow
  <2>2. FacetsMatch /\ MergeAgrees
    BY <1>6, <2>1 DEF FacetsMatch, MergeAgrees
  <2>3. 0 \in 0 .. Len(evidence.reports)
    BY <1>2, LatestIs
  <2> QED
    BY <1>1, <1>2, <1>3, <1>4, <1>5, <1>6, <2>1, <2>2, <2>3 DEF RowsInv
<1>7. CASE /\ graph = GraphRow(evidence)
           /\ row = Projected(evidence, Sources(evidence), Assemble(Sources(evidence)), NoRow, 0)
           /\ facets = Facets(evidence, Assemble(Sources(evidence)))
  <2> DEFINE a == Assemble(Sources(evidence))
  <2>1. /\ row \in Rows /\ row.words = a.words /\ row.report = LatestReport(evidence)
        /\ Agrees(row.provenance, row.link, row.words)
    BY <1>2, <1>3, <1>7, ProjectedIs
  <2>2. FacetsMatch
    <3> HIDE DEF a
    <3>1. facets = Facets(evidence, a)
      BY <1>7 DEF a
    <3> QED
      BY <2>1, <3>1 DEF FacetsMatch, Facets
  <2>3. MergeAgrees
    BY <2>1 DEF MergeAgrees
  <2>4. row.report \in 0 .. Len(evidence.reports)
    BY <1>2, <2>1, LatestIs
  <2>5. graph \in GraphRows
    BY <1>2, <1>7, GraphRowIs
  <2> QED
    BY <1>1, <1>2, <1>4, <1>5, <2>1, <2>2, <2>3, <2>4, <2>5 DEF RowsInv
<1> QED
  BY <1>6, <1>7 DEF ProjectionInit

LEMMA GrownOn ==
    ASSUME NEW e \in Evidence, NEW f \in Evidence, NEW h \in Evidence, Grown(e, f), Grown(f, h)
    PROVE  Grown(e, h)
<1>1. Len(e.reports) \in Nat /\ Len(f.reports) \in Nat /\ Len(h.reports) \in Nat
  BY LatestIs
<1> QED
  BY <1>1 DEF Grown

LEMMA GrownSame ==
    ASSUME NEW e \in Evidence, NEW f \in Evidence, f.reports = e.reports
    PROVE  Grown(e, f)
<1>1. Len(e.reports) \in Nat
  BY LatestIs
<1> QED
  BY <1>1 DEF Grown

\* Whatever a producer learns, evidence stays well-formed and keeps its reports.
Learned(p) ==
    /\ evidence' \in Evidence /\ Grown(evidence, evidence')
    /\ clock' \in clock .. clock + 1
    /\ \E step \in {"idle", "graph", "project"} : Edits(p, step)

LEMMA ReportAdded ==
    ASSUME NEW e \in Evidence, NEW r \in Reports, NEW f, f = [e EXCEPT !.reports = Append(@, r)]
    PROVE  f \in Evidence /\ Grown(e, f)
<1>1. e.reports \in Seq(Reports)
  BY DEF Evidence
<1>2. /\ Append(e.reports, r) \in Seq(Reports) /\ Len(Append(e.reports, r)) = Len(e.reports) + 1
      /\ \A i \in 1 .. Len(e.reports) : Append(e.reports, r)[i] = e.reports[i]
  BY <1>1, AppendProperties
<1>3. f.reports = Append(e.reports, r) /\ f \in Evidence
  BY <1>2 DEF Evidence
<1>4. Len(e.reports) \in Nat /\ DOMAIN e.reports = 1 .. Len(e.reports) /\ DOMAIN f.reports = 1 .. Len(f.reports)
  BY <1>1, <1>2, <1>3, LenProperties
<1> QED
  BY <1>2, <1>3, <1>4 DEF Grown

LEMMA ReportReviewed ==
    ASSUME NEW e \in Evidence, NEW i \in DOMAIN e.reports, NEW status \in {"open", "approved", "rejected"},
           NEW at \in Nat, NEW f, f = [e EXCEPT !.reports[i].status = status, !.reports[i].at = at]
    PROVE  f \in Evidence /\ Grown(e, f)
<1> DEFINE s == e.reports
           r == [s[i] EXCEPT !.status = status, !.at = at]
           t == [s EXCEPT ![i] = r]
<1>1. s \in Seq(Reports) /\ Len(s) \in Nat /\ DOMAIN s = 1 .. Len(s)
  BY LenProperties DEF Evidence
<1>2. s[i] \in Reports
  BY <1>1, ElementOfSeq
<1>3. r \in Reports /\ r.libs = s[i].libs
  BY <1>2 DEF Reports
<1>4. f.reports = t /\ f = [e EXCEPT !.reports = t]
  BY <1>1, <1>2 DEF Evidence, Reports
<1> HIDE DEF r
<1>5. /\ t \in Seq(Reports) /\ Len(t) = Len(s)
      /\ \A j \in 1 .. Len(s) : t[j] = IF j = i THEN r ELSE s[j]
  BY <1>1, <1>3, ExceptSeq
<1>6. f \in Evidence
  BY <1>4, <1>5 DEF Evidence
<1>7. DOMAIN t = 1 .. Len(s)
  BY <1>1
<1> HIDE DEF t
<1>8. \A j \in DOMAIN s : t[j].libs = s[j].libs
  BY <1>1, <1>3, <1>5
<1> QED
  BY <1>1, <1>4, <1>5, <1>6, <1>7, <1>8 DEF Grown

LEMMA CorrectionProposed ==
    ASSUME NEW e \in Evidence, NEW c \in Curations, NEW f, f = [e EXCEPT !.curations = Append(@, c)]
    PROVE  f \in Evidence /\ Grown(e, f)
<1>1. e.curations \in Seq(Curations)
  BY DEF Evidence
<1>2. Append(e.curations, c) \in Seq(Curations)
  BY <1>1, AppendProperties
<1>3. f \in Evidence /\ f.reports = e.reports
  BY <1>2 DEF Evidence
<1> QED
  BY <1>3, GrownSame

LEMMA CorrectionReviewed ==
    ASSUME NEW e \in Evidence, NEW i \in DOMAIN e.curations, NEW status \in {"approved", "rejected"},
           NEW f, f = [e EXCEPT !.curations[i].status = status]
    PROVE  f \in Evidence /\ Grown(e, f)
<1> DEFINE s == e.curations
           c == [s[i] EXCEPT !.status = status]
           t == [s EXCEPT ![i] = c]
<1>1. s \in Seq(Curations) /\ Len(s) \in Nat /\ DOMAIN s = 1 .. Len(s)
  BY LenProperties DEF Evidence
<1>2. s[i] \in Curations
  BY <1>1, ElementOfSeq
<1>3. c \in Curations
  BY <1>2 DEF Curations
<1>4. f = [e EXCEPT !.curations = t]
  BY <1>1, <1>2 DEF Evidence, Curations
<1> HIDE DEF c
<1>5. t \in Seq(Curations)
  BY <1>1, <1>3, ExceptSeq
<1>6. f \in Evidence /\ f.reports = e.reports
  BY <1>4, <1>5 DEF Evidence
<1> QED
  BY <1>6, GrownSame

LEMMA ProducersLearn ==
    ASSUME RowsInv, NEW p \in Writers, Produce(p)
    PROVE  Learned(p)
<1>0. evidence \in Evidence /\ clock \in Nat /\ Len(evidence.reports) \in Nat
  <2>1. edits \in Nat /\ clock \in 0 .. edits
    BY DEF RowsInv
  <2> QED
    BY <2>1, LatestIs DEF RowsInv
<1>1. clock \in clock .. clock + 1 /\ clock + 1 \in clock .. clock + 1 /\ clock + 1 \in Nat
  BY <1>0
<1>2. ASSUME NEW r \in Records, WriteRecord(p, r) PROVE Learned(p)
  <2>1. r.link \in Links /\ r.words \in Lists
    BY ProjectionAssumption
  <2>2. evidence' = [evidence EXCEPT !.link = r.link, !.words = r.words] /\ clock' = clock /\ Edits(p, "project")
    BY <1>2 DEF WriteRecord
  <2>3. evidence' \in Evidence /\ evidence'.reports = evidence.reports
    BY <1>0, <2>1, <2>2 DEF Evidence
  <2> QED
    BY <1>0, <1>1, <2>2, <2>3, GrownSame DEF Learned
<1>3. ASSUME NEW u \in Offers, StoreItem(p, u) PROVE Learned(p)
  <2>1. evidence' = [evidence EXCEPT !.item = u] /\ clock' = clock /\ Edits(p, "graph")
    BY <1>3 DEF StoreItem
  <2>2. u \in Links
    BY ProjectionAssumption DEF Links
  <2>3. evidence' \in Evidence /\ evidence'.reports = evidence.reports
    BY <1>0, <2>1, <2>2 DEF Evidence
  <2> QED
    BY <1>0, <1>1, <2>1, <2>3, GrownSame DEF Learned
<1>m. \A t \in Moments : t \in Nat /\ t \in clock .. clock + 1
  <2>1. \A t \in Moments : t = clock \/ t = clock + 1
    BY DEF Moments
  <2> QED
    BY <1>0, <1>1, <2>1
<1>4. ASSUME NEW patch \in Patches, StoreReport(p, patch) PROVE Learned(p)
  <2>0. clock' \in Moments
    BY <1>4 DEF StoreReport
  <2>1. Report(patch, "approved", clock') \in Reports
    BY <1>m, <2>0, ProjectionAssumption DEF Report, Reports
  <2>2. /\ evidence' = [evidence EXCEPT !.reports = Append(@, Report(patch, "approved", clock'))]
        /\ clock' \in clock .. clock + 1 /\ Edits(p, "graph")
    BY <1>4, <1>m, <2>0 DEF StoreReport
  <2>3. evidence' \in Evidence /\ Grown(evidence, evidence')
    BY <1>0, <2>1, <2>2, ReportAdded
  <2> QED
    BY <1>1, <2>2, <2>3 DEF Learned
<1>5. ASSUME NEW patch \in Patches, SubmitReport(p, patch) PROVE Learned(p)
  <2>1. Report(patch, "open", 0) \in Reports
    BY ProjectionAssumption DEF Report, Reports
  <2>2. /\ evidence' = [evidence EXCEPT !.reports = Append(@, Report(patch, "open", 0))]
        /\ clock' = clock /\ Edits(p, "idle")
    BY <1>5 DEF SubmitReport
  <2>3. evidence' \in Evidence /\ Grown(evidence, evidence')
    BY <1>0, <2>1, <2>2, ReportAdded
  <2> QED
    BY <1>1, <2>2, <2>3 DEF Learned
<1>6. ASSUME NEW i \in DOMAIN evidence.reports, NEW s \in {"open", "approved", "rejected"}, ReviewReport(p, i, s)
      PROVE  Learned(p)
  <2> DEFINE at == IF s = "open" THEN 0 ELSE clock'
  <2>0. clock' \in Moments
    BY <1>6 DEF ReviewReport
  <2>1. at \in Nat
    BY <1>m, <2>0
  <2>2. /\ evidence' = [evidence EXCEPT !.reports[i].status = s, !.reports[i].at = at]
        /\ clock' \in clock .. clock + 1 /\ Edits(p, "idle")
    BY <1>6, <1>m, <2>0 DEF ReviewReport
  <2> HIDE DEF at
  <2>3. evidence' \in Evidence /\ Grown(evidence, evidence')
    <3>1. \A n \in Nat : \A f :
            f = [evidence EXCEPT !.reports[i].status = s, !.reports[i].at = n] =>
              f \in Evidence /\ Grown(evidence, f)
      BY <1>0, ReportReviewed
    <3> QED
      BY <2>1, <2>2, <3>1
  <2> QED
    BY <1>1, <2>2, <2>3 DEF Learned
<1>7. ASSUME NEW k \in {"community", "owner"}, NEW u \in Offers \cup {Cleared}, Propose(p, k, u) PROVE Learned(p)
  <2> DEFINE c == [kind |-> k, link |-> u, status |-> "pending",
                   base |-> IF k = "owner" THEN evidence.link ELSE None]
  <2>1. /\ evidence' = [evidence EXCEPT !.curations = Append(@, c)]
        /\ clock' = clock /\ Edits(p, "idle") /\ (k = "community" => u # Cleared)
    BY <1>7 DEF Propose
  <2>2. u \in Urls \cup {Cleared} /\ (k = "community" => u \in Urls)
    BY <2>1, ProjectionAssumption
  <2>3. evidence.link \in Links /\ None \in Links
    BY <1>0 DEF Evidence, Links
  <2>4. c \in Curations
    BY <2>2, <2>3 DEF Curations
  <2> HIDE DEF c
  <2>5. evidence' \in Evidence /\ Grown(evidence, evidence')
    BY <1>0, <2>1, <2>4, CorrectionProposed
  <2> QED
    BY <1>1, <2>1, <2>5 DEF Learned
<1>8. ASSUME NEW i \in DOMAIN evidence.curations, NEW s \in {"approved", "rejected"}, ReviewCuration(p, i, s)
      PROVE  Learned(p)
  <2>1. /\ evidence' = [evidence EXCEPT !.curations[i].status = s]
        /\ clock' = clock /\ Edits(p, "project")
    BY <1>8 DEF ReviewCuration
  <2>2. evidence' \in Evidence /\ Grown(evidence, evidence')
    BY <1>0, <2>1, CorrectionReviewed
  <2> QED
    BY <1>1, <2>1, <2>2 DEF Learned
<1>9. CASE StoreReading(p)
  <2>1. evidence' = [evidence EXCEPT !.read = Reading] /\ clock' = clock /\ Edits(p, "project")
    BY <1>9 DEF StoreReading
  <2>2. evidence' \in Evidence /\ evidence'.reports = evidence.reports
    BY <1>0, <2>1, ProjectionAssumption DEF Evidence
  <2> QED
    BY <1>0, <1>1, <2>1, <2>2, GrownSame DEF Learned
<1>10. CASE PageChanges(p)
  <2>1. evidence' = [evidence EXCEPT !.read = <<>>] /\ clock' = clock /\ Edits(p, "idle")
    BY <1>10 DEF PageChanges
  <2>2. evidence' \in Evidence /\ evidence'.reports = evidence.reports
    <3>1. <<>> \in Lists
      BY DEF Lists
    <3> QED
      BY <1>0, <2>1, <3>1 DEF Evidence
  <2> QED
    BY <1>0, <1>1, <2>1, <2>2, GrownSame DEF Learned
<1> QED
  BY <1>2, <1>3, <1>4, <1>5, <1>6, <1>7, <1>8, <1>9, <1>10 DEF Produce

LEMMA WentOn ==
    ASSUME RowsInv, NEW p \in Procs, NEW step \in Steps \ {"assemble"}, Goes(p, step)
    PROVE  /\ run' \in [Procs -> Where]
           /\ \A q \in Procs : run'[q].at = "assemble" => run'[q] = run[q]
<1>1. run \in [Procs -> Where] /\ Idle \in Where
  BY DEF RowsInv
<1> DEFINE w == [Idle EXCEPT !.at = step]
<1>2. w \in Where /\ w.at = step
  BY <1>1 DEF Where
<1>3. run' = [run EXCEPT ![p] = w]
  BY DEF Goes
<1> HIDE DEF w
<1> QED
  BY <1>1, <1>2, <1>3

LEMMA SnapshotsKept ==
    ASSUME RowsInv, evidence' \in Evidence, Grown(evidence, evidence'),
           \A q \in Procs : run'[q].at = "assemble" => run'[q] = run[q]
    PROVE  \A q \in Procs : run'[q].at = "assemble" => Grown(run'[q].evidence, evidence')
<1> SUFFICES ASSUME NEW q \in Procs, run'[q].at = "assemble" PROVE Grown(run'[q].evidence, evidence')
  OBVIOUS
<1>1. run'[q] = run[q] /\ run[q].at = "assemble"
  OBVIOUS
<1>2. run[q] \in Where /\ Grown(run[q].evidence, evidence) /\ evidence \in Evidence
  BY <1>1 DEF RowsInv
<1>3. run[q].evidence \in Evidence
  BY <1>2 DEF Where
<1>4. Grown(run[q].evidence, evidence')
  BY <1>2, <1>3, GrownOn
<1> QED
  BY <1>1, <1>4

LEMMA RowsKept ==
    ASSUME RowsInv, evidence' \in Evidence, Grown(evidence, evidence'),
           row'.report = row.report, row'.words = row.words, row'.link = row.link,
           row'.provenance = row.provenance, facets' = facets, overtaken' = overtaken
    PROVE  row'.report \in 0 .. Len(evidence'.reports) /\ (~overtaken => FacetsMatch /\ MergeAgrees)'
<1>1. /\ evidence \in Evidence /\ row.report \in 0 .. Len(evidence.reports)
      /\ ~overtaken => FacetsMatch /\ MergeAgrees
  BY DEF RowsInv
<1>2. /\ Len(evidence.reports) \in Nat /\ Len(evidence'.reports) \in Nat
      /\ DOMAIN evidence.reports = 1 .. Len(evidence.reports)
  <2>1. evidence.reports \in Seq(Reports)
    BY <1>1 DEF Evidence
  <2> QED
    BY <1>1, <2>1, LatestIs, LenProperties
<1>3. row'.report \in 0 .. Len(evidence'.reports)
  BY <1>1, <1>2 DEF Grown
<1>4. ASSUME row.report # 0 PROVE evidence'.reports[row.report].libs = evidence.reports[row.report].libs
  <2>1. row.report \in DOMAIN evidence.reports
    BY <1>1, <1>2, <1>4
  <2> QED
    BY <2>1 DEF Grown
<1>5. FacetsMatch => FacetsMatch'
  BY <1>4 DEF FacetsMatch
<1>6. MergeAgrees => MergeAgrees'
  BY DEF MergeAgrees
<1> QED
  BY <1>1, <1>3, <1>5, <1>6

LEMMA ProducersKeep ==
    ASSUME RowsInv, NEW p \in Writers, Produce(p) PROVE RowsInv'
<1>1. Learned(p)
  BY ProducersLearn
<1>2. PICK step \in {"idle", "graph", "project"} : Edits(p, step)
  BY <1>1 DEF Learned
<1>3. evidence' \in Evidence /\ Grown(evidence, evidence') /\ clock' \in clock .. clock + 1
  BY <1>1 DEF Learned
<1>4. /\ edits < MaxEdits /\ edits' = edits + 1 /\ Goes(p, step)
      /\ UNCHANGED <<graph, row, facets, overtaken, faults>>
  BY <1>2 DEF Edits
<1>5. p \in Procs /\ step \in Steps \ {"assemble"}
  BY DEF Procs, Steps
<1>6. /\ run' \in [Procs -> Where]
      /\ \A q \in Procs : run'[q].at = "assemble" => run'[q] = run[q]
  BY <1>4, <1>5, WentOn
<1>7. \A q \in Procs : run'[q].at = "assemble" => Grown(run'[q].evidence, evidence')
  BY <1>3, <1>6, SnapshotsKept
<1>8. row'.report \in 0 .. Len(evidence'.reports) /\ (~overtaken => FacetsMatch /\ MergeAgrees)'
  BY <1>3, <1>4, RowsKept
<1>9. clock' \in 0 .. edits' /\ edits' \in 0 .. MaxEdits
  BY <1>3, <1>4, ProjectionAssumption DEF RowsInv
<1>10. row' \in Rows /\ graph' \in GraphRows /\ faults' \in 0 .. MaxFaults /\ Idle \in Where
  BY <1>4 DEF RowsInv
<1> QED
  BY <1>3, <1>6, <1>7, <1>8, <1>9, <1>10 DEF RowsInv

\* What no step but a batch's commit, and no one but a producer, does.
Steady ==
    /\ UNCHANGED <<evidence, clock, edits, facets, overtaken>>
    /\ faults' \in 0 .. MaxFaults
    /\ row' \in Rows /\ graph' \in GraphRows /\ run' \in [Procs -> Where]
    /\ row'.report = row.report /\ row'.words = row.words /\ row'.link = row.link
    /\ row'.provenance = row.provenance
    /\ \A q \in Procs : run'[q].at = "assemble" => run'[q] = run[q] \/ run'[q].evidence = evidence

LEMMA SteadyKeeps ==
    ASSUME RowsInv, Steady PROVE RowsInv'
<1>1. evidence \in Evidence /\ evidence' = evidence /\ Grown(evidence, evidence')
  BY GrownSame DEF RowsInv, Steady
<1>2. row'.report \in 0 .. Len(evidence'.reports) /\ (~overtaken => FacetsMatch /\ MergeAgrees)'
  BY <1>1, RowsKept DEF Steady
<1>3. \A q \in Procs : run'[q].at = "assemble" => Grown(run'[q].evidence, evidence')
  BY <1>1 DEF RowsInv, Steady
<1> QED
  BY <1>1, <1>2, <1>3 DEF RowsInv, Steady

\* What is stored of a batch over the row it read: a column is the batch's or the row's, and
\* where nobody changed record and provenance in between, they are the batch's.
LEMMA WrittenIs ==
    ASSUME NEW read \in Rows, NEW current \in Rows, NEW new \in Rows
    PROVE  LET w == Written(read, current, new)
           IN  /\ w \in Rows /\ w.report = new.report
               /\ current.provenance = read.provenance /\ Record(current) = Record(read) =>
                    w.provenance = new.provenance /\ w.link = new.link /\ w.words = new.words
<1> DEFINE w == Written(read, current, new)
           same == Record(new) = Record(read)
           provenance == IF new.provenance = read.provenance THEN current.provenance ELSE new.provenance
           link == IF same THEN current.link ELSE new.link
           words == IF same THEN current.words ELSE new.words
           checked == IF Validation(new) = Validation(read) THEN current.checked ELSE new.checked
           status == IF read.status = "ready" THEN current.status ELSE new.status
           waiting == read.status = "ready" /\ current.waiting
<1>1. w = [status |-> status, provenance |-> provenance, report |-> new.report, link |-> link,
           words |-> words, checked |-> checked, at |-> new.at, waiting |-> waiting]
  <2>1. w = [new EXCEPT !.provenance = provenance, !.link = link, !.words = words,
                        !.checked = checked, !.status = status, !.waiting = waiting]
    BY DEF Written
  <2>2. new = [status |-> new.status, provenance |-> new.provenance, report |-> new.report,
               link |-> new.link, words |-> new.words, checked |-> new.checked, at |-> new.at,
               waiting |-> new.waiting]
    BY DEF Rows
  <2> HIDE DEF w, provenance, link, words, checked, status, waiting
  <2> QED
    BY <2>1, <2>2
<1>2. Record(current) = Record(read) /\ same => current.link = new.link /\ current.words = new.words
  BY DEF Record
<1>3. provenance \in Seq(SourceRecords)
  BY DEF Rows
<1>4. link \in Urls \cup {None} /\ words \in Lists
  BY DEF Rows
<1>5. checked \in Urls \cup {None}
  BY DEF Rows
<1>6. status \in {"none", "ready", "error"}
  BY DEF Rows
<1>7. waiting \in BOOLEAN
  BY DEF Rows
<1>8. new.report \in Nat /\ new.at \in Nat
  BY DEF Rows
<1>9. current.provenance = read.provenance => provenance = new.provenance
  OBVIOUS
<1>10. Record(current) = Record(read) => link = new.link /\ words = new.words
  BY <1>2
<1> HIDE DEF w, provenance, link, words, checked, status, waiting
<1>11. w \in Rows /\ w.report = new.report /\ w.provenance = provenance /\ w.link = link /\ w.words = words
  BY <1>1, <1>3, <1>4, <1>5, <1>6, <1>7, <1>8 DEF Rows
<1> QED
  BY <1>9, <1>10, <1>11 DEF w

LEMMA BatchCommits ==
    ASSUME RowsInv, NEW p \in Procs, ProjectTool(p) PROVE RowsInv'
<1> DEFINE e == run[p].evidence
           S == Sources(e)
           a == Assemble(S)
           old == run[p].row
           now == run[p].now
           new == Projected(e, S, a, old, now)
<1>1. run[p].at = "assemble" /\ Goes(p, "idle") /\ UNCHANGED <<evidence, clock, graph, edits, faults>>
  BY DEF ProjectTool
<1>2. /\ row' = Written(old, row, new) /\ facets' = Facets(e, a)
      /\ overtaken' = (<<row.provenance, Record(row)>> # <<old.provenance, Record(old)>>)
  BY DEF ProjectTool, Assemble
<1>3. run[p] \in Where /\ Grown(e, evidence) /\ evidence \in Evidence /\ row \in Rows
  BY <1>1 DEF RowsInv
<1>4. e \in Evidence /\ old \in Rows /\ now \in Nat
  BY <1>3 DEF Where
<1>5. /\ new \in Rows /\ new.words = a.words /\ new.report = LatestReport(e)
      /\ Agrees(new.provenance, new.link, new.words)
  <2> HIDE DEF e, old, now
  <2> QED
    BY <1>4, ProjectedIs
<1> HIDE DEF a, new
<1>w. /\ row' \in Rows /\ row'.report = LatestReport(e)
      /\ ~overtaken' => row'.provenance = new.provenance /\ row'.link = new.link /\ row'.words = a.words
  <2>1. ~overtaken' => row.provenance = old.provenance /\ Record(row) = Record(old)
    BY <1>2
  <2> HIDE DEF e, old
  <2> QED
    BY <1>2, <1>3, <1>4, <1>5, <2>1, WrittenIs
<1>6. /\ Len(e.reports) \in Nat /\ Len(evidence.reports) \in Nat /\ LatestReport(e) \in 0 .. Len(e.reports)
      /\ DOMAIN e.reports = 1 .. Len(e.reports)
  <2>1. e.reports \in Seq(Reports)
    BY <1>4 DEF Evidence
  <2> QED
    BY <1>3, <1>4, <2>1, LatestIs, LenProperties
<1> HIDE DEF e, old
<1>7. row'.report \in 0 .. Len(evidence'.reports)
  BY <1>1, <1>3, <1>w, <1>6 DEF Grown
<1>8. ASSUME LatestReport(e) # 0
      PROVE  e.reports[LatestReport(e)].libs = evidence'.reports[LatestReport(e)].libs
  <2>1. LatestReport(e) \in DOMAIN e.reports
    BY <1>6, <1>8
  <2> QED
    BY <1>1, <1>3, <2>1 DEF Grown
<1>9. ~overtaken' => FacetsMatch'
  BY <1>2, <1>w, <1>8 DEF FacetsMatch, Facets
<1>10. ~overtaken' => MergeAgrees'
  BY <1>5, <1>w DEF MergeAgrees
<1>11. /\ run' \in [Procs -> Where]
       /\ \A q \in Procs : run'[q].at = "assemble" => run'[q] = run[q]
  BY <1>1, WentOn DEF Steps
<1>12. \A q \in Procs : run'[q].at = "assemble" => Grown(run'[q].evidence, evidence')
  <2>1. evidence' \in Evidence /\ Grown(evidence, evidence')
    BY <1>1, <1>3, GrownSame
  <2> QED
    BY <1>11, <2>1, SnapshotsKept
<1> QED
  BY <1>1, <1>3, <1>7, <1>9, <1>10, <1>11, <1>12, <1>w DEF RowsInv

LEMMA FaultsBound ==
    ASSUME RowsInv, Fault PROVE faults' \in 0 .. MaxFaults
BY ProjectionAssumption DEF RowsInv, Fault

LEMMA OthersSteady ==
    ASSUME RowsInv, NEW p \in Procs,
           \/ MergeGraph(p) \/ MarkGraphFailure(p) \/ ReadEvidence(p) \/ Collide(p) \/ MarkFailure(p)
           \/ BatchFails(p) \/ Kill(p)
    PROVE  Steady
<1>0. /\ evidence \in Evidence /\ row \in Rows /\ graph \in GraphRows /\ run \in [Procs -> Where]
      /\ faults \in 0 .. MaxFaults
  BY DEF RowsInv
<1> DEFINE Moved == /\ run' \in [Procs -> Where]
                    /\ \A q \in Procs : run'[q].at = "assemble" => run'[q] = run[q]
<1>1. ASSUME NEW step \in {"idle", "graph", "graph failed", "project", "failed"}, Goes(p, step) PROVE Moved
  <2>1. step \in Steps \ {"assemble"}
    BY DEF Steps
  <2> QED
    BY <1>1, <2>1, WentOn
<1>2. CASE MergeGraph(p)
  <2>1. graph' \in GraphRows
    BY <1>0, <1>2, GraphRowIs DEF MergeGraph
  <2>2. Goes(p, "project") /\ UNCHANGED <<evidence, clock, row, facets, overtaken, edits, faults>>
    BY <1>2 DEF MergeGraph
  <2> QED
    BY <1>0, <1>1, <2>1, <2>2 DEF Steady
<1>3. CASE MarkGraphFailure(p)
  <2>1. /\ graph' = [graph EXCEPT !.status = "error", !.waiting = TRUE]
        /\ Goes(p, "project") /\ UNCHANGED <<evidence, clock, row, facets, overtaken, edits, faults>>
    BY <1>3 DEF MarkGraphFailure
  <2>2. graph' \in GraphRows
    BY <1>0, <2>1 DEF GraphRows
  <2> QED
    BY <1>0, <1>1, <2>1, <2>2 DEF Steady
<1>4. CASE ReadEvidence(p)
  <2> DEFINE w == [run[p] EXCEPT !.at = "assemble", !.evidence = evidence, !.row = row, !.now = clock]
  <2>1. run' = [run EXCEPT ![p] = w] /\ UNCHANGED <<evidence, clock, rows, edits, faults>>
    BY <1>0, <1>4 DEF ReadEvidence, Where
  <2>2. w \in Where /\ w.evidence = evidence
    <3>1. clock \in Nat
      BY DEF RowsInv
    <3>2. "assemble" \in Steps
      BY DEF Steps
    <3> QED
      BY <1>0, <3>1, <3>2 DEF Where
  <2> HIDE DEF w
  <2>3. run' \in [Procs -> Where] /\ \A q \in Procs : run'[q] = run[q] \/ run'[q].evidence = evidence
    BY <1>0, <2>1, <2>2
  <2> QED
    BY <1>0, <2>1, <2>3 DEF Steady, rows
<1>5. CASE Collide(p)
  <2>1. Goes(p, "failed") /\ UNCHANGED <<evidence, clock, rows, edits, faults>>
    BY <1>5 DEF Collide
  <2> QED
    BY <1>0, <1>1, <2>1 DEF Steady, rows
<1>6. CASE MarkFailure(p)
  <2>1. /\ row' = [row EXCEPT !.status = "error", !.waiting = TRUE]
        /\ Goes(p, "idle") /\ UNCHANGED <<evidence, clock, graph, facets, overtaken, edits, faults>>
    BY <1>6 DEF MarkFailure
  <2>2. /\ row' \in Rows /\ row'.report = row.report /\ row'.words = row.words /\ row'.link = row.link
        /\ row'.provenance = row.provenance
    BY <1>0, <2>1 DEF Rows
  <2> QED
    BY <1>0, <1>1, <2>1, <2>2 DEF Steady
<1>7. CASE BatchFails(p)
  <2>1. /\ Fault /\ Goes(p, IF run[p].at = "graph" THEN "graph failed" ELSE "failed")
        /\ UNCHANGED <<evidence, clock, rows, edits>>
    BY <1>7 DEF BatchFails
  <2>2. Moved
    BY <1>1, <2>1
  <2> QED
    BY <1>0, <2>1, <2>2, FaultsBound DEF Steady, rows
<1>8. CASE Kill(p)
  <2>1. Fault /\ Goes(p, "idle") /\ UNCHANGED <<evidence, clock, rows, edits>>
    BY <1>8 DEF Kill
  <2>2. Moved
    BY <1>1, <2>1
  <2> QED
    BY <1>0, <2>1, <2>2, FaultsBound DEF Steady, rows
<1> QED
  BY <1>2, <1>3, <1>4, <1>5, <1>6, <1>7, <1>8

LEMMA RepairsSteady ==
    ASSUME RowsInv, SweepGraph \/ SweepProjection \/ ReadProbed \/ RecordProbe \/ BackoffEnds
    PROVE  Steady
<1>0. /\ evidence \in Evidence /\ row \in Rows /\ graph \in GraphRows /\ run \in [Procs -> Where]
      /\ faults \in 0 .. MaxFaults /\ Sweeper \in Procs /\ Prober \in Procs
  BY DEF RowsInv, Procs
<1>1. ASSUME NEW p \in Procs, NEW step \in {"idle", "graph", "project"}, Goes(p, step)
      PROVE  /\ run' \in [Procs -> Where]
             /\ \A q \in Procs : run'[q].at = "assemble" => run'[q] = run[q]
  <2>1. step \in Steps \ {"assemble"}
    BY DEF Steps
  <2> QED
    BY <1>1, <2>1, WentOn
<1>2. CASE SweepGraph
  <2>1. Goes(Sweeper, "graph") /\ UNCHANGED <<evidence, clock, rows, edits, faults>>
    BY <1>2 DEF SweepGraph
  <2> QED
    BY <1>0, <1>1, <2>1 DEF Steady, rows
<1>3. CASE SweepProjection
  <2>1. Goes(Sweeper, "project") /\ UNCHANGED <<evidence, clock, rows, edits, faults>>
    BY <1>3 DEF SweepProjection
  <2> QED
    BY <1>0, <1>1, <2>1 DEF Steady, rows
<1>4. CASE ReadProbed
  <2> DEFINE w == [run[Prober] EXCEPT !.at = "record", !.link = row.link]
  <2>1. run' = [run EXCEPT ![Prober] = w] /\ UNCHANGED <<evidence, clock, rows, edits, faults>>
    BY <1>0, <1>4 DEF ReadProbed, Where
  <2>2. w \in Where /\ w.at = "record"
    <3>1. row.link \in Urls \cup {None} /\ "record" \in Steps
      BY <1>0 DEF Rows, Steps
    <3> QED
      BY <1>0, <3>1 DEF Where
  <2> HIDE DEF w
  <2>3. run' \in [Procs -> Where] /\ \A q \in Procs : run'[q].at = "assemble" => run'[q] = run[q]
    BY <1>0, <2>1, <2>2
  <2> QED
    BY <1>0, <2>1, <2>3 DEF Steady, rows
<1>5. CASE RecordProbe
  <2>1. /\ row' = [row EXCEPT !.checked = run[Prober].link]
        /\ Goes(Prober, "idle") /\ UNCHANGED <<evidence, clock, graph, facets, overtaken, edits, faults>>
    BY <1>5 DEF RecordProbe
  <2>2. run[Prober].link \in Urls \cup {None}
    BY <1>0 DEF Where
  <2>3. /\ row' \in Rows /\ row'.report = row.report /\ row'.words = row.words /\ row'.link = row.link
        /\ row'.provenance = row.provenance
    BY <1>0, <2>1, <2>2 DEF Rows
  <2> QED
    BY <1>0, <1>1, <2>1, <2>3 DEF Steady
<1>6. CASE BackoffEnds
  <2>1. /\ row' = [row EXCEPT !.waiting = FALSE] /\ graph' = [graph EXCEPT !.waiting = FALSE]
        /\ UNCHANGED <<evidence, clock, facets, overtaken, run, edits, faults>>
    BY <1>6 DEF BackoffEnds
  <2>2. /\ row' \in Rows /\ row'.report = row.report /\ row'.words = row.words /\ row'.link = row.link
        /\ row'.provenance = row.provenance /\ graph' \in GraphRows
    BY <1>0, <2>1 DEF Rows, GraphRows
  <2> QED
    BY <1>0, <2>1, <2>2 DEF Steady
<1> QED
  BY <1>2, <1>3, <1>4, <1>5, <1>6

LEMMA RowsStep == RowsInv /\ [ProjectionNext]_projectionVars => RowsInv'
<1> SUFFICES ASSUME RowsInv, [ProjectionNext]_projectionVars PROVE RowsInv'
  OBVIOUS
<1>1. ASSUME NEW p \in Writers, Produce(p) PROVE RowsInv'
  BY <1>1, ProducersKeep
<1>2. ASSUME NEW p \in Procs, ProjectTool(p) PROVE RowsInv'
  BY <1>2, BatchCommits
<1>3. ASSUME NEW p \in Procs,
             \/ MergeGraph(p) \/ MarkGraphFailure(p) \/ ReadEvidence(p) \/ Collide(p) \/ MarkFailure(p)
             \/ BatchFails(p) \/ Kill(p)
      PROVE  RowsInv'
  BY <1>3, OthersSteady, SteadyKeeps
<1>4. CASE SweepGraph \/ SweepProjection \/ ReadProbed \/ RecordProbe \/ BackoffEnds
  BY <1>4, RepairsSteady, SteadyKeeps
<1>5. CASE UNCHANGED projectionVars
  <2>1. Steady
    BY <1>5 DEF projectionVars, rows, Steady, RowsInv
  <2> QED
    BY <2>1, SteadyKeeps
<1> QED
  BY <1>1, <1>2, <1>3, <1>4, <1>5 DEF ProjectionNext, Step, Sweep, Probe

\* What is served of a tool is consistent, unless the last batch to commit was overtaken: the
\* facets are those of the row beside them, and the row is what its recorded sources must
\* come to, whatever the batch that committed before it, a probe or a failure had written.
THEOREM RowsStayTrue == ProjectionSpec => []RowsAgree
<1>1. RowsInv => RowsAgree
  BY RowsAsServed
<1> QED
  BY <1>1, RowsStart, RowsStep, PTL DEF ProjectionSpec
=============================================================================
