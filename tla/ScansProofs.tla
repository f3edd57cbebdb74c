---------------------------- MODULE ScansProofs ----------------------------
(***************************************************************************)
(* Theorems about Scans, for every catalog, set of hosts, pace and number  *)
(* of pushes, edits, outages and kills.                                    *)
(*                                                                         *)
(* A verdict is stored several steps after its commit was read, and the    *)
(* HEAD, the record and the row may all change in between.  The inductive  *)
(* invariant says what a scan carries from step to step: from the decision *)
(* on, a URL of a repository, and once the files are acquired, a commit    *)
(* that holds source at that URL.  Nothing is assumed of the queues, so    *)
(* the theorems hold for any order of candidates.                          *)
(***************************************************************************)
EXTENDS Scans, WellFoundedInduction, TLAPS

\* What a stored row says, taken by itself.
Verdict(r) ==
    /\ r.status = "analyzed" => Content[<<r.url, r.commit>>] = "source"
    /\ r.status = "no_source" => Content[<<r.url, r.commit>>] = "nothing"

RowsOnFile == row \in [Names -> Rows]
Tips == tip \in [Repos -> Heads]

AScan(p) == p = [step |-> p.step, tool |-> p.tool, url |-> p.url, force |-> p.force,
                 decided |-> p.decided, head |-> p.head]
Carries(p) ==
    /\ AScan(p)
    /\ p.step \in {"decide", "fetch", "store", "caches"} => p.url \in Repos
    /\ p.step = "store" => p.head \in Heads /\ Content[<<p.url, p.head>>] = "source"
ScansUnderWay == scan = [s \in Scanners |-> scan[s]] /\ \A s \in Scanners : Carries(scan[s])

VerdictInv == RowsOnFile /\ Tips /\ ScansUnderWay /\ VerdictTrue

(***************************************************************************)
(* Lemmas about rows and scans                                             *)
(***************************************************************************)
\* A nonempty set of naturals has a least element.
LEMMA LeastExists ==
    ASSUME NEW S \in SUBSET Nat, S # {}
    PROVE  \E m \in S : \A n \in S : m <= n
<1>1. PICK m \in S : \A n \in S : ~(<<n, m>> \in OpToRel(<, Nat))
  BY NatLessThanWellFounded, WFMin
<1>2. \A n \in S : ~(n < m)
  BY <1>1 DEF OpToRel
<1> QED
  BY <1>2

\* The HEAD of a repository that was never pushed to is a commit.
LEMMA FirstHeadIsAHead == FirstHead \in Heads
<1>1. \E m \in Heads : \A n \in Heads : m <= n
  BY VerdictsAssumption, LeastExists
<1> QED
  BY <1>1 DEF FirstHead

\* Saving a row whose verdict is true keeps every verdict true; the row of a tool the
\* catalog lacks is not there to be saved.
LEMMA SaveKeeps ==
    ASSUME RowsOnFile, VerdictTrue, NEW t, NEW new, row' = [row EXCEPT ![t] = new],
           t \in Names => new \in Rows /\ Verdict(new)
    PROVE  RowsOnFile' /\ VerdictTrue'
<1>1. RowsOnFile'
  BY DEF RowsOnFile
<1>2. ASSUME NEW u \in Names PROVE Verdict(row'[u])
  <2>1. CASE u = t
    <3>1. row'[u] = new
      BY <2>1 DEF RowsOnFile
    <3> QED
      BY <1>2, <2>1, <3>1
  <2>2. CASE u # t
    <3>1. row'[u] = row[u]
      BY <2>2 DEF RowsOnFile
    <3> QED
      BY <3>1 DEF VerdictTrue, Verdict
  <2> QED
    BY <2>1, <2>2
<1>3. VerdictTrue'
  BY <1>2 DEF VerdictTrue, Verdict
<1> QED
  BY <1>1, <1>3

\* Opening a row, and the end of its backoff, leave its verdict as it is.
LEMMA TouchKeeps ==
    ASSUME RowsOnFile, VerdictTrue, NEW t,
           Opened(t) \/ row' = [row EXCEPT ![t].retry = FALSE] \/ UNCHANGED row
    PROVE  RowsOnFile' /\ VerdictTrue'
<1>1. CASE Opened(t)
  <2> DEFINE new == [row[t] EXCEPT !.status = IF @ = "none" THEN "pending" ELSE @]
  <2>1. row' = [row EXCEPT ![t] = new]
    BY <1>1 DEF Opened
  <2>2. ASSUME t \in Names PROVE new \in Rows /\ Verdict(new)
    <3>1. row[t] \in Rows /\ Verdict(row[t])
      BY <2>2 DEF RowsOnFile, VerdictTrue, Verdict
    <3>2. /\ new.url = row[t].url /\ new.commit = row[t].commit /\ new \in Rows
          /\ new.status \in {"pending", row[t].status}
      BY <3>1 DEF Rows, Statuses
    <3> QED
      BY <3>1, <3>2 DEF Verdict
  <2> HIDE DEF new
  <2> QED
    BY <2>1, <2>2, SaveKeeps
<1>2. CASE row' = [row EXCEPT ![t].retry = FALSE]
  <2> DEFINE new == [row[t] EXCEPT !.retry = FALSE]
  <2>1. row' = [row EXCEPT ![t] = new]
    BY <1>2
  <2>2. ASSUME t \in Names PROVE new \in Rows /\ Verdict(new)
    <3>1. row[t] \in Rows /\ Verdict(row[t])
      BY <2>2 DEF RowsOnFile, VerdictTrue, Verdict
    <3>2. /\ new.url = row[t].url /\ new.commit = row[t].commit /\ new \in Rows
          /\ new.status = row[t].status
      BY <3>1 DEF Rows
    <3> QED
      BY <3>1, <3>2 DEF Verdict
  <2> HIDE DEF new
  <2> QED
    BY <2>1, <2>2, SaveKeeps
<1>3. CASE UNCHANGED row
  BY <1>3 DEF RowsOnFile, VerdictTrue
<1> QED
  BY <1>1, <1>2, <1>3

\* A scan that fails says nothing about a commit.
LEMMA FailureKeeps ==
    ASSUME RowsOnFile, VerdictTrue, NEW t, NEW url \in Urls,
           \/ SaveFailure(t, url) \/ SaveRestricted(t, url) \/ SaveUnsupported(t, url)
    PROVE  RowsOnFile' /\ VerdictTrue'
<1>1. PICK status \in {"error", "restricted", "unsupported"}, retry \in BOOLEAN :
        row' = [row EXCEPT ![t] =
                  [row[t] EXCEPT !.status = status, !.url = url, !.retry = retry]]
  BY DEF SaveFailure, SaveRestricted, SaveUnsupported, Save
<1> DEFINE new == [row[t] EXCEPT !.status = status, !.url = url, !.retry = retry]
<1>2. ASSUME t \in Names PROVE new \in Rows /\ Verdict(new)
  <2>1. row[t] \in Rows
    BY <1>2 DEF RowsOnFile
  <2>2. new \in Rows /\ new.status = status
    BY <2>1 DEF Rows, Statuses
  <2> QED
    BY <2>2 DEF Verdict
<1>3. row' = [row EXCEPT ![t] = new]
  BY <1>1
<1> HIDE DEF new
<1> QED
  BY <1>2, <1>3, SaveKeeps

\* A process takes one scan a step on, ends it or starts another; the other keeps its own.
LEMMA ScanMoves ==
    ASSUME ScansUnderWay, NEW s \in Scanners, NEW p, scan' = [scan EXCEPT ![s] = p],
           Carries(p)
    PROVE  ScansUnderWay'
  BY DEF ScansUnderWay

LEMMA AtCarries ==
    ASSUME NEW step \in {"dead", "idle", "begin"}, NEW tool, NEW url, NEW force
    PROVE  Carries(ScanAt(step, tool, url, force)) /\ Carries(At(step))
<1>1. ASSUME NEW p, p = [step |-> step, tool |-> p.tool, url |-> p.url, force |-> p.force,
                         decided |-> p.decided, head |-> p.head]
      PROVE  Carries(p)
  <2>1. p.step = step
    BY <1>1
  <2> QED
    BY <1>1, <2>1 DEF Carries, AScan
<1>2. Carries(ScanAt(step, tool, url, force))
  BY <1>1 DEF ScanAt
<1>3. Carries(At(step))
  BY <1>1 DEF ScanAt, At
<1> QED
  BY <1>2, <1>3

\* What a step changes of a scan.
LEMMA StepsOn ==
    ASSUME NEW p, AScan(p), NEW step, NEW m, m = [p EXCEPT !.step = step]
    PROVE  AScan(m) /\ m.step = step /\ m.url = p.url
  BY DEF AScan

LEMMA HeadMoves ==
    ASSUME NEW p, AScan(p), NEW c, NEW m, m = [p EXCEPT !.head = c]
    PROVE  AScan(m) /\ m.step = p.step /\ m.url = p.url /\ m.head = c
  BY DEF AScan

LEMMA Decides ==
    ASSUME NEW p, AScan(p), NEW c, NEW m, m = [p EXCEPT !.decided = c]
    PROVE  AScan(m) /\ m.step = p.step /\ m.url = p.url
  BY DEF AScan

LEMMA ReturnKeeps ==
    ASSUME ScansUnderWay, NEW s \in Scanners, Return(s)
    PROVE  ScansUnderWay'
<1>1. scan' = [scan EXCEPT ![s] = At(IF s = "worker" THEN "idle" ELSE "dead")]
  BY DEF Return
<1>2. Carries(At("idle")) /\ Carries(At("dead"))
  BY AtCarries
<1> QED
  BY <1>1, <1>2, ScanMoves

\* A failed step of a scan of a repository.
LEMMA FailsKeeps ==
    ASSUME RowsOnFile, VerdictTrue, ScansUnderWay, NEW s \in Scanners, Fails(s),
           scan[s].url \in Repos
    PROVE  RowsOnFile' /\ VerdictTrue' /\ ScansUnderWay'
<1>1. scan[s].url \in Urls
  BY DEF Urls
<1>2. SaveRestricted(scan[s].tool, scan[s].url) \/ SaveFailure(scan[s].tool, scan[s].url)
  BY DEF Fails
<1>3. Return(s)
  BY DEF Fails
<1> QED
  BY <1>1, <1>2, <1>3, FailureKeeps, ReturnKeeps

(***************************************************************************)
(* The steps of a scan                                                     *)
(***************************************************************************)
LEMMA SettleVerdict ==
    ASSUME VerdictInv, NEW s \in Scanners, SettleWithoutRequest(s)
    PROVE  VerdictInv'
<1>1. /\ scan[s].url \in Urls /\ SaveUnsupported(scan[s].tool, scan[s].url)
      /\ Return(s) /\ UNCHANGED upstreamVars
  BY DEF SettleWithoutRequest, Urls
<1>2. RowsOnFile' /\ VerdictTrue'
  BY <1>1, FailureKeeps DEF VerdictInv
<1>3. ScansUnderWay'
  BY <1>1, ReturnKeeps DEF VerdictInv
<1> QED
  BY <1>1, <1>2, <1>3 DEF VerdictInv, Tips, upstreamVars

\* Repository pages advertise no head; a clone's may be stale by the time it is used.
LEMMA HeadVerdict ==
    ASSUME VerdictInv, NEW s \in Scanners, RepositoryHead(s)
    PROVE  VerdictInv'
<1>1. scan[s].url \in Repos /\ UNCHANGED upstreamVars
  BY DEF RepositoryHead
<1>2. CASE Fails(s)
  BY <1>1, <1>2, FailsKeeps DEF VerdictInv, Tips, upstreamVars
<1>3. CASE ~Fails(s)
  <2> DEFINE head == IF scan[s].url \in Pages THEN NoCommit ELSE tip[scan[s].url]
             m == [scan[s] EXCEPT !.step = "decide"]
             p == [m EXCEPT !.head = head]
  <2>1. scan' = [scan EXCEPT ![s] = p] /\ UNCHANGED row
    BY <1>3 DEF RepositoryHead, VerdictInv, ScansUnderWay
  <2>2. Carries(p)
    <3> HIDE DEF head
    <3>1. AScan(scan[s])
      BY DEF VerdictInv, ScansUnderWay, Carries
    <3>2. AScan(p) /\ p.step = "decide" /\ p.url = scan[s].url
      <4>1. AScan(m) /\ m.step = "decide" /\ m.url = scan[s].url
        BY <3>1, StepsOn
      <4> HIDE DEF m
      <4> QED
        BY <4>1, HeadMoves
    <3> QED
      BY <1>1, <3>2 DEF Carries
  <2> HIDE DEF p
  <2>3. ScansUnderWay'
    BY <2>1, <2>2, ScanMoves DEF VerdictInv
  <2> QED
    BY <1>1, <2>1, <2>3 DEF VerdictInv, RowsOnFile, VerdictTrue, Tips, upstreamVars
<1> QED
  BY <1>2, <1>3

LEMMA DecideVerdict ==
    ASSUME VerdictInv, NEW s \in Scanners, Decide(s)
    PROVE  VerdictInv'
<1> DEFINE t == scan[s].tool
           known == CurrentHead(t, scan[s].url)
<1>1. /\ scan[s].step = "decide" /\ UNCHANGED upstreamVars
      /\ Opened(t) \/ UNCHANGED row
      /\ \/ Return(s)
         \/ scan' = [scan EXCEPT ![s].step = "fetch", ![s].decided = known]
  BY DEF Decide, StampAttempt
<1>2. RowsOnFile' /\ VerdictTrue'
  <2> HIDE DEF t
  <2> QED
    BY <1>1, TouchKeeps DEF VerdictInv
<1> HIDE DEF known
<1>3. CASE Return(s)
  BY <1>1, <1>2, <1>3, ReturnKeeps DEF VerdictInv, Tips, upstreamVars
<1>4. CASE scan' = [scan EXCEPT ![s].step = "fetch", ![s].decided = known]
  <2> DEFINE m == [scan[s] EXCEPT !.step = "fetch"]
             p == [m EXCEPT !.decided = known]
  <2>1. scan' = [scan EXCEPT ![s] = p]
    BY <1>4 DEF VerdictInv, ScansUnderWay
  <2>2. Carries(p)
    <3>1. AScan(scan[s]) /\ scan[s].url \in Repos
      BY <1>1 DEF VerdictInv, ScansUnderWay, Carries
    <3>2. AScan(p) /\ p.step = "fetch" /\ p.url = scan[s].url
      <4>1. AScan(m) /\ m.step = "fetch" /\ m.url = scan[s].url
        BY <3>1, StepsOn
      <4> HIDE DEF m
      <4> QED
        BY <4>1, Decides
    <3> QED
      BY <3>1, <3>2 DEF Carries
  <2> HIDE DEF p
  <2>3. ScansUnderWay'
    BY <2>1, <2>2, ScanMoves DEF VerdictInv
  <2> QED
    BY <1>1, <1>2, <2>3 DEF VerdictInv, Tips, upstreamVars
<1> QED
  BY <1>1, <1>3, <1>4

\* The verdict is on the commit that was acquired, whatever was advertised before.
LEMMA AcquireVerdict ==
    ASSUME VerdictInv, NEW s \in Scanners, Acquire(s)
    PROVE  VerdictInv'
<1> DEFINE t == scan[s].tool
           url == scan[s].url
           head == tip[url]
<1>1. /\ scan[s].step = "fetch" /\ UNCHANGED upstreamVars
      /\ \/ Fails(s)
         \/ UNCHANGED row /\ Return(s)
         \/ /\ Content[<<url, head>>] = "nothing" /\ Return(s)
            /\ SaveFailure(t, url) \/ SaveNoSource(t, url, head)
         \/ /\ Content[<<url, head>>] # "nothing" /\ UNCHANGED row
            /\ scan' = [scan EXCEPT ![s].step = "store", ![s].head = head]
  BY DEF Acquire, AcquiredHead
<1>2. AScan(scan[s]) /\ url \in Repos /\ url \in Urls /\ Tips
  BY <1>1 DEF VerdictInv, ScansUnderWay, Carries, Urls
<1>3. head \in Heads /\ Content[<<url, head>>] \in {"source", "nothing"}
  BY <1>2, VerdictsAssumption DEF Tips
<1>4. CASE Fails(s)
  BY <1>1, <1>2, <1>4, FailsKeeps DEF VerdictInv, Tips, upstreamVars
<1>5. CASE UNCHANGED row /\ Return(s)
  BY <1>1, <1>5, ReturnKeeps DEF VerdictInv, RowsOnFile, VerdictTrue, Tips, upstreamVars
<1>6. CASE /\ Content[<<url, head>>] = "nothing" /\ Return(s)
           /\ SaveFailure(t, url) \/ SaveNoSource(t, url, head)
  <2>1. RowsOnFile' /\ VerdictTrue'
    <3>1. CASE SaveFailure(t, url)
      BY <1>2, <3>1, FailureKeeps DEF VerdictInv
    <3>2. CASE SaveNoSource(t, url, head)
      <4> HIDE DEF t, url, head
      <4> DEFINE new == [status |-> "no_source", url |-> url, commit |-> head, retry |-> FALSE]
      <4>1. row' = [row EXCEPT ![t] = new]
        BY <3>2 DEF SaveNoSource, Save
      <4>2. new \in Rows /\ Verdict(new)
        BY <1>2, <1>3, <1>6 DEF Rows, Statuses, Verdict
      <4> HIDE DEF new
      <4> QED
        BY <4>1, <4>2, SaveKeeps DEF VerdictInv
    <3> QED
      BY <1>6, <3>1, <3>2
  <2>2. ScansUnderWay'
    BY <1>6, ReturnKeeps DEF VerdictInv
  <2> QED
    BY <1>1, <2>1, <2>2 DEF VerdictInv, Tips, upstreamVars
<1>7. CASE /\ Content[<<url, head>>] # "nothing" /\ UNCHANGED row
           /\ scan' = [scan EXCEPT ![s].step = "store", ![s].head = head]
  <2> HIDE DEF head
  <2> DEFINE m == [scan[s] EXCEPT !.step = "store"]
             p == [m EXCEPT !.head = head]
  <2>1. scan' = [scan EXCEPT ![s] = p]
    BY <1>7 DEF VerdictInv, ScansUnderWay
  <2>2. Carries(p)
    <3>1. AScan(p) /\ p.step = "store" /\ p.url = url /\ p.head = head
      <4>1. AScan(m) /\ m.step = "store" /\ m.url = url
        BY <1>2, StepsOn
      <4> HIDE DEF m, url
      <4>2. p.head = head
        BY <4>1 DEF AScan
      <4> QED
        BY <4>1, <4>2, HeadMoves
    <3> QED
      BY <1>2, <1>3, <1>7, <3>1 DEF Carries
  <2> HIDE DEF p
  <2>3. ScansUnderWay'
    BY <2>1, <2>2, ScanMoves DEF VerdictInv
  <2> QED
    BY <1>1, <1>7, <2>3 DEF VerdictInv, RowsOnFile, VerdictTrue, Tips, upstreamVars
<1> QED
  BY <1>1, <1>4, <1>5, <1>6, <1>7

LEMMA StoreVerdict ==
    ASSUME VerdictInv, NEW s \in Scanners, StoreReport(s)
    PROVE  VerdictInv'
<1> DEFINE t == scan[s].tool
           url == scan[s].url
           head == scan[s].head
           new == [status |-> "analyzed", url |-> url, commit |-> head, retry |-> FALSE]
           p == [scan[s] EXCEPT !.step = "caches"]
<1>1. /\ scan[s].step = "store" /\ UNCHANGED upstreamVars
      /\ row' = [row EXCEPT ![t] = new] /\ scan' = [scan EXCEPT ![s].step = "caches"]
  BY DEF StoreReport, SaveAnalyzed, Save, Goes
<1>2. /\ AScan(scan[s]) /\ url \in Repos /\ url \in Urls /\ head \in Heads
      /\ Content[<<url, head>>] = "source"
  BY <1>1 DEF VerdictInv, ScansUnderWay, Carries, Urls
<1>3. new \in Rows /\ Verdict(new)
  <2> HIDE DEF url, head
  <2> QED
    BY <1>2 DEF Rows, Statuses, Verdict
<1>4. RowsOnFile' /\ VerdictTrue'
  <2> HIDE DEF new, t
  <2> QED
    BY <1>1, <1>3, SaveKeeps DEF VerdictInv
<1>5. scan' = [scan EXCEPT ![s] = p]
  BY <1>1 DEF VerdictInv, ScansUnderWay
<1>6. Carries(p)
  <2>1. AScan(p) /\ p.step = "caches" /\ p.url = url
    BY <1>2 DEF AScan
  <2> QED
    BY <1>2, <2>1 DEF Carries
<1>7. ScansUnderWay'
  <2> HIDE DEF p
  <2> QED
    BY <1>5, <1>6, ScanMoves DEF VerdictInv
<1> QED
  BY <1>1, <1>4, <1>7 DEF VerdictInv, Tips, upstreamVars

LEMMA RefusedVerdict ==
    ASSUME VerdictInv, NEW s \in Scanners, StoreRefused(s)
    PROVE  VerdictInv'
<1>1. /\ scan[s].step = "store" /\ SaveFailure(scan[s].tool, scan[s].url) /\ Return(s)
      /\ UNCHANGED upstreamVars
  BY DEF StoreRefused
<1>2. scan[s].url \in Urls
  BY <1>1 DEF VerdictInv, ScansUnderWay, Carries, Urls
<1>3. RowsOnFile' /\ VerdictTrue' /\ ScansUnderWay'
  BY <1>1, <1>2, FailureKeeps, ReturnKeeps DEF VerdictInv
<1> QED
  BY <1>1, <1>3 DEF VerdictInv, Tips, upstreamVars

LEMMA CachesVerdict ==
    ASSUME VerdictInv, NEW s \in Scanners, RefreshCaches(s)
    PROVE  VerdictInv'
<1>1. UNCHANGED row /\ Return(s) /\ UNCHANGED upstreamVars
  BY DEF RefreshCaches, CachesStale
<1> QED
  BY <1>1, ReturnKeeps DEF VerdictInv, RowsOnFile, VerdictTrue, Tips, upstreamVars

(***************************************************************************)
(* Everything else                                                         *)
(***************************************************************************)
LEMMA AroundVerdict ==
    ASSUME VerdictInv,
           \/ Take \/ Start
           \/ \E t \in Names : ForceScan(t) \/ BackoffElapses(t) \/ Edit(t)
           \/ \E s \in Scanners : Poisoned(s) \/ Kill(s)
           \/ \E r \in Repos : Push(r) \/ GoDown(r) \/ ComeBack(r)
           \/ UNCHANGED vars
    PROVE  VerdictInv'
<1>1. CASE Take \/ Start \/ \E t \in Names : ForceScan(t)
  <2>1. UNCHANGED <<row, tip>>
    BY <1>1 DEF Take, Start, ForceScan, verdictVars, upstreamVars
  <2>2. \/ UNCHANGED scan
        \/ scan' = [scan EXCEPT !["worker"] = At("idle")]
        \/ \E l \in {"backlog", "refresh"} : \E q :
             scan' = [scan EXCEPT !["worker"] =
                       ScanAt("begin", Head(q[l]).tool, Head(q[l]).url, FALSE)]
        \/ \E t \in Names :
             scan' = [scan EXCEPT !["operator"] = ScanAt("begin", t, record[t], TRUE)]
    BY <1>1 DEF Take, Start, ForceScan, NextLane
  <2>3. ScansUnderWay'
    BY <2>2, AtCarries, ScanMoves DEF VerdictInv, Scanners, ScansUnderWay
  <2> QED
    BY <2>1, <2>3 DEF VerdictInv, RowsOnFile, VerdictTrue, Tips
<1>2. CASE \E s \in Scanners : Poisoned(s) \/ Kill(s)
  <2>1. PICK s \in Scanners : Dies(s)
    BY <1>2 DEF Poisoned, Kill
  <2>2. scan' = [scan EXCEPT ![s] = At("dead")] /\ UNCHANGED <<row, tip>>
    BY <2>1 DEF Dies, verdictVars, upstreamVars
  <2>3. ScansUnderWay'
    BY <2>2, AtCarries, ScanMoves DEF VerdictInv
  <2> QED
    BY <2>2, <2>3 DEF VerdictInv, RowsOnFile, VerdictTrue, Tips
<1>3. CASE \E t \in Names : BackoffElapses(t) \/ Edit(t)
  <2>1. PICK t \in Names : \/ row' = [row EXCEPT ![t].retry = FALSE]
                           \/ UNCHANGED row
    BY <1>3 DEF BackoffElapses, Edit
  <2>2. UNCHANGED <<tip, scan>>
    BY <1>3 DEF BackoffElapses, Edit, upstreamVars
  <2>3. RowsOnFile' /\ VerdictTrue'
    BY <2>1, TouchKeeps DEF VerdictInv
  <2> QED
    BY <2>2, <2>3 DEF VerdictInv, Tips, ScansUnderWay
<1>4. CASE \E r \in Repos : Push(r) \/ GoDown(r) \/ ComeBack(r)
  <2>1. UNCHANGED <<row, scan>>
    BY <1>4 DEF Push, GoDown, ComeBack, verdictVars
  <2>2. Tips'
    <3>1. CASE \E r \in Repos : GoDown(r) \/ ComeBack(r)
      BY <3>1 DEF GoDown, ComeBack, VerdictInv, Tips
    <3>2. ASSUME NEW r \in Repos, Push(r) PROVE Tips'
      <4>1. tip[r] + 1 \in Heads /\ tip' = [tip EXCEPT ![r] = tip[r] + 1]
        BY <3>2 DEF Push
      <4> DEFINE next == tip[r] + 1
      <4> HIDE DEF next
      <4>2. next \in Heads /\ tip' = [tip EXCEPT ![r] = next]
        BY <4>1 DEF next
      <4> QED
        BY <4>2 DEF VerdictInv, Tips
    <3> QED
      BY <1>4, <3>1, <3>2
  <2> QED
    BY <2>1, <2>2 DEF VerdictInv, RowsOnFile, VerdictTrue, ScansUnderWay
<1>5. CASE UNCHANGED vars
  BY <1>5 DEF vars, verdictVars, upstreamVars, VerdictInv, RowsOnFile, VerdictTrue, Tips,
     ScansUnderWay
<1> QED
  BY <1>1, <1>2, <1>3, <1>4, <1>5

LEMMA InitVerdict == Init => VerdictInv
<1> SUFFICES ASSUME Init PROVE VerdictInv
  OBVIOUS
<1>1. row = [t \in Names |-> NoRow] /\ NoRow \in Rows /\ NoRow.status = "none"
  BY DEF Init, VerdictsInit, NoRow, Rows, Statuses
<1>2. RowsOnFile /\ VerdictTrue
  BY <1>1 DEF RowsOnFile, VerdictTrue
<1>3. Tips
  BY FirstHeadIsAHead DEF Init, Tips
<1>4. ScansUnderWay
  BY AtCarries DEF Init, ScansUnderWay
<1> QED
  BY <1>2, <1>3, <1>4 DEF VerdictInv

\* Whatever is pushed, edited, refused or killed between reading a commit and storing a
\* verdict on it, and however two scans of one tool interleave: each stored verdict is
\* true of the commit and the URL stored with it.
THEOREM VerdictsHold == Spec => []VerdictTrue
<1>1. VerdictInv /\ [Next]_vars => VerdictInv'
  BY SettleVerdict, HeadVerdict, DecideVerdict, AcquireVerdict, StoreVerdict, RefusedVerdict,
     CachesVerdict, AroundVerdict DEF Next, ScanStep
<1>2. VerdictInv => VerdictTrue
  BY DEF VerdictInv
<1> QED
  BY <1>1, <1>2, InitVerdict, PTL DEF Spec
=============================================================================
