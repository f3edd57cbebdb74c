------------------------------- MODULE Scans -------------------------------
(***************************************************************************)
(* The repository scanner: run_continuous paces a backlog lane and a       *)
(* re-check lane in one process, an operator may scan one tool beside it,   *)
(* records are edited, repositories are pushed to, hosts fail, and pods    *)
(* are killed at any step.  A poisonous repository kills the pod that      *)
(* clones it.                                                              *)
(*                                                                         *)
(* Times are relative to now and small: BacklogEvery, RefreshEvery and      *)
(* RefillEvery stand for 1, 60 and 300 seconds, Durations for what a scan  *)
(* takes.                                                                  *)
(***************************************************************************)
EXTENDS ScanVerdicts

CONSTANTS
    BacklogEvery, RefreshEvery, RefillEvery,
    Durations,      \* how long a scan may take
    Depth,          \* QUEUE_DEPTH
    Poisons,        \* the sets of URLs that may be poisonous
    MaxEvents       \* bound: edits, pushes, outages, refused stores, operator's scans
                    \* and pods killed for another reason than poison, taken together

ASSUME ScansAssumption ==
    /\ {BacklogEvery, RefreshEvery, RefillEvery, Depth} \subseteq Nat \ {0}
    /\ Durations \subseteq Nat /\ Durations # {}
    /\ Poisons \subseteq SUBSET Clones
    /\ MaxEvents \in Nat

Scanners == {"worker", "operator"}
Lanes == {"backlog", "refresh"}

VARIABLES
    tip,            \* the HEAD of each repository
    access,         \* "open", "down" or "private"
    poison,         \* URLs whose clone kills the pod
    scan,           \* the scan each process is at
    queue, due,     \* _Stream: the pending work of a lane, and when it may start
    refill,         \* _Scanner.refill_at
    events

scannerVars == <<queue, due, refill>>
upstreamVars == <<tip, access, poison>>
vars == <<verdictVars, upstreamVars, scan, scannerVars, events>>

Event == events < MaxEvents /\ events' = events + 1

Steps == {"dead", "idle", "begin", "decide", "fetch", "store", "caches"}
ScanAt(step, t, url, force) ==
    [step |-> step, tool |-> t, url |-> url, force |-> force,
     decided |-> NoCommit, head |-> NoCommit]
At(step) == ScanAt(step, NoUrl, NoUrl, FALSE)
FirstHead == CHOOSE h \in Heads : \A g \in Heads : h <= g

Init ==
    /\ VerdictsInit
    /\ tip = [r \in Repos |-> FirstHead]
    /\ access = [r \in Repos |-> "open"]
    /\ poison \in Poisons
    /\ scan = [s \in Scanners |-> At("dead")]
    /\ queue = [l \in Lanes |-> <<>>]
    /\ due = [l \in Lanes |-> 0]
    /\ refill = 0
    /\ events = 0

---------------------------------------------------------------------------
(* run_continuous: the lane most overdue runs next.                         *)

Interval(l) == IF l = "backlog" THEN BacklogEvery ELSE RefreshEvery

\* min by (due_at, rank); the backlog has the lower rank.
NextLane == IF due["backlog"] <= due["refresh"] THEN "backlog" ELSE "refresh"

Later(d, l, t) == [k \in Lanes |-> IF k = l THEN t ELSE d[k]]

\* _Scanner.take, after _sleep_until: the queues are refilled when that is due.
Take ==
    LET l      == NextLane
        waited == IF due[l] > 0 THEN due[l] ELSE 0
        full   == refill - waited <= 0
        q      == IF full THEN [k \in Lanes |-> Partition(k, Depth)] ELSE queue
        at     == IF full THEN RefillEvery ELSE refill - waited
        now    == [k \in Lanes |-> due[k] - waited]
    IN  /\ scan["worker"].step = "idle"
        /\ refill' = at
        /\ IF q[l] = <<>>
           THEN /\ due' = Later(now, l, IF at > Interval(l) THEN at ELSE Interval(l))
                /\ queue' = q
                /\ UNCHANGED scan
           ELSE /\ due' = Later(now, l, Interval(l))
                /\ queue' = [q EXCEPT ![l] = Tail(@)]
                /\ scan' = [scan EXCEPT !["worker"] =
                              ScanAt("begin", Head(q[l]).tool, Head(q[l]).url, FALSE)]
        /\ UNCHANGED <<verdictVars, upstreamVars, events>>

Start ==
    /\ scan["worker"].step = "dead"
    /\ scan' = [scan EXCEPT !["worker"] = At("idle")]
    /\ queue' = [l \in Lanes |-> <<>>]
    /\ due' = [l \in Lanes |-> 0]
    /\ refill' = 0
    /\ UNCHANGED <<verdictVars, upstreamVars, events>>

\* run(tool_name=..., force=True)
ForceScan(t) ==
    /\ scan["operator"].step = "dead"
    /\ Event
    /\ scan' = [scan EXCEPT !["operator"] = ScanAt("begin", t, record[t], TRUE)]
    /\ UNCHANGED <<verdictVars, upstreamVars, scannerVars>>

---------------------------------------------------------------------------
(* scan_tool: the settled verdicts, the HEAD, the decision, the fetch, the  *)
(* store, and the caches derived from what was stored.                     *)

\* A scan that returns has taken some time; the operator's takes none of the worker's.
Return(s) ==
    /\ scan' = [scan EXCEPT ![s] = At(IF s = "worker" THEN "idle" ELSE "dead")]
    /\ IF s = "operator" THEN UNCHANGED scannerVars
       ELSE \E d \in Durations :
                /\ due' = [l \in Lanes |-> due[l] - d]
                /\ refill' = IF refill > d THEN refill - d ELSE 0
                /\ UNCHANGED queue

Goes(s, step) ==
    /\ scan' = [scan EXCEPT ![s].step = step]
    /\ UNCHANGED scannerVars

\* git refusing to ask for a login settles the row; any other failure waits.
Fails(s) ==
    LET p == scan[s]
    IN  /\ IF p.url \in Repos /\ access[p.url] = "private" THEN SaveRestricted(p.tool, p.url)
                                                       ELSE SaveFailure(p.tool, p.url)
        /\ Return(s)

SettleWithoutRequest(s) ==
    LET p == scan[s]
    IN  /\ p.step = "begin" /\ p.url \in Nowhere
        /\ SaveUnsupported(p.tool, p.url)
        /\ Return(s)
        /\ UNCHANGED <<record, upstreamVars, events>>

RepositoryHead(s) ==
    LET p == scan[s]
    IN  /\ p.step = "begin" /\ p.url \in Repos
        /\ IF p.url \in Pages \/ access[p.url] = "open"
           THEN /\ scan' = [scan EXCEPT ![s].step = "decide",
                            ![s].head = IF p.url \in Pages THEN NoCommit ELSE tip[p.url]]
                /\ UNCHANGED <<row, checked, scannerVars>>
           ELSE Fails(s)
        /\ UNCHANGED <<record, upstreamVars, events>>

Decide(s) ==
    LET p == scan[s]
        known == CurrentHead(p.tool, p.url)
    IN  /\ p.step = "decide"
        /\ IF ~p.force /\ p.head # NoCommit /\ p.head = known
           THEN Opened(p.tool) /\ Stamp(p.tool) /\ Return(s)
           ELSE IF row[p.tool].retry /\ ~p.force
           THEN UNCHANGED <<row, checked>> /\ Return(s)
           ELSE /\ StampAttempt(p.tool)
                /\ scan' = [scan EXCEPT ![s].step = "fetch", ![s].decided = known]
                /\ UNCHANGED scannerVars
        /\ UNCHANGED <<record, upstreamVars, events>>

\* The commit a verdict is stored against is the one that was read (fault: the one that
\* was advertised).
AdvertisedHead(s) == IF scan[s].url \in Pages THEN tip[scan[s].url] ELSE scan[s].head
AcquiredHead(s) == tip[scan[s].url]

\* _acquire_clone or _acquire_wiki, the second check, and the verdict on no files.
Acquire(s) ==
    LET p == scan[s]
        head == tip[p.url]
    IN  /\ p.step = "fetch" /\ p.url \notin poison
        /\ IF access[p.url] # "open" THEN Fails(s)
           ELSE IF ~p.force /\ p.decided # NoCommit /\ head = p.decided
           THEN UNCHANGED <<row, checked>> /\ Return(s)
           ELSE IF Content[<<p.url, head>>] = "nothing"
           THEN /\ IF p.url \in Pages THEN SaveFailure(p.tool, p.url)
                   ELSE SaveNoSource(p.tool, p.url, AcquiredHead(s))
                /\ Return(s)
           ELSE /\ scan' = [scan EXCEPT ![s].step = "store", ![s].head = AcquiredHead(s)]
                /\ UNCHANGED <<row, checked, scannerVars>>
        /\ UNCHANGED <<record, upstreamVars, events>>

\* The report and the row are stored in one transaction, which the database may refuse.
StoreReport(s) ==
    LET p == scan[s]
    IN  /\ p.step = "store"
        /\ SaveAnalyzed(p.tool, p.url, p.head)
        /\ Goes(s, "caches")
        /\ UNCHANGED <<record, upstreamVars, events>>

StoreRefused(s) ==
    /\ scan[s].step = "store"
    /\ Event
    /\ SaveFailure(scan[s].tool, scan[s].url)
    /\ Return(s)
    /\ UNCHANGED <<record, upstreamVars>>

\* _refresh_caches: the report is durable, so a failure is only reported (fault: it is
\* saved as a failed scan).
CachesFail(s) == SaveFailure(scan[s].tool, scan[s].url)
CachesStale(s) == UNCHANGED <<row, checked>>

RefreshCaches(s) ==
    /\ scan[s].step = "caches"
    /\ CachesStale(s) \/ UNCHANGED <<row, checked>>
    /\ Return(s)
    /\ UNCHANGED <<record, upstreamVars, events>>

ScanStep(s) ==
    \/ SettleWithoutRequest(s) \/ RepositoryHead(s) \/ Decide(s) \/ Acquire(s)
    \/ StoreReport(s) \/ StoreRefused(s) \/ RefreshCaches(s)

---------------------------------------------------------------------------
(* Time, pods, hosts and records.                                          *)

BackoffElapses(t) ==
    /\ row[t].retry
    /\ row' = [row EXCEPT ![t].retry = FALSE]
    /\ UNCHANGED <<record, checked, upstreamVars, scan, scannerVars, events>>

Dies(s) ==
    /\ scan' = [scan EXCEPT ![s] = At("dead")]
    /\ queue' = IF s = "worker" THEN [l \in Lanes |-> <<>>] ELSE queue
    /\ due' = IF s = "worker" THEN [l \in Lanes |-> 0] ELSE due
    /\ refill' = IF s = "worker" THEN 0 ELSE refill
    /\ UNCHANGED <<verdictVars, upstreamVars>>

Poisoned(s) ==
    /\ scan[s].step = "fetch" /\ scan[s].url \in poison
    /\ Dies(s)
    /\ UNCHANGED events

Kill(s) ==
    /\ scan[s].step # "dead"
    /\ Event
    /\ Dies(s)

Edit(t) ==
    /\ Event
    /\ \E u \in Urls \ {record[t]} : record' = [record EXCEPT ![t] = u]
    /\ UNCHANGED <<row, checked, upstreamVars, scan, scannerVars>>

Push(r) ==
    /\ Event
    /\ tip[r] + 1 \in Heads
    /\ tip' = [tip EXCEPT ![r] = @ + 1]
    /\ UNCHANGED <<verdictVars, access, poison, scan, scannerVars>>

\* A repository that goes private does not come back: the row would stay restricted.
GoDown(r) ==
    /\ Event
    /\ access[r] = "open"
    /\ \E a \in IF r \in Pages THEN {"down"} ELSE {"down", "private"} :
           access' = [access EXCEPT ![r] = a]
    /\ UNCHANGED <<verdictVars, tip, poison, scan, scannerVars>>

ComeBack(r) ==
    /\ access[r] = "down"
    /\ access' = [access EXCEPT ![r] = "open"]
    /\ UNCHANGED <<verdictVars, tip, poison, scan, scannerVars, events>>

Next ==
    \/ Take \/ Start
    \/ \E t \in Names : ForceScan(t) \/ BackoffElapses(t) \/ Edit(t)
    \/ \E s \in Scanners : ScanStep(s) \/ Poisoned(s) \/ Kill(s)
    \/ \E r \in Repos : Push(r) \/ GoDown(r) \/ ComeBack(r)

Spec == Init /\ [][Next]_vars

\* Kubernetes restarts the pod, the loop has no other way out, a backoff ends, and a
\* host that is down comes back.
FairSpec ==
    /\ Spec
    /\ WF_vars(Start) /\ WF_vars(Take)
    /\ \A s \in Scanners : WF_vars(ScanStep(s) \/ Poisoned(s))
    /\ \A t \in Names : WF_vars(BackoffElapses(t))
    /\ \A r \in Repos : WF_vars(ComeBack(r))

---------------------------------------------------------------------------
\* A verdict about a commit is a verdict about what that commit holds, although HEAD is
\* read once before the decision and once more by the clone, and moves in between.
VerdictTrue == \A t \in Names :
    /\ row[t].status = "analyzed" => Content[<<row[t].url, row[t].commit>>] = "source"
    /\ row[t].status = "no_source" => Content[<<row[t].url, row[t].commit>>] = "nothing"

\* The row of a tool says what its record and the repository at present call for.
Right(t) ==
    LET u == record[t]
    IN  /\ row[t].url = u
        /\ row[t].status =
             IF u \in Nowhere THEN "unsupported"
             ELSE IF access[u] = "private" THEN "restricted"
             ELSE IF Content[<<u, tip[u]>>] = "source" THEN "analyzed"
             ELSE IF u \in Pages THEN "error" ELSE "no_source"
        /\ row[t].status \in {"analyzed", "no_source"} => row[t].commit = tip[u]

\* Edits, pushes, outages, kills, a second scanner that finishes late and caches that
\* will not rebuild leave no row wrong for good.
Settles == poison = {} => \A t \in Names : <>[]Right(t)

\* A poisonous repository costs the other tools of the backlog nothing but time: each
\* one is read in the end.
Reached == \A t \in Names : []<>(record[t] \in poison \/ row[t].status \notin {"none", "pending"})
=============================================================================
