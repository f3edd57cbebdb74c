---------------------------- MODULE ScanVerdicts ----------------------------
(***************************************************************************)
(* repository_scan.py: what is on file about the repository of a tool, and *)
(* how a row of repository_analysis_state is read and written.             *)
(*                                                                         *)
(* A row carries the URL it was reached at and, where a commit was read,   *)
(* the commit.  Failed rows wait out a backoff; rows settled as unsupported *)
(* or restricted wait for their record to be edited; rows with a report or  *)
(* without source are re-checked by their HEAD.                             *)
(* The length of a backoff, the reports themselves and the authorship       *)
(* columns are left out.                                                    *)
(***************************************************************************)
EXTENDS Integers, Sequences, FiniteSets, SequencesExt

CONSTANTS
    Tools,          \* in the order of their names
    Clones,         \* URLs of git projects
    Pages,          \* URLs of wiki page sets: they have no cheap head
    Nowhere,        \* URLs on no allowed host, or naming no project
    Heads,          \* commits, in the order they are pushed
    Content,        \* what a URL holds at a commit: "source" or "nothing"
    Records,        \* the records to start from
    NoUrl, NoCommit

Repos == Clones \cup Pages
Urls == Repos \cup Nowhere

ASSUME VerdictsAssumption ==
    /\ Clones \cap Pages = {} /\ Repos \cap Nowhere = {} /\ NoUrl \notin Urls
    /\ Heads \subseteq Nat /\ Heads # {} /\ NoCommit \notin Heads
    /\ Records \subseteq [ToSet(Tools) -> Urls]
    /\ Content \in [Repos \X Heads -> {"source", "nothing"}]

VARIABLES
    record,         \* the repository URL of each canonical record
    row,            \* repository_analysis_state
    checked         \* the tools with a checked_at, least recent first

verdictVars == <<record, row, checked>>

Names == ToSet(Tools)
Statuses == {"none", "pending", "analyzed", "error", "restricted", "unsupported", "no_source"}
Rows == [status : Statuses, url : Urls \cup {NoUrl}, commit : Heads \cup {NoCommit},
         retry : BOOLEAN]

NoRow == [status |-> "none", url |-> NoUrl, commit |-> NoCommit, retry |-> FALSE]

VerdictsInit ==
    /\ record \in Records
    /\ row = [t \in Names |-> NoRow]
    /\ checked = <<>>

\* _current_head: the commit this tool was decided at, from this URL.
CurrentHead(t, url) ==
    IF row[t].status \in {"analyzed", "no_source"} /\ row[t].url = url THEN row[t].commit
                                                                     ELSE NoCommit

HasReport(t) == row[t].status = "analyzed"
SettledNoSource(t) == row[t].status = "no_source" /\ row[t].commit # NoCommit
Settled(t) == row[t].status \in {"unsupported", "restricted"} /\ row[t].url = record[t]

\* Every save writes checked_at with the row.
Stamp(t) == checked' = Append(SelectSeq(checked, LAMBDA x : x # t), t)
Save(t, new) == row' = [row EXCEPT ![t] = new] /\ Stamp(t)

SaveFailure(t, url) ==
    Save(t, [row[t] EXCEPT !.status = "error", !.url = url, !.retry = TRUE])
SaveRestricted(t, url) ==
    Save(t, [row[t] EXCEPT !.status = "restricted", !.url = url, !.retry = FALSE])
SaveUnsupported(t, url) ==
    Save(t, [row[t] EXCEPT !.status = "unsupported", !.url = url, !.retry = FALSE])
SaveNoSource(t, url, head) ==
    Save(t, [status |-> "no_source", url |-> url, commit |-> head, retry |-> FALSE])
SaveAnalyzed(t, url, head) ==
    Save(t, [status |-> "analyzed", url |-> url, commit |-> head, retry |-> FALSE])

\* _decide, when the scan goes ahead: the attempt is stamped before the fetch (fault:
\* only a scan that returns leaves a trace).
Opened(t) == row' = [row EXCEPT ![t].status = IF @ = "none" THEN "pending" ELSE @]
StampsNothing(t) == Opened(t) /\ UNCHANGED checked
StampAttempt(t) == Opened(t) /\ Stamp(t)

\* _scan_order: never recorded first, then the least recently checked.
NameAt(t) == CHOOSE i \in DOMAIN Tools : Tools[i] = t
Order(t) ==
    IF row[t].status = "none" THEN <<0, 0, NameAt(t)>>
    ELSE IF t \in ToSet(checked)
         THEN <<1, CHOOSE i \in DOMAIN checked : checked[i] = t, NameAt(t)>>
         ELSE <<1, 0, NameAt(t)>>
Before(a, b) ==
    LET first == Order(a)  second == Order(b)
    IN  \/ first[1] < second[1]
        \/ first[1] = second[1] /\ first[2] < second[2]
        \/ first[1] = second[1] /\ first[2] = second[2] /\ first[3] < second[3]

\* partition_candidates: the two lanes' queues, at most depth entries each.
InRefresh(t) == HasReport(t) \/ SettledNoSource(t)
InBacklog(t) == ~InRefresh(t) /\ ~Settled(t) /\ ~row[t].retry
Partition(lane, depth) ==
    LET all   == {t \in Names : IF lane = "refresh" THEN InRefresh(t) ELSE InBacklog(t)}
        queue == SetToSortSeq(all, Before)
    IN  [i \in 1 .. IF Len(queue) < depth THEN Len(queue) ELSE depth |->
            [tool |-> queue[i], url |-> record[queue[i]]]]
=============================================================================
