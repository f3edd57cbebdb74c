----------------------------- MODULE Projection -----------------------------
(***************************************************************************)
(* From evidence to what is served: producers change what is known of a    *)
(* tool and then, in transactions of their own, refresh its graph row and  *)
(* its projection; two scheduled sweeps repair what was missed; links are  *)
(* probed.  Every transaction reads a snapshot when it begins and writes   *)
(* when it commits (REPEATABLE READ), and any process may be killed        *)
(* between two of its steps.                                               *)
(*                                                                         *)
(* `clock` counts the moments a report is stored or reviewed.  The columns *)
(* hold seconds, and a report is stamped before its transaction commits:   *)
(* if Coarse, a report may bear the stamp of a refresh that began before   *)
(* and did not see it; otherwise every report comes at a moment of its own.*)
(***************************************************************************)
EXTENDS ProjectionMerge, FiniteSets

CONSTANTS
    Writers,        \* processes that change evidence: jobs and web requests
    Records,        \* [link, words] the census may store
    Patches,        \* [words, libs] a source analysis may report
    Reading,        \* the keywords a model reads off the page
    Offers,         \* links that a registry names and people propose
    Starts,         \* evidence the run starts from
    Coarse,         \* may a report bear the second of the refresh before it?
    MaxEdits,       \* bound: changes of the evidence
    MaxFaults       \* bound: batches that fail, pods killed

ASSUME ProjectionAssumption ==
    /\ Starts \subseteq Evidence
    /\ Records \subseteq [link : Links, words : Lists]
    /\ Patches \subseteq [words : Lists, libs : SUBSET Words]
    /\ Reading \in Lists
    /\ Offers \subseteq Urls
    /\ {MaxEdits, MaxFaults} \subseteq Nat /\ Coarse \in BOOLEAN

VARIABLES
    evidence,
    clock,
    graph,          \* graph_tool_enrichment
    row,            \* catalog_tool_projection
    facets,         \* catalog_facet_values
    overtaken,      \* history: what the last batch to commit had read was no longer there
    run,            \* where each process is
    edits, faults

rows == <<graph, row, facets, overtaken>>
projectionVars == <<evidence, clock, rows, run, edits, faults>>

Sweeper == "sweep"
Prober == "catalog-validation"
Procs == Writers \cup {Sweeper, Prober}

NoRow == [status |-> "none", provenance |-> <<>>, report |-> 0, link |-> None, words |-> <<>>,
          checked |-> None, at |-> 0, waiting |-> FALSE]
NoGraph == [status |-> "none", facets |-> {}, waiting |-> FALSE]

GraphRow(e) == [status |-> GraphStatus(e), facets |-> GraphFacets(e), waiting |-> FALSE]

\* _preserve_url_checks: a probe is carried forward only while the link is the same.
PreservedCheck(old, link) == IF old.checked = link THEN old.checked ELSE None

\* The row that a batch assembles from evidence e, at `now`, over the row it read.  Of its
\* fields `report` is what the facet rows were made from; the others are columns.
ProjectedAtCommit(e, sources, effective, old, now) ==
    [status |-> "ready", provenance |-> sources, report |-> LatestReport(e),
     link |-> effective.link, words |-> effective.words,
     checked |-> PreservedCheck(old, effective.link), at |-> clock, waiting |-> FALSE]
Projected(e, sources, effective, old, now) ==
    [status |-> "ready", provenance |-> sources, report |-> LatestReport(e),
     link |-> effective.link, words |-> effective.words,
     checked |-> PreservedCheck(old, effective.link), at |-> now, waiting |-> FALSE]

\* Columns: effective_record is one, and validation counts the invalid claims too.
Record(r) == <<r.link, r.words>>
Validation(r) ==
    <<r.checked, r.link = None, Cardinality({i \in DOMAIN r.provenance : r.provenance[i].link = Bad})>>

\* The UPDATE carries the columns whose value differs from what the batch read; the others
\* keep what another batch, a probe or a failure has put there since.
Written(read, current, new) ==
    [new EXCEPT
       !.provenance = IF @ = read.provenance THEN current.provenance ELSE @,
       !.link = IF Record(new) = Record(read) THEN current.link ELSE @,
       !.words = IF Record(new) = Record(read) THEN current.words ELSE @,
       !.checked = IF Validation(new) = Validation(read) THEN current.checked ELSE @,
       !.status = IF read.status = "ready" THEN current.status ELSE @,
       !.waiting = read.status = "ready" /\ current.waiting]

Idle == [at |-> "idle", evidence |-> CHOOSE e \in Starts : TRUE, row |-> NoRow, now |-> 0, link |-> None]
Steps == {"idle", "graph", "graph failed", "project", "assemble", "failed", "record"}

ProjectionInit ==
    /\ evidence \in Starts
    /\ clock = 0
    /\ \/ evidence.curations = <<>> /\ graph = NoGraph /\ row = NoRow /\ facets = {}
       \/ /\ graph = GraphRow(evidence)
          /\ row = Projected(evidence, Sources(evidence), Assemble(Sources(evidence)), NoRow, 0)
          /\ facets = Facets(evidence, Assemble(Sources(evidence)))
    /\ run = [p \in Procs |-> Idle]
    /\ overtaken = FALSE
    /\ edits = 0
    /\ faults = 0

Goes(p, step) == run' = [run EXCEPT ![p] = [Idle EXCEPT !.at = step]]

---------------------------------------------------------------------------
(* Producers.  Each stores what it learned and then refreshes the tool: the *)
(* graph row first, the projection after it, or the projection alone.      *)

Edits(p, step) ==
    /\ run[p].at = "idle"
    /\ edits < MaxEdits
    /\ edits' = edits + 1
    /\ Goes(p, step)
    /\ UNCHANGED <<graph, row, facets, overtaken, faults>>

\* userscript_toolinfo.synchronize
WriteRecord(p, r) ==
    /\ <<evidence.link, evidence.words>> # <<r.link, r.words>>
    /\ evidence' = [evidence EXCEPT !.link = r.link, !.words = r.words]
    /\ UNCHANGED clock
    /\ Edits(p, "project")

StoreItem(p, link) ==
    /\ link # evidence.item
    /\ evidence' = [evidence EXCEPT !.item = link]
    /\ UNCHANGED clock
    /\ Edits(p, "graph")

Report(patch, status, at) == [words |-> patch.words, libs |-> patch.libs, at |-> at, status |-> status]

\* The scanner's report is approved on write; a submitted one is open until its owner
\* reviews it, and a review refreshes nothing.
Moments == IF Coarse THEN {clock, clock + 1} ELSE {clock + 1}
StoreReport(p, patch) ==
    /\ clock' \in Moments
    /\ evidence' = [evidence EXCEPT !.reports = Append(@, Report(patch, "approved", clock'))]
    /\ Edits(p, "graph")

SubmitReport(p, patch) ==
    /\ evidence' = [evidence EXCEPT !.reports = Append(@, Report(patch, "open", 0))]
    /\ UNCHANGED clock
    /\ Edits(p, "idle")

ReviewReport(p, i, status) ==
    /\ evidence.reports[i].status # status
    /\ clock' \in Moments
    /\ evidence' = [evidence EXCEPT !.reports[i].status = status,
                                    !.reports[i].at = IF status = "open" THEN 0 ELSE clock']
    /\ Edits(p, "idle")

Propose(p, kind, link) ==
    /\ evidence' = [evidence EXCEPT !.curations =
                      Append(@, [kind |-> kind, link |-> link, status |-> "pending",
                                 base |-> IF kind = "owner" THEN evidence.link ELSE None])]
    /\ kind = "community" => link # Cleared
    /\ UNCHANGED clock
    /\ Edits(p, "idle")

\* An owner's edit of a value the census has changed since is not approved.
ReviewCuration(p, i, status) ==
    LET c == evidence.curations[i]
    IN  /\ c.status # status
        /\ ~(status = "approved" /\ Conflicts(evidence, c))
        /\ evidence' = [evidence EXCEPT !.curations[i].status = status]
        /\ UNCHANGED clock
        /\ Edits(p, "project")

\* A reading holds while the page does not change.
StoreReading(p) ==
    /\ evidence.read # Reading
    /\ evidence' = [evidence EXCEPT !.read = Reading]
    /\ UNCHANGED clock
    /\ Edits(p, "project")

PageChanges(p) ==
    /\ evidence.read # <<>>
    /\ evidence' = [evidence EXCEPT !.read = <<>>]
    /\ UNCHANGED clock
    /\ Edits(p, "idle")

Produce(p) ==
    \/ \E r \in Records : WriteRecord(p, r)
    \/ \E u \in Offers : StoreItem(p, u)
    \/ \E patch \in Patches : StoreReport(p, patch) \/ SubmitReport(p, patch)
    \/ \E i \in DOMAIN evidence.reports, s \in {"open", "approved", "rejected"} : ReviewReport(p, i, s)
    \/ \E k \in {"community", "owner"}, u \in Offers \cup {Cleared} : Propose(p, k, u)
    \/ \E i \in DOMAIN evidence.curations, s \in {"approved", "rejected"} : ReviewCuration(p, i, s)
    \/ StoreReading(p)
    \/ PageChanges(p)

---------------------------------------------------------------------------
(* graph_enrichment._refresh_batch and catalog_projection._refresh_batch.   *)

Fault == faults < MaxFaults /\ faults' = faults + 1

\* The graph row is merged in one transaction; nothing here reads it but the sweep, so
\* that transaction is one step.
MergeGraph(p) ==
    /\ run[p].at = "graph"
    /\ graph' = GraphRow(evidence)
    /\ Goes(p, "project")
    /\ UNCHANGED <<evidence, clock, row, facets, overtaken, edits, faults>>

\* The projection's first read: everything it reads is as it was then.
ReadEvidence(p) ==
    /\ run[p].at = "project"
    /\ run' = [run EXCEPT ![p].at = "assemble", ![p].evidence = evidence, ![p].row = row, ![p].now = clock]
    /\ UNCHANGED <<evidence, clock, rows, edits, faults>>

ProjectTool(p) ==
    /\ run[p].at = "assemble"
    /\ run[p].row.status = "none" => row.status = "none"
    /\ \E sources \in {Sources(run[p].evidence)} : \E ordered \in {Ordered(sources)} :
       \E effective \in {Assembled(ordered)} :
          /\ row' = Written(run[p].row, row,
                            Projected(run[p].evidence, sources, effective, run[p].row, run[p].now))
          /\ facets' = Facets(run[p].evidence, effective)
    /\ overtaken' = (<<row.provenance, Record(row)>> # <<run[p].row.provenance, Record(run[p].row)>>)
    /\ Goes(p, "idle")
    /\ UNCHANGED <<evidence, clock, graph, edits, faults>>

\* Two batches insert the same row: the second of them fails.
Collide(p) ==
    /\ run[p].at = "assemble"
    /\ run[p].row.status = "none" /\ row.status # "none"
    /\ Goes(p, "failed")
    /\ UNCHANGED <<evidence, clock, rows, edits, faults>>

\* A batch that fails is recorded as failed in a transaction of its own, with a delay
\* before the next attempt.
BatchFails(p) ==
    /\ run[p].at \in {"graph", "assemble"}
    /\ Fault
    /\ Goes(p, IF run[p].at = "graph" THEN "graph failed" ELSE "failed")
    /\ UNCHANGED <<evidence, clock, rows, edits>>

MarkGraphFailure(p) ==
    /\ run[p].at = "graph failed"
    /\ graph' = [graph EXCEPT !.status = "error", !.waiting = TRUE]
    /\ Goes(p, "project")
    /\ UNCHANGED <<evidence, clock, row, facets, overtaken, edits, faults>>

MarkFailure(p) ==
    /\ run[p].at = "failed"
    /\ row' = [row EXCEPT !.status = "error", !.waiting = TRUE]
    /\ Goes(p, "idle")
    /\ UNCHANGED <<evidence, clock, graph, facets, overtaken, edits, faults>>

BackoffEnds ==
    /\ row.waiting \/ graph.waiting
    /\ row' = [row EXCEPT !.waiting = FALSE]
    /\ graph' = [graph EXCEPT !.waiting = FALSE]
    /\ UNCHANGED <<evidence, clock, facets, overtaken, run, edits, faults>>

---------------------------------------------------------------------------
(* The sweeps: refresh_candidates of either module.                         *)

GraphCandidate == ~graph.waiting /\ graph.status \in {"none", "error"}

ServesDetected == \E f \in facets : f[1] = "detected"

NewerReport ==
    LET i == LatestReport(evidence) IN i # 0 /\ evidence.reports[i].at > row.at

Candidate ==
    /\ ~row.waiting
    /\ \/ row.status \in {"none", "error"}
       \/ NewerReport
       \/ ServesDetected /\ LatestReport(evidence) = 0

SweepGraph ==
    /\ run[Sweeper].at = "idle"
    /\ GraphCandidate
    /\ Goes(Sweeper, "graph")
    /\ UNCHANGED <<evidence, clock, rows, edits, faults>>

SweepProjection ==
    /\ run[Sweeper].at = "idle"
    /\ Candidate
    /\ Goes(Sweeper, "project")
    /\ UNCHANGED <<evidence, clock, rows, edits, faults>>

---------------------------------------------------------------------------
(* catalog_validation: a link that was never probed is; what came of it is *)
(* stored if the link is still the one that was probed.                    *)

ReadNeverProbed ==
    /\ run[Prober].at = "idle"
    /\ row.link # None /\ row.checked = None
    /\ run' = [run EXCEPT ![Prober].at = "record", ![Prober].link = row.link]
    /\ UNCHANGED <<evidence, clock, rows, edits, faults>>

\* The link was chosen and fetched before this read; if the row has another by now the
\* result is dropped and nothing happens.
ReadProbed ==
    /\ run[Prober].at = "idle"
    /\ row.link # None /\ row.checked # row.link
    /\ run' = [run EXCEPT ![Prober].at = "record", ![Prober].link = row.link]
    /\ UNCHANGED <<evidence, clock, rows, edits, faults>>

RecordProbe ==
    /\ run[Prober].at = "record"
    /\ row' = [row EXCEPT !.checked = run[Prober].link]
    /\ Goes(Prober, "idle")
    /\ UNCHANGED <<evidence, clock, graph, facets, overtaken, edits, faults>>

---------------------------------------------------------------------------

Kill(p) ==
    /\ run[p].at # "idle"
    /\ Fault
    /\ Goes(p, "idle")
    /\ UNCHANGED <<evidence, clock, rows, edits>>

Step(p) ==
    \/ MergeGraph(p) \/ MarkGraphFailure(p)
    \/ ReadEvidence(p) \/ ProjectTool(p) \/ Collide(p) \/ MarkFailure(p)

Sweep == SweepGraph \/ SweepProjection
Probe == ReadProbed \/ RecordProbe

ProjectionNext ==
    \/ \E p \in Writers : Produce(p)
    \/ \E p \in Procs : Step(p) \/ BatchFails(p) \/ Kill(p)
    \/ Sweep
    \/ Probe
    \/ BackoffEnds

ProjectionSpec == ProjectionInit /\ [][ProjectionNext]_projectionVars

\* A process that is not killed goes on: in the middle of a refresh its next step is always
\* possible, so this is WF_projectionVars(Step(p)).
GoesOn(p) == []<>(run[p].at \in {"idle", "record"}) \/ []<><<Step(p)>>_projectionVars

\* The jobs are scheduled again and again, and the delay after a failure passes.
FairProjection ==
    /\ ProjectionSpec
    /\ \A p \in Procs : GoesOn(p)
    /\ WF_projectionVars(SweepGraph) /\ WF_projectionVars(SweepProjection)
    /\ WF_projectionVars(Probe) /\ WF_projectionVars(BackoffEnds)

---------------------------------------------------------------------------
(* Properties.                                                              *)

ProjectionTypes ==
    /\ evidence.link \in Links /\ evidence.item \in Links
    /\ clock \in 0 .. MaxEdits
    /\ row.status \in {"none", "ready", "error"} /\ row.link \in Urls \cup {None} /\ row.checked \in Urls \cup {None}
    /\ graph.status \in {"none", "error", "enriched", "official_only", "no_metadata"}
    /\ \A p \in Procs : run[p].at \in Steps
    /\ edits \in 0 .. MaxEdits /\ faults \in 0 .. MaxFaults

\* The facet rows of a tool are those of the record served beside them (_replace_facets).
FacetsMatch ==
    facets = {<<"keyword", row.words[i]>> : i \in DOMAIN row.words}
                  \cup {<<"detected", l>> : l \in IF row.report = 0 THEN {}
                                                  ELSE evidence.reports[row.report].libs}

\* What the merge must come to, said without the order it works in: an owner's revision
\* that does not conflict, then the community's, then what the registries assert, and only
\* then a source that may fill a gap; inferred keywords join a list that is still short, and
\* none is shown twice.
Agrees(sources, link, list) ==
    LET said(kinds) == {i \in DOMAIN sources : sources[i].kind \in kinds}
        valid(kinds) == {i \in said(kinds) : Valid(sources[i].link)}
        stands == {i \in said({"owner"}) : ~sources[i].conflict}
        last(S) == sources[CHOOSE i \in S : \A j \in S : j <= i].link
        first(S) == sources[CHOOSE i \in S : \A j \in S : i <= j].link
        asserts == {"record", "item", "report", "community", "owner"}
        words(kinds) == UNION {{sources[i].words[n] : n \in DOMAIN sources[i].words} : i \in said(kinds)}
        shown == {list[i] : i \in DOMAIN list}
    IN  /\ link = IF stands # {} THEN IF last(stands) = Cleared THEN None ELSE last(stands)
                  ELSE IF valid({"community"}) # {} THEN last(valid({"community"}))
                  ELSE IF valid(asserts) # {} THEN first(valid(asserts))
                  ELSE first(valid({"talk"}))
        /\ words(asserts) \subseteq shown /\ shown \subseteq words(asserts \cup {"inference"})
        /\ Cardinality(words(asserts)) >= Floor => shown = words(asserts)
        /\ IsInjective(list)
        /\ words(asserts) # {} /\ Len(list) > Cardinality(words(asserts)) => Len(list) <= Ceiling
MergeAgrees == row.provenance # <<>> => Agrees(row.provenance, row.link, row.words)

\* What is served of a tool is consistent, the row, its facets and the merge, unless the
\* last batch to commit was overtaken by one that changed the row behind its back: then the
\* columns it did not touch are the other's, and the facets its own.
RowsAgree == ProjectionTypes /\ (~overtaken => FacetsMatch /\ MergeAgrees)

\* Whatever fails, overlaps or is killed, the rows are ready in the end.
ErrorsClear == <>[](row.status = "ready" /\ graph.status \notin {"none", "error"})

\* The report approved last is what the facets show in the end, even when the scanner
\* was killed before it refreshed, when the batch failed, or when a batch that began before
\* the report was stored committed after.  A report that was withdrawn may stay while an
\* earlier one is still approved, or if nothing was detected in it.
ReportsReach ==
    <>[](\/ row.report = LatestReport(evidence)
         \/ /\ row.report # 0
            /\ evidence.reports[row.report].status # "approved"
            /\ LatestReport(evidence) # 0 \/ evidence.reports[row.report].libs = {})

\* The link a page shows is probed in the end, though a probe and a refresh each overwrite
\* what the other has just stored.
LinksChecked == <>[](row.link # None => row.checked = row.link)

\* Whatever failed or was killed, nothing is left half done.
Mended == ErrorsClear /\ LinksChecked
=============================================================================
