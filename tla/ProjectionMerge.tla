-------------------------- MODULE ProjectionMerge --------------------------
(***************************************************************************)
(* catalog_projection.py: the evidence about one user script of the        *)
(* catalog and how it is merged into the record every page serves.  Two    *)
(* fields stand for all of them: `link`, a scalar that holds a URL and     *)
(* that owners may edit (bugtracker_url), and `words`, the list that a     *)
(* fill-only source may extend (keywords).                                 *)
(***************************************************************************)
EXTENDS Integers, Sequences, SequencesExt

CONSTANTS
    Urls,           \* valid URLs
    Bad,            \* what a registry may hold and is no URL
    Words,          \* keywords, and what an analysis may detect
    Talk,           \* the talk page beside the script, one of Urls
    None,           \* nothing is said of the field
    Cleared,        \* an owner's revision empties the field
    Floor, Ceiling  \* KEYWORD_FILL_FLOOR, KEYWORD_FILL_CEILING

ASSUME MergeAssumption ==
    /\ Talk \in Urls
    /\ Cardinality({Bad, None, Cleared}) = 3 /\ {Bad, None, Cleared} \cap Urls = {}
    /\ Floor \in Nat \ {0} /\ Ceiling \in Nat

Links == Urls \cup {Bad, None}
Lists == Seq(Words)

\* One approved, pending or rejected correction; `base` is the census value an owner saw,
\* and only an owner may clear a field.
Curations ==
    {c \in [kind : {"community", "owner"}, link : Urls \cup {Cleared}, base : Links,
            status : {"pending", "approved", "rejected"}] : c.kind = "community" => c.link \in Urls}
Reports == [words : Lists, libs : SUBSET Words, at : Nat, status : {"open", "approved", "rejected"}]

\* record: canonical_tool_cache; item: the crawler's; read: the inferred words, kept while
\* the reading is of the page's current bytes.
Evidence == [link : Links, words : Lists, item : Links, read : Lists,
             reports : Seq(Reports), curations : Seq(Curations)]

Valid(v) == v \in Urls

\* owner_curation_conflicts
Conflicts(e, c) == c.kind = "owner" /\ c.base # e.link

\* _latest_reports, _latest_report_times: the approved report reviewed last, of those
\* reviewed together the youngest; 0 for none.
LatestReport(e) ==
    LET approved == {i \in DOMAIN e.reports : e.reports[i].status = "approved"}
    IN  IF approved = {} THEN 0
        ELSE CHOOSE i \in approved : \A j \in approved :
               e.reports[j].at < e.reports[i].at \/ (e.reports[j].at = e.reports[i].at /\ j <= i)

\* The elements of s at the positions I.
Those(s, I) ==
    LET those[n \in 0 .. Len(s)] ==
            IF n = 0 THEN <<>> ELSE IF n \in I THEN Append(those[n - 1], s[n]) ELSE those[n - 1]
    IN  those[Len(s)]

---------------------------------------------------------------------------
(* _sources_by_tool: what is said about the tool, in the order it is read.  *)

Source(kind, link, words) == [kind |-> kind, link |-> link, words |-> words, conflict |-> FALSE]

DerivedSources == <<Source("talk", Talk, <<>>)>>

ReportSources(e) ==
    LET i == LatestReport(e)
    IN  IF i = 0 THEN <<>> ELSE <<Source("report", None, e.reports[i].words)>>

CurationSource(e, c) == [Source(c.kind, c.link, <<>>) EXCEPT !.conflict = Conflicts(e, c)]
Approved(e, kind) ==
    Those(e.curations, {i \in DOMAIN e.curations : e.curations[i].status = "approved"
                                                      /\ e.curations[i].kind = kind})
CurationSources(e) ==
    [i \in DOMAIN Approved(e, "community") |-> CurationSource(e, Approved(e, "community")[i])]
OwnerSources(e) == [i \in DOMAIN Approved(e, "owner") |-> CurationSource(e, Approved(e, "owner")[i])]

InferenceSources(e) == <<Source("inference", None, e.read)>>

Sources(e) ==
    <<Source("record", e.link, e.words)>> \o DerivedSources \o <<Source("item", e.item, <<>>)>>
        \o ReportSources(e) \o CurationSources(e) \o OwnerSources(e) \o InferenceSources(e)

---------------------------------------------------------------------------
(* _assemble: one pass over the sources, those that assert before those     *)
(* that may only fill a gap; then the corrections replace what they state.  *)

FillOnly(s) == s.kind \in {"inference", "talk"}
Fills(sources) == {i \in DOMAIN sources : FillOnly(sources[i])}
AsRead(sources) == sources
Ordered(sources) == Those(sources, DOMAIN sources \ Fills(sources)) \o Those(sources, Fills(sources))

\* The first source that names a valid value fills a scalar field.
FirstValid(sources) ==
    LET valid == {i \in DOMAIN sources : Valid(sources[i].link)}
    IN  IF valid = {} THEN None ELSE sources[Min(valid)].link

\* The words that a list lacks, in the order they are read, up to the ceiling.
Joined(list, w, ceiling) ==
    IF Contains(list, w) \/ Len(list) >= ceiling THEN list ELSE Append(list, w)
Extended(list, more, ceiling) ==
    LET joined[n \in 0 .. Len(more)] == IF n = 0 THEN list ELSE Joined(joined[n - 1], more[n], ceiling)
    IN  joined[Len(more)]

\* Declared words: the union.
MergeLists(list, more) == Extended(list, more, Len(list) + Len(more))

\* A fill-only source leaves a list alone that is long enough, and extends a short one up
\* to the ceiling.
FillWords(list, more) ==
    IF list = <<>> THEN MergeLists(list, more)
    ELSE IF Len(list) >= Floor THEN list
    ELSE Extended(list, more, Ceiling)

Merged(list, s) == IF FillOnly(s) THEN FillWords(list, s.words) ELSE MergeLists(list, s.words)
MergeWords(sources) ==
    LET list[n \in 0 .. Len(sources)] ==
            IF n = 0 THEN <<>> ELSE Merged(list[n - 1], sources[n])
    IN  list[Len(sources)]

\* _record_curation_overlay: the last correction of a kind that does not conflict.
Overlay(sources, kind) ==
    LET states == {i \in DOMAIN sources : sources[i].kind = kind /\ ~sources[i].conflict}
    IN  IF states = {} THEN None ELSE sources[Max(states)].link

\* _apply_curation_overlay, the owner's after the community's; a cleared field is empty.
Assembled(ordered) ==
    LET owner == Overlay(ordered, "owner")
        community == Overlay(ordered, "community")
    IN  [link  |-> IF owner # None THEN IF owner = Cleared THEN None ELSE owner
                   ELSE IF community # None THEN community
                   ELSE FirstValid(ordered),
         words |-> MergeWords(ordered)]
Assemble(sources) == Assembled(Ordered(sources))

\* _emit_analyzer_facets, _replace_facets: the words declared and what the report detected.
Facets(e, effective) ==
    {<<"keyword", w>> : w \in {effective.words[i] : i \in DOMAIN effective.words}}
        \cup {<<"detected", w>> : w \in IF LatestReport(e) = 0 THEN {}
                                        ELSE e.reports[LatestReport(e)].libs}

---------------------------------------------------------------------------
(* graph_enrichment._merge_sources: the union of what every source says, a *)
(* row of its own that the graph reads.                                    *)

GraphFacets(e) ==
    {e.words[i] : i \in DOMAIN e.words}
        \cup IF LatestReport(e) = 0 THEN {}
             ELSE {e.reports[LatestReport(e)].words[i] : i \in DOMAIN e.reports[LatestReport(e)].words}

GraphStatus(e) ==
    IF LatestReport(e) # 0 /\ e.reports[LatestReport(e)].words # <<>> THEN "enriched"
    ELSE IF GraphFacets(e) # {} THEN "official_only" ELSE "no_metadata"
=============================================================================
