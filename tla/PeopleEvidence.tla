--------------------------- MODULE PeopleEvidence ---------------------------
(***************************************************************************)
(* backend/people_index.py and maintainer_index.py: who is behind a tool.  *)
(* Every source states observations about a tool.  One that identifies a   *)
(* person becomes evidence; a bare label becomes evidence only when an     *)
(* independent source proves that the person so named holds this tool, and *)
(* waits in the backlog otherwise.  The public edges of a tool, and the    *)
(* activity summaries, are collapsed from its current evidence.            *)
(*                                                                         *)
(* A withdrawn evidence row takes part in nothing and is left out; an      *)
(* unresolved row keeps its id when it is withdrawn and observed again.    *)
(* Confidence, expiry and roles are left out.                              *)
(***************************************************************************)
EXTENDS Naturals, Sequences, FiniteSets, SequencesExt

CONSTANTS
    Tools,
    People,         \* those with a stable identifier
    Handles,        \* those known by a wiki username only: each is its own person
    Labels,         \* free text in an author field
    Named           \* the people whose current handle a label equals

ASSUME EvidenceAssumption ==
    /\ Named \in [Labels -> SUBSET People]
    /\ People \cap Handles = {} /\ Labels \cap (People \cup Handles) = {}
    /\ IsFiniteSet(Tools) /\ IsFiniteSet(Labels)

VARIABLES
    evidence,       \* tool_relationship_evidence that is not withdrawn
    backlog,        \* unresolved_attribution_evidence, by id
    edges,          \* tool_person_relationships: the people of a tool
    activity        \* person_activity_summaries: the tools of a person

evidenceVars == <<evidence, backlog, edges, activity>>

Persons == People \cup Handles
Authors == Labels \cup Handles
Sources == {"author", "claim"}
Evidence == [tool : Tools, who : Persons, source : Sources, of : Persons \cup Labels]

EvidenceInit ==
    /\ evidence = {}
    /\ backlog = <<>>
    /\ edges = [t \in Tools |-> {}]
    /\ activity = [p \in Persons |-> {}]

\* toolhub_author observations are unverified; an authenticated claim is verified.
Verified(e) == e.source = "claim"
Supports(e, t, source) == e.tool = t /\ Verified(e) /\ e.source # source

\* corroborated_handle_person: exactly one of the people the other sources prove for
\* this tool bears the label.
Corroborated(ev, t, label, source) ==
    LET matched == {p \in Named[label] : \E e \in ev : e.who = p /\ Supports(e, t, source)}
    IN  IF Cardinality(matched) = 1 THEN matched ELSE {}

\* ensure_person: the person an observation resolves to, if any.
Resolved(ev, t, author, source) ==
    IF author \in Labels THEN Corroborated(ev, t, author, source) ELSE {author}

\* The two tables a source's observations are written to, as one value.  Each change
\* of theirs is made for a set of tools: no tool's rows depend on another's.
Store == [ev |-> evidence, log |-> backlog]

\* _store_unresolved_observation: an existing row is opened again, a new one added.
Observe(log, ts, waiting) ==
    LET Name(row) == <<row.tool, row.label>>
        known  == {Name(log[i]) : i \in DOMAIN log}
        opened == [i \in DOMAIN log |->
                     IF log[i].tool \in ts THEN [log[i] EXCEPT !.open = Name(log[i]) \in waiting]
                                           ELSE log[i]]
        fresh  == SetToSeq(waiting \ known)
    IN  opened \o [i \in DOMAIN fresh |->
                     [tool |-> fresh[i][1], label |-> fresh[i][2], open |-> TRUE]]

\* replace_source_evidence: withdraw what the source said of the tools and write what
\* it says now.
Replace(S, ts, source, said) ==
    LET others  == {e \in S.ev : ~(e.tool \in ts /\ e.source = source)}
        Who(t, author) == Resolved(others, t, author, source)
        written == {e \in Evidence : /\ e.tool \in ts /\ e.source = source
                                     /\ e.of \in said[e.tool]
                                     /\ e.who \in Who(e.tool, e.of)}
        waiting == {o \in Tools \X Labels : /\ o[1] \in ts /\ o[2] \in said[o[1]]
                                            /\ Who(o[1], o[2]) = {}}
    IN  [ev  |-> others \cup written,
         log |-> IF source = "author" THEN Observe(S.log, ts, waiting) ELSE S.log]

\* A row of the backlog that is withdrawn.
Closed(row) == [row EXCEPT !.open = FALSE]

\* retire_tool_relationships: everything about the tools is withdrawn.
Withdrawn(S, ts) ==
    [ev  |-> {e \in S.ev : e.tool \notin ts},
     log |-> [i \in DOMAIN S.log |-> IF S.log[i].tool \in ts THEN Closed(S.log[i]) ELSE S.log[i]]]

\* promote_unresolved_attribution: the person a row now resolves to becomes evidence
\* and the row is closed.
Promote(S, rows) ==
    LET Who(row) == Corroborated(S.ev, row.tool, row.label, "author")
        found == {i \in rows : Who(S.log[i]) # {}}
    IN  [ev  |-> S.ev \cup {e \in Evidence : \E i \in found :
                              /\ e.tool = S.log[i].tool /\ e.of = S.log[i].label
                              /\ e.source = "author" /\ e.who \in Who(S.log[i])},
         log |-> [i \in DOMAIN S.log |-> IF i \in found THEN Closed(S.log[i]) ELSE S.log[i]]]

\* resolve_tool_relationships: the people of a tool are those of its evidence.
PeopleOf(ev, t) == {e.who : e \in {x \in ev : x.tool = t}}

\* Its refresh_activity_summaries covers those who had an edge and those who have one
\* now (fault: only the latter).
NowAffected(before, after, t) == after[t]
Affected(before, after, t) == before[t] \cup after[t]

\* A transaction that leaves the tables as S and has resolved the tools ts.
Commit(S, ts) ==
    LET after == [t \in Tools |-> IF t \in ts THEN PeopleOf(S.ev, t) ELSE edges[t]]
        who   == UNION {Affected(edges, after, t) : t \in ts}
    IN  /\ evidence' = S.ev
        /\ backlog' = S.log
        /\ edges' = after
        /\ activity' = [p \in Persons |-> IF p \in who THEN {t \in Tools : p \in after[t]}
                                                      ELSE activity[p]]
=============================================================================
