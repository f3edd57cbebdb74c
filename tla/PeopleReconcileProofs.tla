----------------------- MODULE PeopleReconcileProofs -----------------------
(***************************************************************************)
(* Theorems about PeopleReconcile, for every set of tools, people, names,  *)
(* records and bounds.                                                     *)
(*                                                                         *)
(* Nothing is assumed of what a job carries from its snapshot: however old *)
(* a snapshot is, the transaction that commits it leaves the tables in     *)
(* agreement.  The argument has two halves.  What a source, a withdrawal,  *)
(* a mapping or a promotion makes of the two tables keeps them Sound and   *)
(* leaves the other tools alone; and Commit makes the edges and summaries  *)
(* agree again whenever only the tools it resolves were touched.           *)
(***************************************************************************)
EXTENDS PeopleReconcile, FiniteSetTheorems, TLAPS

BacklogRows == [tool : Tools, label : Labels, open : BOOLEAN]
Tables == [ev : SUBSET Evidence, log : Seq(BacklogRows)]

\* Only an author field states a bare label.
LabelsByAuthors(ev) == \A e \in ev : e.of \in Labels => e.source = "author"

\* The backlog has one row for a label of a tool.
OneRow(log) ==
    \A i, j \in DOMAIN log : log[i].tool = log[j].tool /\ log[i].label = log[j].label => i = j

\* OneVerdict, of any pair of tables.
Decided(ev, log) ==
    \A i \in DOMAIN log :
      log[i].open => ~\E e \in ev : e.tool = log[i].tool /\ e.of = log[i].label

Sound(S) ==
    /\ S \in Tables
    /\ LabelsByAuthors(S.ev)
    /\ OneRow(S.log)
    /\ Decided(S.ev, S.log)

\* The evidence of the tools outside ts is the same in both.
Alike(ev, after, ts) == \A e : e.tool \notin ts => (e \in ev <=> e \in after)

\* No evidence on the tools outside ts is held by a linked username.
Mapped(ev, ts) ==
    \A e \in ev : e.tool \notin ts /\ e.who \in Handles => mapping[e.who] = Nobody

Mapping == mapping \in [Handles -> People \cup {Nobody}]

\* The inductive invariant.
PeopleInv ==
    /\ Mapping
    /\ Sound(Store)
    /\ MappingHolds
    /\ EdgesAreEvidence
    /\ ActivityAgrees

(***************************************************************************)
(* The operators                                                           *)
(***************************************************************************)
\* A finite set is listed without repetition.
LEMMA Listed ==
  ASSUME NEW W, IsFiniteSet(W)
  PROVE  /\ SetToSeq(W) \in Seq(W)
         /\ \A i, j \in DOMAIN SetToSeq(W) : SetToSeq(W)[i] = SetToSeq(W)[j] => i = j
<1> DEFINE n == Cardinality(W)
<1>1. n \in Nat /\ ExistsBijection(1..n, W)
  BY FS_CardinalityType
<1>2. PICK f \in [1..n -> W] : IsInjective(f)
  BY <1>1 DEF ExistsBijection, Bijection, Injection, IsInjective
<1>3. SetToSeq(W) \in [1..n -> W] /\ IsInjective(SetToSeq(W))
  BY <1>2 DEF SetToSeq
<1>4. SetToSeq(W) \in Seq(W)
  BY <1>1, <1>3
<1> QED BY <1>3, <1>4 DEF IsInjective

\* The backlog after ts were observed with W waiting: nothing appears twice, and a row
\* that is open is waiting, or belongs to another tool and was there before.
Observed(log, after, ts, W) ==
    /\ after \in Seq(BacklogRows)
    /\ OneRow(after)
    /\ \A i \in DOMAIN after :
         \/ <<after[i].tool, after[i].label>> \in W
         \/ after[i].tool \in ts /\ ~after[i].open
         \/ after[i].tool \notin ts /\ i \in DOMAIN log /\ after[i] = log[i]

LEMMA ObserveRows ==
  ASSUME NEW ts, NEW W \in SUBSET (Tools \X Labels),
         NEW log \in Seq(BacklogRows), OneRow(log)
  PROVE  Observed(log, Observe(log, ts, W), ts, W)
<1> DEFINE Name(row) == <<row.tool, row.label>>
           known == {Name(log[i]) : i \in DOMAIN log}
           opened == [i \in DOMAIN log |->
                        IF log[i].tool \in ts THEN [log[i] EXCEPT !.open = Name(log[i]) \in W]
                                              ELSE log[i]]
           fresh == SetToSeq(W \ known)
           added == [i \in DOMAIN fresh |->
                       [tool |-> fresh[i][1], label |-> fresh[i][2], open |-> TRUE]]
<1>1. Observe(log, ts, W) = opened \o added
  BY DEF Observe
<1>2. IsFiniteSet(W \ known)
  BY EvidenceAssumption, FS_Product, FS_Subset, FS_Difference
<1>3. /\ fresh \in Seq(W \ known)
      /\ \A i, j \in DOMAIN fresh : fresh[i] = fresh[j] => i = j
  BY <1>2, Listed
<1>4. /\ opened \in Seq(BacklogRows) /\ DOMAIN opened = DOMAIN log
      /\ \A i \in DOMAIN log : Name(opened[i]) = Name(log[i])
      /\ \A i \in DOMAIN log :
           IF log[i].tool \in ts THEN opened[i].open = (Name(log[i]) \in W)
                                 ELSE opened[i] = log[i]
  <2>1. ASSUME NEW r \in BacklogRows, NEW b \in BOOLEAN
        PROVE  /\ [r EXCEPT !.open = b] \in BacklogRows
               /\ [r EXCEPT !.open = b].open = b
               /\ Name([r EXCEPT !.open = b]) = Name(r)
    BY DEF BacklogRows
  <2>2. /\ DOMAIN log = 1..Len(log) /\ Len(log) \in Nat
        /\ \A i \in DOMAIN log : log[i] \in BacklogRows
    OBVIOUS
  <2>3. ASSUME NEW i \in DOMAIN log
        PROVE  /\ opened[i] \in BacklogRows
               /\ Name(opened[i]) = Name(log[i])
               /\ IF log[i].tool \in ts THEN opened[i].open = (Name(log[i]) \in W)
                                         ELSE opened[i] = log[i]
    <3>1. CASE log[i].tool \in ts
      <4>1. opened[i] = [log[i] EXCEPT !.open = Name(log[i]) \in W]
        BY <3>1
      <4>2. (Name(log[i]) \in W) \in BOOLEAN /\ log[i] \in BacklogRows
        BY <2>2
      <4> QED BY <2>1, <3>1, <4>1, <4>2
    <3>2. CASE log[i].tool \notin ts
      BY <2>2, <3>2
    <3> QED BY <3>1, <3>2
  <2>4. DOMAIN opened = DOMAIN log
    OBVIOUS
  <2> HIDE DEF opened
  <2>5. opened \in [1..Len(log) -> BacklogRows]
    <3>1. opened = [i \in DOMAIN log |-> opened[i]]
      BY <2>4 DEF opened
    <3> QED BY <2>2, <2>3, <2>4, <3>1
  <2>6. opened \in Seq(BacklogRows)
    BY <2>2, <2>5
  <2> QED BY <2>3, <2>4, <2>6
<1>5. /\ added \in Seq(BacklogRows) /\ DOMAIN added = DOMAIN fresh
      /\ \A i \in DOMAIN added : Name(added[i]) = fresh[i] /\ fresh[i] \in W \ known
  <2>1. \A i \in DOMAIN fresh : fresh[i] \in W \ known
    BY <1>3
  <2>2. ASSUME NEW i \in DOMAIN fresh
        PROVE  /\ [tool |-> fresh[i][1], label |-> fresh[i][2], open |-> TRUE] \in BacklogRows
               /\ Name([tool |-> fresh[i][1], label |-> fresh[i][2], open |-> TRUE]) = fresh[i]
    <3>1. fresh[i] \in Tools \X Labels
      BY <2>1
    <3> HIDE DEF fresh
    <3> QED BY <3>1 DEF BacklogRows
  <2>3. DOMAIN fresh = 1..Len(fresh) /\ Len(fresh) \in Nat
    BY <1>3
  <2> HIDE DEF fresh
  <2>4. added \in Seq(BacklogRows) /\ DOMAIN added = DOMAIN fresh
    BY <2>2, <2>3
  <2> QED BY <2>1, <2>2, <2>4
<1> HIDE DEF opened, added, fresh
<1>6. /\ opened \o added \in Seq(BacklogRows)
      /\ Len(opened \o added) = Len(opened) + Len(added)
      /\ \A i \in DOMAIN (opened \o added) :
           \/ i \in DOMAIN opened /\ (opened \o added)[i] = opened[i]
           \/ /\ i \notin DOMAIN opened /\ i - Len(opened) \in DOMAIN added
              /\ (opened \o added)[i] = added[i - Len(opened)]
  BY <1>4, <1>5
<1>7. ASSUME NEW i \in DOMAIN (opened \o added), NEW j \in DOMAIN (opened \o added),
             Name((opened \o added)[i]) = Name((opened \o added)[j])
      PROVE  i = j
  <2>1. CASE i \in DOMAIN opened /\ j \in DOMAIN opened
    <3>1. Name(log[i]) = Name(log[j])
      BY <1>4, <1>6, <1>7, <2>1
    <3>2. log[i].tool = log[j].tool /\ log[i].label = log[j].label
      BY <3>1
    <3> QED BY <1>4, <2>1, <3>2 DEF OneRow
  <2>2. CASE i \notin DOMAIN opened /\ j \notin DOMAIN opened
    <3>1. fresh[i - Len(opened)] = fresh[j - Len(opened)]
      BY <1>5, <1>6, <1>7, <2>2
    <3>2. i - Len(opened) = j - Len(opened)
      BY <1>3, <1>5, <1>6, <2>2, <3>1
    <3>3. i \in Nat /\ j \in Nat /\ Len(opened) \in Nat
      BY <1>4, <1>6
    <3> QED BY <3>2, <3>3
  <2>3. ASSUME NEW k \in DOMAIN opened, NEW m \in DOMAIN (opened \o added), m \notin DOMAIN opened
        PROVE  Name((opened \o added)[k]) # Name((opened \o added)[m])
    <3>1. Name((opened \o added)[m]) \notin known
      BY <1>5, <1>6, <2>3
    <3>2. k \in DOMAIN (opened \o added)
      BY <1>4, <1>5, <1>6
    <3>3. (opened \o added)[k] = opened[k]
      BY <1>6, <2>3, <3>2
    <3>4. Name((opened \o added)[k]) \in known
      BY <1>4, <2>3, <3>3
    <3> QED BY <3>1, <3>4
  <2> QED BY <1>7, <2>1, <2>2, <2>3
<1>8. ASSUME NEW i \in DOMAIN (opened \o added)
      PROVE  LET row == (opened \o added)[i]
             IN  \/ <<row.tool, row.label>> \in W
                 \/ row.tool \in ts /\ ~row.open
                 \/ row.tool \notin ts /\ i \in DOMAIN log /\ row = log[i]
  <2>1. CASE i \in DOMAIN opened /\ (opened \o added)[i] = opened[i]
    <3>1. opened[i].tool = log[i].tool /\ opened[i].label = log[i].label
      BY <1>4, <2>1
    <3>2. CASE log[i].tool \in ts
      BY <1>4, <2>1, <3>1, <3>2
    <3>3. CASE log[i].tool \notin ts
      BY <1>4, <2>1, <3>1, <3>3
    <3> QED BY <3>2, <3>3
  <2>2. CASE i \notin DOMAIN opened
    BY <1>5, <1>6, <2>2
  <2> QED BY <1>6, <2>1, <2>2
<1>9. OneRow(opened \o added)
  BY <1>7 DEF OneRow
<1> QED BY <1>1, <1>6, <1>8, <1>9 DEF Observed

LEMMA RowFields ==
  ASSUME NEW log \in Seq(BacklogRows), NEW i \in DOMAIN log
  PROVE  log[i] \in BacklogRows /\ log[i].label \in Labels /\ log[i].tool \in Tools
<1>1. log[i] \in BacklogRows
  OBVIOUS
<1> QED BY <1>1 DEF BacklogRows

\* A label only ever resolves to people with a stable identifier.
LEMMA LabelsNamePeople ==
  ASSUME NEW ev, NEW t, NEW l \in Labels, NEW source
  PROVE  Corroborated(ev, t, l, source) \subseteq People
BY EvidenceAssumption DEF Corroborated

\* Rows on other tools are left alone, whatever the source says.
LEMMA ReplaceAlike ==
  ASSUME NEW S, NEW ts, NEW source, NEW said
  PROVE  Alike(S.ev, Replace(S, ts, source, said).ev, ts)
BY DEF Alike, Replace

LEMMA ReplaceAuthors ==
  ASSUME NEW S, Sound(S), NEW ts, NEW said
  PROVE  Sound(Replace(S, ts, "author", said))
<1> DEFINE others == {e \in S.ev : ~(e.tool \in ts /\ e.source = "author")}
           Who(t, a) == Resolved(others, t, a, "author")
           written == {e \in Evidence : /\ e.tool \in ts /\ e.source = "author"
                                        /\ e.of \in said[e.tool]
                                        /\ e.who \in Who(e.tool, e.of)}
           W == {o \in Tools \X Labels : /\ o[1] \in ts /\ o[2] \in said[o[1]]
                                         /\ Who(o[1], o[2]) = {}}
           log == Observe(S.log, ts, W)
           R == Replace(S, ts, "author", said)
<1>1. R = [ev |-> others \cup written, log |-> log]
  BY DEF Replace
<1>2. S.ev \subseteq Evidence /\ S.log \in Seq(BacklogRows) /\ OneRow(S.log)
      /\ LabelsByAuthors(S.ev) /\ Decided(S.ev, S.log)
  BY DEF Sound, Tables
<1>3. W \in SUBSET (Tools \X Labels)
  OBVIOUS
<1>4. /\ log \in Seq(BacklogRows) /\ OneRow(log)
      /\ \A i \in DOMAIN log :
           \/ <<log[i].tool, log[i].label>> \in W
           \/ log[i].tool \in ts /\ ~log[i].open
           \/ log[i].tool \notin ts /\ i \in DOMAIN S.log /\ log[i] = S.log[i]
  <2> HIDE DEF W
  <2>1. Observed(S.log, log, ts, W)
    BY <1>2, <1>3, ObserveRows
  <2> HIDE DEF log
  <2> QED BY <2>1 DEF Observed
<1> HIDE DEF log
<1>5. Decided(others \cup written, log)
  <2> SUFFICES ASSUME NEW i \in DOMAIN log, log[i].open, NEW e \in others \cup written,
                      e.tool = log[i].tool, e.of = log[i].label
               PROVE  FALSE
    BY DEF Decided
  <2>1. log[i].label \in Labels /\ log[i] \in BacklogRows
    BY <1>4, RowFields
  <2>2. CASE <<log[i].tool, log[i].label>> \in W
    <3>1. log[i].tool \in ts /\ Who(log[i].tool, log[i].label) = {}
      BY <2>2
    <3>2. e \in others
      BY <3>1
    <3>3. e.source = "author"
      BY <1>2, <2>1, <3>2 DEF LabelsByAuthors
    <3> QED BY <3>1, <3>2, <3>3
  <2>3. CASE log[i].tool \in ts /\ ~log[i].open
    BY <2>3
  <2>4. CASE log[i].tool \notin ts /\ i \in DOMAIN S.log /\ log[i] = S.log[i]
    BY <1>2, <2>4 DEF Decided
  <2> QED BY <1>4, <2>2, <2>3, <2>4
<1>6. LabelsByAuthors(others \cup written) /\ others \cup written \subseteq Evidence
  BY <1>2 DEF LabelsByAuthors
<1> HIDE DEF others, written
<1>7. R \in Tables /\ R.ev = others \cup written /\ R.log = log
  BY <1>1, <1>4, <1>6 DEF Tables
<1> HIDE DEF R
<1>8. Sound(R)
  BY <1>4, <1>5, <1>6, <1>7 DEF Sound
<1> QED BY <1>8 DEF R

\* A claim names a person, and writes that person's evidence only.
LEMMA ReplaceClaims ==
  ASSUME NEW S, Sound(S), NEW ts, NEW said, \A t \in ts : said[t] \subseteq People
  PROVE  /\ Sound(Replace(S, ts, "claim", said))
         /\ \A e \in Replace(S, ts, "claim", said).ev : e \in S.ev \/ e.who \in People
<1> DEFINE others == {e \in S.ev : ~(e.tool \in ts /\ e.source = "claim")}
           written == {e \in Evidence : /\ e.tool \in ts /\ e.source = "claim"
                                        /\ e.of \in said[e.tool]
                                        /\ e.who \in Resolved(others, e.tool, e.of, "claim")}
<1>1. Replace(S, ts, "claim", said) = [ev |-> others \cup written, log |-> S.log]
  BY DEF Replace
<1>2. S.ev \subseteq Evidence /\ S.log \in Seq(BacklogRows) /\ OneRow(S.log)
      /\ LabelsByAuthors(S.ev) /\ Decided(S.ev, S.log)
  BY DEF Sound, Tables
<1>3. \A e \in written : e.of \in People /\ e.of \notin Labels /\ e.who = e.of
  BY EvidenceAssumption DEF Resolved
<1>4. \A i \in DOMAIN S.log : S.log[i].label \in Labels
  BY <1>2, RowFields
<1>5. Decided(others \cup written, S.log)
  BY <1>2, <1>3, <1>4 DEF Decided
<1>6. LabelsByAuthors(others \cup written) /\ others \cup written \subseteq Evidence
  BY <1>2, <1>3 DEF LabelsByAuthors
<1>9. /\ Replace(S, ts, "claim", said).ev = others \cup written
      /\ Replace(S, ts, "claim", said).log = S.log
  <2> HIDE DEF written, others
  <2> QED BY <1>1
<1> HIDE DEF written, others
<1>7. Sound([ev |-> others \cup written, log |-> S.log])
  BY <1>2, <1>5, <1>6 DEF Sound, Tables
<1>8. \A e \in others \cup written : e \in S.ev \/ e.who \in People
  BY <1>3 DEF others
<1> QED BY <1>1, <1>7, <1>8, <1>9

\* A mapping moves evidence between persons, never between tools or labels.
LEMMA MovedRow ==
  ASSUME NEW e \in Evidence, NEW p \in Persons
  PROVE  /\ [e EXCEPT !.who = p] \in Evidence
         /\ [e EXCEPT !.who = p].who = p
         /\ [e EXCEPT !.who = p].tool = e.tool
         /\ [e EXCEPT !.who = p].of = e.of
         /\ [e EXCEPT !.who = p].source = e.source
BY DEF Evidence

LEMMA Renamed ==
  ASSUME NEW S, Sound(S), NEW ev \in SUBSET Evidence,
         \A e \in ev : \E x \in S.ev : e.tool = x.tool /\ e.of = x.of /\ e.source = x.source
  PROVE  Sound([S EXCEPT !.ev = ev])
<1>1. S.ev \subseteq Evidence /\ S.log \in Seq(BacklogRows) /\ OneRow(S.log)
      /\ LabelsByAuthors(S.ev) /\ Decided(S.ev, S.log) /\ S \in Tables
  BY DEF Sound, Tables
<1>2. LabelsByAuthors(ev)
  BY <1>1 DEF LabelsByAuthors
<1>3. Decided(ev, S.log)
  BY <1>1 DEF Decided
<1>4. [S EXCEPT !.ev = ev] \in Tables /\ [S EXCEPT !.ev = ev].ev = ev
      /\ [S EXCEPT !.ev = ev].log = S.log
  BY <1>1 DEF Tables
<1> QED BY <1>1, <1>2, <1>3, <1>4 DEF Sound

LEMMA MovedSound ==
  ASSUME NEW S, Sound(S), Mapping, NEW ts
  PROVE  /\ Sound(Moved(S, ts))
         /\ Alike(S.ev, Moved(S, ts).ev, ts)
         /\ Mapped(S.ev, ts) => Mapped(Moved(S, ts).ev, {})
<1> DEFINE Linked(e) == e.tool \in ts /\ e.who \in Handles /\ mapping[e.who] # Nobody
           Now(e) == IF Linked(e) THEN [e EXCEPT !.who = mapping[e.who]] ELSE e
           ev == {Now(e) : e \in S.ev}
<1>1. S \in Tables /\ S.ev \subseteq Evidence
  BY DEF Sound, Tables
<1>2. Moved(S, ts) = [S EXCEPT !.ev = ev]
  BY DEF Moved
<1>3. ASSUME NEW e \in S.ev
      PROVE  /\ Now(e) \in Evidence /\ Now(e).tool = e.tool /\ Now(e).of = e.of
             /\ Now(e).source = e.source
             /\ Linked(e) => Now(e).who \in People
             /\ ~Linked(e) => Now(e) = e
  <2>1. CASE Linked(e)
    <3>1. mapping[e.who] \in People
      BY <2>1 DEF Mapping
    <3>2. mapping[e.who] \in Persons /\ e \in Evidence
      BY <1>1, <3>1 DEF Persons
    <3>3. Now(e) = [e EXCEPT !.who = mapping[e.who]]
      BY <2>1
    <3> HIDE DEF Now
    <3> QED BY <2>1, <3>1, <3>2, <3>3, MovedRow
  <2>2. CASE ~Linked(e)
    BY <1>1, <2>2
  <2> QED BY <2>1, <2>2
<1> HIDE DEF Now
<1>4. ev \in SUBSET Evidence
      /\ \A e \in ev : \E x \in S.ev : e.tool = x.tool /\ e.of = x.of /\ e.source = x.source
  BY <1>3
<1>5. Moved(S, ts).ev = ev
  BY <1>1, <1>2 DEF Tables
<1>6. Sound(Moved(S, ts))
  <2> HIDE DEF ev
  <2> QED BY <1>2, <1>4, Renamed
<1>7. Alike(S.ev, ev, ts)
  <2>1. ASSUME NEW e, e.tool \notin ts, e \in S.ev
        PROVE  e \in ev
    BY <1>3, <2>1
  <2>2. ASSUME NEW e, e.tool \notin ts, e \in ev
        PROVE  e \in S.ev
    <3>1. PICK x \in S.ev : e = Now(x)
      BY <2>2
    <3> QED BY <1>3, <2>2, <3>1
  <2> QED BY <2>1, <2>2 DEF Alike
<1>8. ASSUME Mapped(S.ev, ts), NEW e \in ev, e.who \in Handles
      PROVE  mapping[e.who] = Nobody
  <2>1. PICK x \in S.ev : e = Now(x)
    BY <1>8
  <2>2. e = x /\ ~Linked(x)
    BY <1>3, <1>8, <2>1, EvidenceAssumption
  <2> QED BY <1>8, <2>2 DEF Mapped
<1> QED BY <1>5, <1>6, <1>7, <1>8 DEF Mapped

\* The backlog once its rows f are closed.
ClosedIn(log, after, f) ==
    /\ after \in Seq(BacklogRows) /\ OneRow(after) /\ DOMAIN after = DOMAIN log
    /\ \A i \in DOMAIN log :
         /\ after[i].tool = log[i].tool /\ after[i].label = log[i].label
         /\ after[i].open => i \notin f /\ log[i].open

LEMMA ClosedRows ==
  ASSUME NEW log \in Seq(BacklogRows), OneRow(log), NEW f,
         NEW after, after = [i \in DOMAIN log |-> IF i \in f THEN Closed(log[i]) ELSE log[i]]
  PROVE  ClosedIn(log, after, f)
<1>1. ASSUME NEW r \in BacklogRows
      PROVE  /\ Closed(r) \in BacklogRows /\ Closed(r).open = FALSE
             /\ Closed(r).tool = r.tool /\ Closed(r).label = r.label
  BY DEF Closed, BacklogRows
<1>2. /\ DOMAIN log = 1..Len(log) /\ Len(log) \in Nat
      /\ \A i \in DOMAIN log : log[i] \in BacklogRows
  OBVIOUS
<1>3. ASSUME NEW i \in DOMAIN log
      PROVE  /\ after[i] \in BacklogRows
             /\ after[i].tool = log[i].tool /\ after[i].label = log[i].label
             /\ after[i].open => i \notin f /\ log[i].open
  <2>1. CASE i \in f
    <3>1. after[i] = Closed(log[i])
      BY <2>1
    <3> QED BY <1>1, <1>2, <3>1
  <2>2. CASE i \notin f
    <3>1. after[i] = log[i]
      BY <2>2
    <3> QED BY <1>2, <2>2, <3>1
  <2> QED BY <2>1, <2>2
<1>4. DOMAIN after = DOMAIN log /\ after = [i \in DOMAIN log |-> after[i]]
  OBVIOUS
<1>5. after \in Seq(BacklogRows)
  <2>1. after \in [1..Len(log) -> BacklogRows]
    BY <1>2, <1>3, <1>4
  <2> QED BY <1>2, <2>1
<1>6. OneRow(after)
  BY <1>3, <1>4 DEF OneRow
<1> QED BY <1>3, <1>4, <1>5, <1>6 DEF ClosedIn

LEMMA WithdrawnSound ==
  ASSUME NEW S, Sound(S), NEW ts
  PROVE  /\ Sound(Withdrawn(S, ts))
         /\ Alike(S.ev, Withdrawn(S, ts).ev, ts)
         /\ Withdrawn(S, ts).ev \subseteq S.ev
<1> DEFINE ev == {e \in S.ev : e.tool \notin ts}
           log == [i \in DOMAIN S.log |->
                     IF S.log[i].tool \in ts THEN Closed(S.log[i]) ELSE S.log[i]]
<1>1. Withdrawn(S, ts) = [ev |-> ev, log |-> log]
  BY DEF Withdrawn
<1>2. S.ev \subseteq Evidence /\ S.log \in Seq(BacklogRows) /\ OneRow(S.log)
      /\ LabelsByAuthors(S.ev) /\ Decided(S.ev, S.log)
  BY DEF Sound, Tables
<1>3. /\ log \in Seq(BacklogRows) /\ OneRow(log) /\ DOMAIN log = DOMAIN S.log
      /\ \A i \in DOMAIN S.log :
           /\ log[i].tool = S.log[i].tool /\ log[i].label = S.log[i].label
           /\ log[i].open => S.log[i].open
  <2> DEFINE f == {i \in DOMAIN S.log : S.log[i].tool \in ts}
  <2>1. log = [i \in DOMAIN S.log |-> IF i \in f THEN Closed(S.log[i]) ELSE S.log[i]]
    OBVIOUS
  <2> HIDE DEF log, f
  <2>2. ClosedIn(S.log, log, f)
    BY <1>2, <2>1, ClosedRows
  <2> QED BY <2>2 DEF ClosedIn
<1> HIDE DEF log
<1>4. Decided(ev, log)
  BY <1>2, <1>3 DEF Decided
<1>5. LabelsByAuthors(ev) /\ ev \subseteq Evidence /\ ev \subseteq S.ev /\ Alike(S.ev, ev, ts)
  BY <1>2 DEF LabelsByAuthors, Alike
<1> HIDE DEF ev
<1>6. Withdrawn(S, ts) \in Tables /\ Withdrawn(S, ts).ev = ev /\ Withdrawn(S, ts).log = log
  BY <1>1, <1>3, <1>5 DEF Tables
<1> QED BY <1>3, <1>4, <1>5, <1>6 DEF Sound

\* A promoted label names a person, and no other row waits for it.
LEMMA PromoteSound ==
  ASSUME NEW S, Sound(S), NEW rows \in SUBSET DOMAIN S.log,
         \A i \in rows : S.log[i].open
  PROVE  /\ Sound(Promote(S, rows))
         /\ Alike(S.ev, Promote(S, rows).ev,
                  {S.log[i].tool : i \in {j \in rows : ~Promote(S, rows).log[j].open}})
         /\ \A e \in Promote(S, rows).ev : e \in S.ev \/ e.who \in People
<1> DEFINE Who(row) == Corroborated(S.ev, row.tool, row.label, "author")
           found == {i \in rows : Who(S.log[i]) # {}}
           new == {e \in Evidence : \E i \in found :
                     /\ e.tool = S.log[i].tool /\ e.of = S.log[i].label
                     /\ e.source = "author" /\ e.who \in Who(S.log[i])}
           log == [i \in DOMAIN S.log |-> IF i \in found THEN Closed(S.log[i]) ELSE S.log[i]]
           R == Promote(S, rows)
<1>1. R = [ev |-> S.ev \cup new, log |-> log]
  BY DEF Promote
<1>2. S.ev \subseteq Evidence /\ S.log \in Seq(BacklogRows) /\ OneRow(S.log)
      /\ LabelsByAuthors(S.ev) /\ Decided(S.ev, S.log)
  BY DEF Sound, Tables
<1>3. /\ log \in Seq(BacklogRows) /\ OneRow(log) /\ DOMAIN log = DOMAIN S.log
      /\ \A i \in DOMAIN S.log :
           /\ log[i].tool = S.log[i].tool /\ log[i].label = S.log[i].label
           /\ log[i].open => i \notin found /\ S.log[i].open
  <2>1. log = [i \in DOMAIN S.log |-> IF i \in found THEN Closed(S.log[i]) ELSE S.log[i]]
    OBVIOUS
  <2> HIDE DEF log, found
  <2>2. ClosedIn(S.log, log, found)
    BY <1>2, <2>1, ClosedRows
  <2> QED BY <2>2 DEF ClosedIn
<1>4. \A i \in found : i \in DOMAIN S.log /\ log[i].open = FALSE
  BY <1>2, RowFields DEF Closed, BacklogRows
<1> HIDE DEF log
<1>5. \A i \in DOMAIN S.log : S.log[i].label \in Labels
  BY <1>2, RowFields
<1>6. ASSUME NEW e \in new
      PROVE  /\ e \in Evidence /\ e.source = "author" /\ e.who \in People
             /\ \E i \in found : e.tool = S.log[i].tool /\ e.of = S.log[i].label
  <2>1. PICK i \in found : /\ e.tool = S.log[i].tool /\ e.of = S.log[i].label
                           /\ e.source = "author" /\ e.who \in Who(S.log[i])
    OBVIOUS
  <2>2. S.log[i].label \in Labels
    BY <1>4, <1>5
  <2>3. e.who \in People
    BY <2>1, <2>2, LabelsNamePeople
  <2> QED BY <2>1, <2>3
<1> HIDE DEF new, found
<1>7. Decided(S.ev \cup new, log)
  <2> SUFFICES ASSUME NEW j \in DOMAIN log, log[j].open, NEW e \in S.ev \cup new,
                      e.tool = log[j].tool, e.of = log[j].label
               PROVE  FALSE
    BY DEF Decided
  <2>1. CASE e \in S.ev
    BY <1>2, <1>3, <2>1 DEF Decided
  <2>2. CASE e \in new
    <3>1. PICK i \in found : e.tool = S.log[i].tool /\ e.of = S.log[i].label
      BY <1>6, <2>2
    <3>2. i = j
      BY <1>2, <1>3, <1>4, <3>1 DEF OneRow
    <3> QED BY <1>3, <3>2
  <2> QED BY <2>1, <2>2
<1>8. LabelsByAuthors(S.ev \cup new) /\ S.ev \cup new \subseteq Evidence
  BY <1>2, <1>6 DEF LabelsByAuthors
<1>9. R \in Tables /\ R.ev = S.ev \cup new /\ R.log = log
  BY <1>1, <1>3, <1>8 DEF Tables
<1> HIDE DEF R
<1>10. Sound(R)
  BY <1>3, <1>7, <1>8, <1>9 DEF Sound
<1>11. Alike(S.ev, R.ev, {S.log[i].tool : i \in {j \in rows : ~R.log[j].open}})
  <2>1. \A i \in found : i \in rows /\ ~R.log[i].open
    BY <1>4, <1>9 DEF found
  <2>2. \A e \in new : e.tool \in {S.log[i].tool : i \in {j \in rows : ~R.log[j].open}}
    BY <1>6, <2>1
  <2> QED BY <1>9, <2>2 DEF Alike
<1>12. \A e \in R.ev : e \in S.ev \/ e.who \in People
  BY <1>6, <1>9
<1> QED BY <1>10, <1>11, <1>12 DEF R

(***************************************************************************)
(* The transactions                                                        *)
(***************************************************************************)
\* A transaction that leaves its tables sound, and touched only the tools it resolves,
\* leaves edges and summaries that agree with them.
LEMMA CommitAgrees ==
  ASSUME NEW S, Sound(S), NEW ts, Alike(evidence, S.ev, ts), Commit(S, ts),
         EdgesAreEvidence, ActivityAgrees
  PROVE  /\ Sound(Store)' /\ EdgesAreEvidence' /\ ActivityAgrees'
         /\ evidence' = S.ev
<1> DEFINE after == [t \in Tools |-> IF t \in ts THEN PeopleOf(S.ev, t) ELSE edges[t]]
           who == UNION {Affected(edges, after, t) : t \in ts}
<1>1. /\ evidence' = S.ev /\ backlog' = S.log
      /\ edges' = after
      /\ activity' = [p \in Persons |-> IF p \in who THEN {t \in Tools : p \in after[t]}
                                                    ELSE activity[p]]
  BY DEF Commit
<1>2. Sound([ev |-> S.ev, log |-> S.log])
  BY DEF Sound, Tables
<1>3. Sound(Store)'
  BY <1>1, <1>2 DEF Store, Sound, Tables, LabelsByAuthors, OneRow, Decided, Evidence,
     BacklogRows, Persons, Sources
<1>4. EdgesAreEvidence'
  <2> SUFFICES ASSUME NEW t \in Tools, NEW p \in Persons
               PROVE  p \in after[t] <=> \E e \in S.ev : e.tool = t /\ e.who = p
    BY <1>1 DEF EdgesAreEvidence
  <2>1. CASE t \in ts
    BY <2>1 DEF PeopleOf
  <2>2. CASE t \notin ts
    BY <2>2 DEF EdgesAreEvidence, Alike
  <2> QED BY <2>1, <2>2
<1>5. ActivityAgrees'
  <2> SUFFICES ASSUME NEW p \in Persons
               PROVE  activity'[p] = {t \in Tools : p \in after[t]}
    BY <1>1 DEF ActivityAgrees
  <2>1. CASE p \in who
    BY <1>1, <2>1
  <2>2. CASE p \notin who
    <3>1. ASSUME NEW t \in Tools
          PROVE  p \in after[t] <=> p \in edges[t]
      BY <2>2 DEF Affected
    <3> HIDE DEF after, who
    <3>2. activity'[p] = {t \in Tools : p \in edges[t]}
      BY <1>1, <2>2 DEF ActivityAgrees
    <3> QED BY <3>1, <3>2
  <2> QED BY <2>1, <2>2
<1> QED BY <1>1, <1>3, <1>4, <1>5

\* What remains to be shown of a transaction: whose evidence a linked username holds.
LEMMA CommitKeeps ==
  ASSUME PeopleInv, NEW S, Sound(S), NEW ts, Alike(evidence, S.ev, ts), Commit(S, ts),
         mapping' = mapping,
         \A e \in S.ev : e.who \in Handles => mapping[e.who] = Nobody
  PROVE  PeopleInv'
<1>1. Sound(Store)' /\ EdgesAreEvidence' /\ ActivityAgrees' /\ evidence' = S.ev
  BY CommitAgrees DEF PeopleInv
<1>2. Mapping' /\ MappingHolds'
  BY <1>1 DEF PeopleInv, Mapping, MappingHolds
<1> QED BY <1>1, <1>2 DEF PeopleInv

\* Metadata, claims and mappings, whatever snapshot they are read from.
LEMMA ReconcileKeeps ==
  ASSUME PeopleInv, NEW ts, NEW s
  PROVE  LET S == Reconcile(Store, ts, s)
         IN  /\ Sound(S) /\ Alike(evidence, S.ev, ts)
             /\ \A e \in S.ev : e.who \in Handles => mapping[e.who] = Nobody
<1> DEFINE A == Metadata(Store, ts, s)
           B == ClaimsOf(A, ts, s)
           C == Moved(B, ts)
<1>1. Sound(A) /\ Alike(evidence, A.ev, ts)
  <2>1. Sound(A) /\ Alike(evidence, A.ev, ts \cap s.live)
    BY ReplaceAuthors, ReplaceAlike DEF PeopleInv, Metadata, Store
  <2> HIDE DEF A
  <2> QED BY <2>1 DEF Alike
<1> HIDE DEF A
<1>2. Sound(B) /\ Alike(A.ev, B.ev, ts)
  <2> DEFINE said == [t \in ts |-> Claimants(s.claims, t)]
  <2>1. \A t \in ts : said[t] \subseteq People
    BY DEF Claimants
  <2>2. B = Replace(A, ts, "claim", said)
    BY DEF ClaimsOf
  <2> HIDE DEF said, B
  <2> QED BY <1>1, <2>1, <2>2, ReplaceClaims, ReplaceAlike
<1> HIDE DEF B
<1>3. Alike(evidence, B.ev, ts)
  BY <1>1, <1>2 DEF Alike
<1>4. Mapped(B.ev, ts)
  BY <1>3 DEF Alike, Mapped, PeopleInv, MappingHolds
<1>5. Sound(C) /\ Alike(B.ev, C.ev, ts) /\ Mapped(C.ev, {})
  BY <1>2, <1>4, MovedSound DEF PeopleInv
<1> HIDE DEF C
<1>6. Alike(evidence, C.ev, ts)
  BY <1>3, <1>5 DEF Alike
<1>7. Reconcile(Store, ts, s) = C
  BY DEF A, B, C, Reconcile
<1> QED BY <1>5, <1>6, <1>7 DEF Mapped

LEMMA SyncKeeps ==
  ASSUME PeopleInv, NEW t, NEW people \in SUBSET People, SyncClaims(t, people),
         mapping' = mapping
  PROVE  PeopleInv'
<1> DEFINE said == [o \in {t} |-> people]
           S == Replace(Store, {t}, "claim", said)
<1>1. Commit(S, {t})
  BY DEF SyncClaims
<1>2. \A o \in {t} : said[o] \subseteq People
  OBVIOUS
<1> HIDE DEF said
<1>3. Sound(S) /\ \A e \in S.ev : e \in Store.ev \/ e.who \in People
  BY <1>2, ReplaceClaims DEF PeopleInv
<1>4. Alike(evidence, S.ev, {t})
  BY ReplaceAlike DEF Store
<1>5. \A e \in S.ev : e.who \in Handles => mapping[e.who] = Nobody
  BY <1>3, EvidenceAssumption DEF PeopleInv, MappingHolds, Store
<1> HIDE DEF S
<1> QED BY <1>1, <1>3, <1>4, <1>5, CommitKeeps

LEMMA LinkKeeps ==
  ASSUME PeopleInv, NEW h \in Handles, Link(h)
  PROVE  PeopleInv'
<1> DEFINE Is(e) == e.who = h /\ Account[h] # Nobody
           Now(e) == IF Is(e) THEN [e EXCEPT !.who = Account[h]] ELSE e
           ts == {e.tool : e \in {x \in evidence : Is(x)}}
           ev == {Now(e) : e \in evidence}
           S == [Store EXCEPT !.ev = ev]
<1>1. Commit(S, ts) /\ mapping' = [mapping EXCEPT ![h] = Account[h]]
  BY DEF Link
<1>2. Store \in Tables /\ Store.ev = evidence /\ evidence \subseteq Evidence /\ Sound(Store)
  BY DEF PeopleInv, Sound, Tables, Store
<1>3. ASSUME NEW e \in evidence
      PROVE  /\ Now(e) \in Evidence /\ Now(e).tool = e.tool /\ Now(e).of = e.of
             /\ Now(e).source = e.source
             /\ Is(e) => Now(e).who \in People
             /\ ~Is(e) => Now(e) = e
  <2>1. CASE Is(e)
    <3>1. Account[h] \in People /\ Account[h] \in Persons
      BY <2>1, ReconcileAssumption DEF Persons
    <3>2. Now(e) = [e EXCEPT !.who = Account[h]] /\ e \in Evidence
      BY <1>2, <2>1
    <3> HIDE DEF Now
    <3> QED BY <2>1, <3>1, <3>2, MovedRow
  <2>2. CASE ~Is(e)
    BY <1>2, <2>2
  <2> QED BY <2>1, <2>2
<1> HIDE DEF Now
<1>4. ev \in SUBSET Evidence
      /\ \A e \in ev : \E x \in Store.ev : e.tool = x.tool /\ e.of = x.of /\ e.source = x.source
  BY <1>2, <1>3
<1>5. S.ev = ev
  BY <1>2 DEF Tables
<1>6. Sound(S)
  <2> HIDE DEF ev
  <2> QED BY <1>2, <1>4, Renamed
<1>7. Alike(evidence, ev, ts)
  <2>1. ASSUME NEW e, e.tool \notin ts, e \in evidence
        PROVE  e \in ev
    BY <1>3, <2>1
  <2>2. ASSUME NEW e, e.tool \notin ts, e \in ev
        PROVE  e \in evidence
    <3>1. PICK x \in evidence : e = Now(x)
      BY <2>2
    <3> QED BY <1>3, <2>2, <3>1
  <2> QED BY <2>1, <2>2 DEF Alike
<1>8. Sound(Store)' /\ EdgesAreEvidence' /\ ActivityAgrees' /\ evidence' = ev
  <2> HIDE DEF S, ts, ev
  <2> QED BY <1>1, <1>5, <1>6, <1>7, CommitAgrees DEF PeopleInv
<1>9. mapping \in [Handles -> People \cup {Nobody}]
  BY DEF PeopleInv, Mapping
<1>10. Mapping'
  BY <1>1, <1>9, ReconcileAssumption DEF Mapping
<1>11. MappingHolds'
  <2> SUFFICES ASSUME NEW e \in ev, e.who \in Handles
               PROVE  mapping'[e.who] = Nobody
    BY <1>8 DEF MappingHolds
  <2>1. PICK x \in evidence : e = Now(x)
    OBVIOUS
  <2>2. e = x /\ ~Is(x)
    BY <1>3, <2>1, EvidenceAssumption
  <2>3. mapping[e.who] = Nobody
    BY <2>2 DEF PeopleInv, MappingHolds
  <2> QED BY <1>1, <1>9, <2>2, <2>3
<1> QED BY <1>8, <1>10, <1>11 DEF PeopleInv

LEMMA ReconvergeKeeps ==
  ASSUME PeopleInv, Reconverge
  PROVE  PeopleInv'
<1> DEFINE S == Promote(Store, Chunk)
           ts == {backlog[i].tool : i \in {j \in Chunk : ~S.log[j].open}}
<1>1. Commit(S, ts) /\ mapping' = mapping
  BY DEF Reconverge
<1>2. Chunk \in SUBSET DOMAIN backlog /\ \A i \in Chunk : backlog[i].open
  BY DEF Chunk, Eligible
<1>3. Store.log = backlog /\ Store.ev = evidence
  BY DEF Store
<1>4. /\ Sound(S) /\ Alike(evidence, S.ev, ts)
      /\ \A e \in S.ev : e \in evidence \/ e.who \in People
  <2>1. Sound(Store) /\ Chunk \in SUBSET DOMAIN Store.log /\ \A i \in Chunk : Store.log[i].open
    BY <1>2, <1>3 DEF PeopleInv
  <2>2. ts = {Store.log[i].tool : i \in {j \in Chunk : ~Promote(Store, Chunk).log[j].open}}
    BY <1>3
  <2>3. /\ Sound(Promote(Store, Chunk)) /\ Alike(Store.ev, Promote(Store, Chunk).ev, ts)
        /\ \A e \in Promote(Store, Chunk).ev : e \in Store.ev \/ e.who \in People
    <3> HIDE DEF ts
    <3> QED BY <2>1, <2>2, PromoteSound
  <2> QED BY <1>3, <2>3
<1> HIDE DEF S, ts
<1>5. \A e \in S.ev : e.who \in Handles => mapping[e.who] = Nobody
  BY <1>4, EvidenceAssumption DEF PeopleInv, MappingHolds
<1> QED BY <1>1, <1>4, <1>5, CommitKeeps

\* The steps that leave the index and the mappings alone.
LEMMA UntouchedKeeps ==
  ASSUME PeopleInv, UNCHANGED <<evidenceVars, mapping>>
  PROVE  PeopleInv'
BY DEF PeopleInv, evidenceVars, Mapping, Store, Sound, Tables, LabelsByAuthors, OneRow, Decided,
   MappingHolds, EdgesAreEvidence, ActivityAgrees, Evidence, BacklogRows, Persons, Sources

(***************************************************************************)
(* The theorems                                                            *)
(***************************************************************************)
LEMMA PeopleInit == Init => PeopleInv
<1> SUFFICES ASSUME Init
             PROVE  PeopleInv
  OBVIOUS
<1>1. evidence = {} /\ backlog = <<>> /\ edges = [t \in Tools |-> {}]
      /\ activity = [p \in Persons |-> {}] /\ mapping = [h \in Handles |-> Nobody]
  BY DEF Init, EvidenceInit
<1>2. Sound(Store)
  BY <1>1 DEF Store, Sound, Tables, LabelsByAuthors, OneRow, Decided
<1> QED BY <1>1, <1>2 DEF PeopleInv, Mapping, MappingHolds, EdgesAreEvidence, ActivityAgrees

LEMMA PeopleNext == PeopleInv /\ [Next]_vars => PeopleInv'
<1> SUFFICES ASSUME PeopleInv, [Next]_vars
             PROVE  PeopleInv'
  OBVIOUS
<1>1. ASSUME NEW t \in Tools, NEW p \in People, MakeClaim(t, p)
      PROVE  PeopleInv'
  <2>1. OnlyCaller(claims', t, p) \in SUBSET People
    BY DEF OnlyCaller, Claimants
  <2> QED BY <1>1, <2>1, SyncKeeps DEF MakeClaim
<1>2. ASSUME NEW t \in Tools, NEW p \in People, RevokeClaim(t, p)
      PROVE  PeopleInv'
  <2>1. OnlyCaller(claims', t, p) \in SUBSET People
    BY DEF OnlyCaller, Claimants
  <2> QED BY <1>2, <2>1, SyncKeeps DEF RevokeClaim
<1>3. ASSUME NEW t \in Tools, ReadSummary(t)
      PROVE  PeopleInv'
  <2>1. Claimants(claims, t) \in SUBSET People
    BY DEF Claimants
  <2> QED BY <1>3, <2>1, SyncKeeps DEF ReadSummary
<1>4. CASE FinishRow
  <2> DEFINE t == Head(batch)
             S == Process(Store, {t}, seen)
  <2>1. Commit(S, {t}) /\ mapping' = mapping
    BY <1>4 DEF FinishRow
  <2>2. /\ Sound(S) /\ Alike(evidence, S.ev, {t})
        /\ \A e \in S.ev : e.who \in Handles => mapping[e.who] = Nobody
    <3>1. CASE seen.reason = "canonical_retired"
      <4>1. S = Withdrawn(Store, {t})
        BY <3>1 DEF Process
      <4> HIDE DEF S
      <4>2. Store.ev = evidence /\ Sound(Store)
        BY DEF Store, PeopleInv
      <4>3. Sound(S) /\ Alike(evidence, S.ev, {t}) /\ S.ev \subseteq evidence
        BY <4>1, <4>2, WithdrawnSound
      <4> QED BY <4>3 DEF PeopleInv, MappingHolds
    <3>2. CASE seen.reason # "canonical_retired"
      <4>1. S = Reconcile(Store, {t}, seen)
        BY <3>2 DEF Process
      <4> HIDE DEF S
      <4> QED BY <4>1, ReconcileKeeps
    <3> QED BY <3>1, <3>2
  <2> HIDE DEF S
  <2> QED BY <2>1, <2>2, CommitKeeps
<1>5. CASE FinishRebuild
  <2> DEFINE S == Reconcile(Store, PlannedTools, seen)
  <2>1. Commit(S, Tools) /\ mapping' = mapping
    BY <1>5 DEF FinishRebuild
  <2>2. /\ Sound(S) /\ Alike(evidence, S.ev, PlannedTools)
        /\ \A e \in S.ev : e.who \in Handles => mapping[e.who] = Nobody
    BY ReconcileKeeps
  <2> HIDE DEF S
  <2>3. Alike(evidence, S.ev, Tools)
    BY <2>2 DEF PeopleInv, Sound, Tables, Store, Evidence, Alike
  <2> QED BY <2>1, <2>2, <2>3, CommitKeeps
<1>6. ASSUME NEW h \in Handles, Link(h)
      PROVE  PeopleInv'
  BY <1>6, LinkKeeps
<1>7. CASE Reconverge
  BY <1>7, ReconvergeKeeps
<1>8. ASSUME NEW t \in Tools, NEW authors \in Records, Upsert(t, authors)
      PROVE  PeopleInv'
  BY <1>8, UntouchedKeeps DEF Upsert
<1>9. ASSUME NEW t \in Tools, QueueChanged(t) \/ Retire(t) \/ BackoffElapses(t)
      PROVE  PeopleInv'
  BY <1>9, UntouchedKeeps DEF QueueChanged, Retire, BackoffElapses
<1>10. ASSUME NEW h \in Handles, LookUp(h)
       PROVE  PeopleInv'
  BY <1>10, UntouchedKeeps DEF LookUp
<1>11. CASE ListBatch \/ ReadRow \/ FailRow \/ StartRebuild \/ MirrorDies \/ JobDies
  BY <1>11, UntouchedKeeps DEF ListBatch, ReadRow, FailRow, StartRebuild, MirrorDies, JobDies
<1>12. CASE UNCHANGED vars
  BY <1>12, UntouchedKeeps DEF vars
<1> QED BY <1>1, <1>2, <1>3, <1>4, <1>5, <1>6, <1>7, <1>8, <1>9, <1>10, <1>11, <1>12
        DEF Next, Incremental

LEMMA PeopleAlways == Spec => []PeopleInv
BY PeopleInit, PeopleNext, PTL DEF Spec

\* However old the snapshot a row or the rebuild was decided on, and whichever of the
\* mirror's changes, claims, links and promotions came in between, a tool's edges are
\* its evidence, the summaries are those edges, and a label is attributed or waits.
THEOREM IndexIsOne == Spec => []IndexAgrees
<1>1. PeopleInv => IndexAgrees
  BY DEF PeopleInv, IndexAgrees, OneVerdict, Sound, Decided, Store
<1> QED BY <1>1, PeopleAlways, PTL

\* A username that was linked never holds evidence again.
THEOREM LinksHold == Spec => []MappingHolds
<1>1. PeopleInv => MappingHolds
  BY DEF PeopleInv
<1> QED BY <1>1, PeopleAlways, PTL
=============================================================================
