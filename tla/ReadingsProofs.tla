--------------------------- MODULE ReadingsProofs ---------------------------
(***************************************************************************)
(* Theorems about Readings, for every set of wikis, gadgets, declarations, *)
(* pages, cadences and numbers of edits and troubles.                      *)
(*                                                                         *)
(* A run of the census reads, dates and transcribes in steps of their own, *)
(* and any of them may find nothing or be killed.  Row by row, the         *)
(* inductive invariant says where what a row holds came from: the files it *)
(* lists from a declaration, its author from the file that gave it its     *)
(* date, its description from a wiki that answered; and of the candidate   *)
(* being asked about, that it will be stored under the text it was asked.  *)
(***************************************************************************)
EXTENDS Readings, WellFoundedInduction, TLAPS

AGadgetRow(r) ==
    r = [known |-> r.known, gone |-> r.gone, gadget |-> r.gadget, hidden |-> r.hidden,
         files |-> r.files, described |-> r.described, body |-> r.body, born |-> r.born,
         author |-> r.author, touched |-> r.touched]

\* A row taken by itself: its gadget bears its key, and its author made the revision that
\* its date names.
Sourced(k, r) ==
    /\ AGadgetRow(r)
    /\ r.files \subseteq Files
    /\ r.known => r.gadget \in Gadgets /\ Key[r.gadget] = k
    /\ r.author # None => \E f \in Files : Born[f] = r.born /\ Author[f] = r.author

\* The row of a gadget that nobody edits, beside its catalogue record.
Undisturbed(k, r, record) ==
    \A g \in Steady : Key[g] = k =>
        /\ r.known => ~r.gone
        /\ Alone(g) /\ record # None /\ record.described => r.described

Rowed == \A k \in Keys : Sourced(k, rows[k])
Steadied == \A k \in Keys : Undisturbed(k, rows[k], catalog[k])
Transcripts == \A k \in Keys : catalog[k] # None => catalog[k].gadget \in Gadgets

\* What the wikis say: nobody edits a steady gadget or its message.
World ==
    /\ line \in [Gadgets -> Declarations \cup {None}]
    /\ message \in [Spellings -> BOOLEAN]
    /\ \A g \in Steady : line[g] # None /\ message[Spelling[g]] = TRUE

ALaneRow(r) == r = [held |-> r.held, due |-> r.due, cadence |-> r.cadence, failures |-> r.failures]
Timed(r) == ALaneRow(r) /\ r.cadence \in Fastest .. SlowestClosed
PacedAs(l) == l = [w \in Wikis |-> l[w]] /\ \A w \in Wikis : Timed(l[w])
Paced == PacedAs(lane)

AReading(r) == r = [print |-> r.print, payload |-> r.payload, aged |-> r.aged,
                    asked |-> r.asked, status |-> r.status]
Statuses == {"ready", "rejected", "error"}
Filed ==
    /\ readings = [n \in ToolNames |-> readings[n]]
    /\ \A n \in ToolNames : readings[n] # None => AReading(readings[n]) /\ readings[n].status \in Statuses

\* The candidate being asked about is asked about the text that its row will name.
AskedOf == sweep.asking # None => sweep.asking.text = sweep.asking.candidate.print

\* The inductive invariant.
GadgetInv == World /\ Rowed /\ Steadied /\ Transcripts /\ Paced
ReadingsInv == GadgetInv /\ Filed /\ AskedOf

(***************************************************************************)
(* Rows of the inventory                                                   *)
(***************************************************************************)
\* A nonempty set of naturals has a least element.
LEMMA LeastNumber ==
  ASSUME NEW S \in SUBSET Nat, S # {}
  PROVE  \E m \in S : \A n \in S : m <= n
<1>1. PICK m \in S : \A n \in S : ~(<<n, m>> \in OpToRel(<, Nat))
  BY NatLessThanWellFounded, WFMin
<1>2. \A n \in S : ~(n < m)
  BY <1>1 DEF OpToRel
<1> QED BY <1>2

\* One field of a row is written.
LEMMA GoneWrite ==
  ASSUME NEW r, AGadgetRow(r), NEW v, NEW s, s = [r EXCEPT !.gone = v]
  PROVE  /\ AGadgetRow(s) /\ s.gone = v
         /\ s.known = r.known /\ s.gadget = r.gadget /\ s.files = r.files
         /\ s.described = r.described /\ s.born = r.born /\ s.author = r.author
BY DEF AGadgetRow

LEMMA DescribedWrite ==
  ASSUME NEW r, AGadgetRow(r), NEW v, NEW s, s = [r EXCEPT !.described = v]
  PROVE  /\ AGadgetRow(s) /\ s.described = v
         /\ s.known = r.known /\ s.gone = r.gone /\ s.gadget = r.gadget
         /\ s.files = r.files /\ s.born = r.born /\ s.author = r.author
BY DEF AGadgetRow

LEMMA BornWrite ==
  ASSUME NEW r, AGadgetRow(r), NEW v, NEW s, s = [r EXCEPT !.born = v]
  PROVE  /\ AGadgetRow(s) /\ s.born = v
         /\ s.known = r.known /\ s.gone = r.gone /\ s.gadget = r.gadget
         /\ s.files = r.files /\ s.described = r.described /\ s.author = r.author
BY DEF AGadgetRow

LEMMA AuthorWrite ==
  ASSUME NEW r, AGadgetRow(r), NEW v, NEW s, s = [r EXCEPT !.author = v]
  PROVE  /\ AGadgetRow(s) /\ s.author = v
         /\ s.known = r.known /\ s.gone = r.gone /\ s.gadget = r.gadget
         /\ s.files = r.files /\ s.described = r.described /\ s.born = r.born
BY DEF AGadgetRow

\* Writes that no invariant is about: the code that was read, the date of the last edit.
Unlike(r, s) ==
    /\ AGadgetRow(s)
    /\ s.known = r.known /\ s.gone = r.gone /\ s.gadget = r.gadget /\ s.files = r.files
    /\ s.described = r.described /\ s.born = r.born /\ s.author = r.author

LEMMA OtherWrites ==
  ASSUME NEW r, AGadgetRow(r), NEW v
  PROVE  Unlike(r, [r EXCEPT !.body = v]) /\ Unlike(r, [r EXCEPT !.touched = v]) /\ Unlike(r, r)
BY DEF AGadgetRow, Unlike

\* _apply writes what a line declares and leaves the rest.
Transcribes(r, g, d, a) ==
    /\ AGadgetRow(a)
    /\ a.known = TRUE /\ a.gone = FALSE /\ a.gadget = g /\ a.files = d.files
    /\ a.described = r.described /\ a.born = r.born /\ a.author = r.author

LEMMA Applied ==
  ASSUME NEW r, AGadgetRow(r), NEW g, NEW d
  PROVE  Transcribes(r, g, d, ApplyLine(r, g, d))
<1> DEFINE a == ApplyLine(r, g, d)
           fit == [known : {r.known, TRUE}, gone : {r.gone, FALSE}, gadget : {r.gadget, g},
                   hidden : {r.hidden, d.hidden}, files : {r.files, d.files},
                   described : {r.described}, body : {r.body}, born : {r.born},
                   author : {r.author}, touched : {r.touched}]
<1>1. r \in fit
  BY DEF AGadgetRow
<1>2. /\ a \in fit
      /\ a.known = TRUE /\ a.gone = FALSE /\ a.gadget = g /\ a.files = d.files
      /\ a.described = r.described /\ a.born = r.born /\ a.author = r.author
  BY <1>1 DEF ApplyLine
<1>3. \A x \in fit : AGadgetRow(x)
  BY DEF AGadgetRow
<1> QED BY <1>2, <1>3 DEF Transcribes

\* A key's gadgets are of one wiki.
LEMMA OneHome ==
  ASSUME NEW g \in Gadgets, NEW h \in Gadgets, Key[g] = Key[h]
  PROVE  Home[g] = Home[h]
BY GadgetsAssumption

\* The wiki of a steady gadget's key declares something under it.
LEMMA SteadyDeclared ==
  ASSUME World, NEW w, NEW k \in KeysOf(w), NEW g \in Steady, Key[g] = k
  PROVE  Declaring(DeclaredBy(w), k) # {}
<1>1. g \in Gadgets /\ line[g] # None
  BY GadgetsAssumption DEF World
<1>2. WikiOf(k) = w /\ WikiOf(k) = Home[g]
  <2>1. \E h \in Gadgets : Key[h] = k
    BY <1>1
  <2> DEFINE h == CHOOSE h \in Gadgets : Key[h] = k
  <2>2. h \in Gadgets /\ Key[h] = k
    BY <2>1
  <2> HIDE DEF h
  <2>3. Home[h] = Home[g]
    BY <1>1, <2>2, OneHome
  <2> QED BY <2>3 DEF WikiOf, KeysOf, h
<1>3. g \in DOMAIN DeclaredBy(w)
  BY <1>1, <1>2 DEF DeclaredBy
<1> QED BY <1>3 DEF Declaring

\* The gadget a wiki serves under a key is one of those it declares under that key.
LEMMA ServedDeclared ==
  ASSUME World, NEW w, NEW k, Declaring(DeclaredBy(w), k) # {}
  PROVE  LET g == Served(DeclaredBy(w), k)
         IN  /\ g \in DOMAIN DeclaredBy(w) /\ g \in Gadgets /\ Key[g] = k
             /\ DeclaredBy(w)[g].files \subseteq Files
<1> DEFINE D == Declaring(DeclaredBy(w), k)
           g == Served(DeclaredBy(w), k)
<1>1. /\ D \subseteq Gadgets /\ D \subseteq DOMAIN DeclaredBy(w)
      /\ \A h \in D : Key[h] = k /\ DeclaredBy(w)[h] = line[h] /\ line[h] # None
  BY DEF Declaring, DeclaredBy
<1>2. D \in SUBSET Nat
  BY <1>1, GadgetsAssumption
<1>3. \E m \in D : \A n \in D : m <= n
  BY <1>2, LeastNumber
<1> HIDE DEF D
<1>4. g \in D
  BY <1>3 DEF Served, D
<1>5. line[g] \in Declarations
  BY <1>1, <1>4 DEF World
<1> QED BY <1>1, <1>4, <1>5, GadgetsAssumption

\* The messages describe a steady gadget that is alone under its name.
LEMMA AloneDescribed ==
  ASSUME World, NEW w, NEW g \in Steady, g \in DOMAIN DeclaredBy(w), Alone(g)
  PROVE  g \in Described(DeclaredBy(w))
<1>1. DOMAIN DeclaredBy(w) \subseteq Gadgets
  BY DEF DeclaredBy
<1>2. ASSUME NEW h \in DOMAIN DeclaredBy(w), Spelling[h] = Spelling[g]
      PROVE  h <= g
  <2>1. h \in Gadgets /\ g \in Gadgets
    BY <1>1
  <2>2. Key[h] = Key[g]
    BY <1>2, <2>1, GadgetsAssumption
  <2>3. h = g
    BY <2>1, <2>2 DEF Alone
  <2> QED BY <2>1, <2>3, GadgetsAssumption
<1> QED BY <1>2 DEF Described, World

\* What a census writes in a row: by a wiki's answers, or by its silence about messages.
LEMMA StoredRow ==
  ASSUME World, NEW w, NEW k \in KeysOf(w), Sourced(k, rows[k]),
         Undisturbed(k, rows[k], catalog[k]),
         NEW described, described = None \/ described = Described(DeclaredBy(w))
  PROVE  LET s == StoreRow(k, DeclaredBy(w), described)
         IN  Sourced(k, s) /\ Undisturbed(k, s, catalog[k])
<1> DEFINE entries == DeclaredBy(w)
           s == StoreRow(k, entries, described)
           r == rows[k]
<1>1. k \in Keys
  BY DEF KeysOf
<1>2. CASE Declaring(entries, k) # {}
  <2> DEFINE g == Served(entries, k)
             a == ApplyLine(r, g, entries[g])
  <2>1. /\ g \in DOMAIN entries /\ g \in Gadgets /\ Key[g] = k
        /\ entries[g].files \subseteq Files
    BY <1>2, ServedDeclared
  <2>2. /\ AGadgetRow(a)
        /\ a.known = TRUE /\ a.gone = FALSE /\ a.gadget = g /\ a.files = entries[g].files
        /\ a.described = r.described /\ a.born = r.born /\ a.author = r.author
    <3>1. AGadgetRow(r)
      BY DEF Sourced
    <3> HIDE DEF g, r, entries
    <3>2. Transcribes(r, g, entries[g], a)
      BY <3>1, Applied
    <3> QED BY <3>2 DEF Transcribes
  <2>3. s = WithDescription(a, described, g)
    BY <1>2 DEF StoreRow
  <2> HIDE DEF a, g, s, r, entries
  <2>4. Sourced(k, a) /\ Undisturbed(k, a, catalog[k])
    BY <2>1, <2>2 DEF Sourced, Undisturbed, r
  <2>5. CASE described = None
    BY <2>3, <2>4, <2>5 DEF WithDescription, s, entries
  <2>6. CASE described # None
    <3> DEFINE v == g \in described
    <3>1. s = [a EXCEPT !.described = v]
      BY <2>3, <2>6 DEF WithDescription
    <3>2. /\ AGadgetRow(s) /\ s.known = a.known /\ s.gone = a.gone /\ s.gadget = a.gadget
          /\ s.files = a.files /\ s.born = a.born /\ s.author = a.author /\ s.described = v
      <4> HIDE DEF v
      <4> QED BY <2>2, <3>1, DescribedWrite
    <3>3. Sourced(k, s)
      BY <2>4, <3>2 DEF Sourced
    <3>4. ASSUME NEW h \in Steady, Key[h] = k, Alone(h)
          PROVE  v
      <4>1. h = g
        BY <2>1, <3>4, GadgetsAssumption DEF Alone
      <4> QED BY <2>1, <2>6, <3>4, <4>1, AloneDescribed DEF entries
    <3>5. Undisturbed(k, s, catalog[k])
      <4> HIDE DEF v
      <4> QED BY <2>4, <3>2, <3>4 DEF Undisturbed
    <3> QED BY <3>3, <3>5 DEF s, entries
  <2> QED BY <2>5, <2>6
<1>3. CASE Declaring(entries, k) = {} /\ rows[k].known
  <2>1. s = [rows[k] EXCEPT !.gone = TRUE]
    BY <1>3 DEF StoreRow
  <2>2. \A g \in Steady : Key[g] # k
    BY <1>3, SteadyDeclared
  <2>3. /\ AGadgetRow(s) /\ s.known = r.known /\ s.gadget = r.gadget /\ s.files = r.files
        /\ s.born = r.born /\ s.author = r.author
    <3>1. AGadgetRow(r) /\ s = [r EXCEPT !.gone = TRUE]
      BY <2>1 DEF Sourced
    <3> HIDE DEF s, r
    <3> QED BY <3>1, GoneWrite
  <2> HIDE DEF s
  <2>4. Sourced(k, s)
    BY <2>3 DEF Sourced
  <2>5. Undisturbed(k, s, catalog[k])
    BY <2>2 DEF Undisturbed
  <2> QED BY <2>4, <2>5 DEF s
<1>4. CASE Declaring(entries, k) = {} /\ ~rows[k].known
  BY <1>4 DEF StoreRow
<1> QED BY <1>2, <1>3, <1>4

\* The first revision among a row's pages is a revision of one of them.
LEMMA EarliestFile ==
  ASSUME NEW files \in SUBSET Files, files # {}
  PROVE  Earliest(files) \in Files
<1> DEFINE S == {Born[f] : f \in files}
<1>1. S \in SUBSET Nat /\ S # {}
  BY GadgetsAssumption
<1>2. PICK m \in S : \A n \in S : m <= n
  BY <1>1, LeastNumber
<1>3. \E f \in files : \A e \in files : Born[f] <= Born[e]
  BY <1>2
<1>4. Earliest(files) \in files
  BY <1>3 DEF Earliest
<1> QED BY <1>4

\* Dating a row credits the author of the revision that the date names.
LEMMA DatedRow ==
  ASSUME NEW k, NEW r, Sourced(k, r)
  PROVE  LET s == ApplyOrigin(r)
         IN  /\ Sourced(k, s)
             /\ s.known = r.known /\ s.gone = r.gone /\ s.described = r.described
<1> DEFINE f == Earliest(r.files)
           b == [r EXCEPT !.born = Born[f]]
           s == ApplyOrigin(r)
<1>1. AGadgetRow(r)
  BY DEF Sourced
<1>2. CASE r.files = {}
  BY <1>2 DEF ApplyOrigin
<1>3. CASE r.files # {} /\ (r.born = 0 \/ Born[f] < r.born)
  <2>1. f \in Files
    BY <1>3, EarliestFile DEF Sourced
  <2>2. s = [b EXCEPT !.author = Author[f]]
    BY <1>3 DEF ApplyOrigin, Credit
  <2>3. /\ AGadgetRow(b) /\ b.born = Born[f] /\ b.known = r.known /\ b.gone = r.gone
        /\ b.gadget = r.gadget /\ b.files = r.files /\ b.described = r.described
    <3> HIDE DEF f
    <3>1. b = [r EXCEPT !.born = Born[f]]
      OBVIOUS
    <3> HIDE DEF b
    <3> QED BY <1>1, <3>1, BornWrite
  <2> HIDE DEF b, f, s
  <2>4. /\ AGadgetRow(s) /\ s.born = Born[f] /\ s.author = Author[f] /\ s.known = r.known
        /\ s.gone = r.gone /\ s.gadget = r.gadget /\ s.files = r.files
        /\ s.described = r.described
    BY <2>2, <2>3, AuthorWrite
  <2>5. Sourced(k, s)
    BY <2>1, <2>4 DEF Sourced
  <2> QED BY <2>4, <2>5 DEF s
<1>4. CASE r.files # {} /\ ~(r.born = 0 \/ Born[f] < r.born)
  <2>1. f \in Files
    BY <1>4, EarliestFile DEF Sourced
  <2>2. CASE Born[f] = r.born /\ r.author = None
    <3>1. s = [r EXCEPT !.author = Author[f]]
      BY <1>4, <2>2 DEF ApplyOrigin, Credit
    <3> HIDE DEF s, f
    <3>2. /\ AGadgetRow(s) /\ s.author = Author[f] /\ s.born = r.born /\ s.known = r.known
          /\ s.gone = r.gone /\ s.gadget = r.gadget /\ s.files = r.files
          /\ s.described = r.described
      BY <1>1, <3>1, AuthorWrite
    <3>3. Sourced(k, s)
      BY <2>1, <2>2, <3>2 DEF Sourced
    <3> QED BY <3>2, <3>3 DEF s
  <2>3. CASE ~(Born[f] = r.born /\ r.author = None)
    BY <1>4, <2>3 DEF ApplyOrigin
  <2> QED BY <2>2, <2>3
<1> QED BY <1>2, <1>3, <1>4

LEMMA UnlikeSourced ==
  ASSUME NEW k, NEW r, Sourced(k, r), NEW s, Unlike(r, s)
  PROVE  Sourced(k, s) /\ s.known = r.known /\ s.gone = r.gone /\ s.described = r.described
BY DEF Sourced, Unlike

(***************************************************************************)
(* Rows of the schedule                                                    *)
(***************************************************************************)
LEMMA TunedInBounds ==
  ASSUME NEW c \in Fastest .. SlowestClosed, NEW changed, NEW closed
  PROVE  Tune(c, changed, closed) \in Fastest .. SlowestClosed
BY ScheduleAssumption DEF Tune, Least, Most

LEMMA LaterTimed ==
  ASSUME NEW r, Timed(r)
  PROVE  Timed(Later(r))
BY DEF Later, Timed, ALaneRow

LEMMA StateTimed ==
  ASSUME NEW r, Timed(r)
  PROVE  Timed(StateRow(r))
<1>1. Initial \in Fastest .. SlowestClosed
  BY ScheduleAssumption
<1> QED BY <1>1 DEF StateRow, NewRow, Timed, ALaneRow

LEMMA FailedTimed ==
  ASSUME NEW r, Timed(r)
  PROVE  Timed(SettleFailed(r))
<1> DEFINE x == StateRow(r)
           failures == x.failures + 1
           due == Least(BackoffMax, BackoffBase * 2 ^ (failures - 1))
<1>1. Timed(x)
  BY StateTimed
<1>2. SettleFailed(r) = [x EXCEPT !.failures = failures, !.due = due]
  BY DEF SettleFailed
<1> HIDE DEF x, failures, due
<1>3. SettleFailed(r) = [held |-> x.held, due |-> due, cadence |-> x.cadence, failures |-> failures]
  BY <1>1, <1>2 DEF Timed, ALaneRow
<1> QED BY <1>1, <1>3 DEF Timed, ALaneRow

LEMMA CoveredTimed ==
  ASSUME NEW r, Timed(r), NEW changed, NEW closed
  PROVE  Timed(SettleCovered(r, changed, closed))
<1> DEFINE x == StateRow(r)
           cadence == Tune(x.cadence, changed, closed)
<1>1. Timed(x)
  BY StateTimed
<1>2. cadence \in Fastest .. SlowestClosed
  BY <1>1, TunedInBounds DEF Timed
<1>3. SettleCovered(r, changed, closed)
        = [x EXCEPT !.failures = 0, !.cadence = cadence, !.due = cadence]
  BY DEF SettleCovered
<1> HIDE DEF x, cadence
<1>4. SettleCovered(r, changed, closed)
        = [held |-> x.held, due |-> cadence, cadence |-> cadence, failures |-> 0]
  BY <1>1, <1>3 DEF Timed, ALaneRow
<1> QED BY <1>2, <1>4 DEF Timed, ALaneRow

LEMMA OneWikiPaced ==
  ASSUME NEW l, PacedAs(l), NEW x, NEW v, x \in Wikis => Timed(v),
         NEW m, m = [l EXCEPT ![x] = v]
  PROVE  PacedAs(m)
BY DEF PacedAs

LEMMA StartedPaced ==
  ASSUME NEW l, PacedAs(l), NEW queue, StartWiki(l, queue)
  PROVE  PacedAs(lane')
<1> DEFINE w == Head(queue)
<1>1. lane' = [l EXCEPT ![w] = StateRow(l[w])]
  BY DEF StartWiki
<1>2. w \in Wikis => Timed(StateRow(l[w]))
  BY StateTimed DEF PacedAs
<1> HIDE DEF w
<1> QED BY <1>1, <1>2, OneWikiPaced

LEMMA SettledPaced ==
  ASSUME NEW l, PacedAs(l), SettleWiki(l)
  PROVE  PacedAs(lane')
BY StartedPaced DEF SettleWiki

(***************************************************************************)
(* Steps of the gadget lane                                                *)
(***************************************************************************)
LEMMA EditKeeps ==
  ASSUME GadgetInv, Edit
  PROVE  GadgetInv'
<1>1. UNCHANGED tables
  BY DEF Edit, Declare, Describe, SavePage, Relist
<1>2. World'
  <2>0. World
    BY DEF GadgetInv
  <2>1. ASSUME NEW g \in Gadgets, NEW d \in Declarations \cup {None}, Declare(g, d)
        PROVE  World'
    BY <2>1, <2>0 DEF Declare, World
  <2>2. ASSUME NEW n \in Spellings, Describe(n)
        PROVE  World'
    <3> DEFINE v == ~message[n]
    <3>1. message' = [message EXCEPT ![n] = v] /\ line' = line /\ \A g \in Steady : Spelling[g] # n
      BY <2>2 DEF Describe
    <3>2. v \in BOOLEAN
      OBVIOUS
    <3> HIDE DEF v
    <3> QED BY <3>1, <3>2, <2>0 DEF World
  <2>3. ASSUME UNCHANGED <<line, message>>
        PROVE  World'
    BY <2>3 DEF World, GadgetInv
  <2> QED BY <2>1, <2>2, <2>3 DEF Edit, SavePage, Relist
<1> QED BY <1>1, <1>2 DEF tables, GadgetInv, Rowed, Steadied, Transcripts, Paced

\* Steps that write neither the rows nor the records.
LEMMA LaneKeeps ==
  ASSUME GadgetInv, UNCHANGED <<world, rows, catalog>>, PacedAs(lane')
  PROVE  GadgetInv'
BY DEF GadgetInv, World, Rowed, Steadied, Transcripts, Paced, world

LEMMA StartRunPaces ==
  ASSUME Paced, StartRun
  PROVE  PacedAs(lane')
<1> DEFINE owed == [w \in Wikis |-> Later(lane[w])]
<1>1. PacedAs(owed)
  BY LaterTimed DEF Paced, PacedAs
<1>2. lane' = owed \/ StartWiki(owed, Queue(owed))
  BY DEF StartRun
<1> HIDE DEF owed
<1> QED BY <1>1, <1>2, StartedPaced

LEMMA SettlePaces ==
  ASSUME Paced, Settle
  PROVE  PacedAs(lane')
<1> DEFINE w == census.wiki
           v == SettleCovered(lane[w], census.changed, w \in Closed)
           settled == [lane EXCEPT ![w] = v]
<1>1. w \in Wikis => Timed(v)
  BY CoveredTimed DEF Paced, PacedAs
<1>2. SettleWiki(settled)
  BY DEF Settle
<1>3. PacedAs(settled)
  <2> HIDE DEF w, v
  <2> QED BY <1>1, OneWikiPaced DEF Paced
<1> HIDE DEF settled
<1> QED BY <1>2, <1>3, SettledPaced

LEMMA FailurePaces ==
  ASSUME Paced, CoverFailed
  PROVE  PacedAs(lane')
<1> DEFINE w == census.wiki
           v == SettleFailed(lane[w])
           settled == [lane EXCEPT ![w] = v]
<1>1. w \in Wikis => Timed(v)
  BY FailedTimed DEF Paced, PacedAs
<1>2. SettleWiki(settled)
  BY DEF CoverFailed
<1>3. PacedAs(settled)
  <2> HIDE DEF w, v
  <2> QED BY <1>1, OneWikiPaced DEF Paced
<1> HIDE DEF settled
<1> QED BY <1>2, <1>3, SettledPaced

\* Steps that write rows, each to one with the invariant.
LEMMA RowsKeep ==
  ASSUME GadgetInv, UNCHANGED <<world, lane, catalog>>,
         \A k \in Keys : Sourced(k, rows'[k]) /\ Undisturbed(k, rows'[k], catalog[k])
  PROVE  GadgetInv'
BY DEF GadgetInv, World, Rowed, Steadied, Transcripts, Paced, world

LEMMA SameDisturbance ==
  ASSUME NEW k, NEW r, NEW record, Undisturbed(k, r, record), NEW s,
         s.known = r.known /\ s.gone = r.gone /\ s.described = r.described
  PROVE  Undisturbed(k, s, record)
BY DEF Undisturbed

LEMMA IngestKeeps ==
  ASSUME GadgetInv, NEW described,
         described = None \/ described = Described(DeclaredBy(census.wiki)),
         Ingest(described)
  PROVE  GadgetInv'
<1> DEFINE w == census.wiki
<1>1. rows' = [k \in Keys |-> IF k \in KeysOf(w) THEN StoreRow(k, DeclaredBy(w), described)
                               ELSE rows[k]]
  BY DEF Ingest
<1>2. UNCHANGED <<world, lane, catalog>>
  BY DEF Ingest
<1>3. ASSUME NEW k \in Keys
      PROVE  Sourced(k, rows'[k]) /\ Undisturbed(k, rows'[k], catalog[k])
  <2>1. World /\ Sourced(k, rows[k]) /\ Undisturbed(k, rows[k], catalog[k])
    BY DEF GadgetInv, Rowed, Steadied
  <2>0. described = None \/ described = Described(DeclaredBy(w))
    OBVIOUS
  <2> HIDE DEF w
  <2>2. CASE k \in KeysOf(w)
    <3>1. rows'[k] = StoreRow(k, DeclaredBy(w), described)
      BY <1>1, <2>2
    <3>2. LET s == StoreRow(k, DeclaredBy(w), described)
          IN  Sourced(k, s) /\ Undisturbed(k, s, catalog[k])
      BY <2>0, <2>1, <2>2, StoredRow
    <3> QED BY <3>1, <3>2
  <2>3. CASE k \notin KeysOf(w)
    BY <1>1, <2>1, <2>3
  <2> QED BY <2>2, <2>3
<1> QED BY <1>2, <1>3, RowsKeep

LEMMA StampKeeps ==
  ASSUME GadgetInv, StampDates
  PROVE  GadgetInv'
<1>1. rows' = [k \in Keys |-> IF k \in KeysOf(census.wiki) /\ rows[k].known
                               THEN Advance(ApplyOrigin(rows[k])) ELSE rows[k]]
  BY DEF StampDates
<1>2. UNCHANGED <<world, lane, catalog>>
  BY DEF StampDates
<1>3. ASSUME NEW k \in Keys
      PROVE  Sourced(k, rows'[k]) /\ Undisturbed(k, rows'[k], catalog[k])
  <2> DEFINE r == rows[k]
             o == ApplyOrigin(r)
             s == Advance(o)
  <2>1. Sourced(k, r) /\ Undisturbed(k, r, catalog[k])
    BY DEF GadgetInv, Rowed, Steadied
  <2>2. Sourced(k, o) /\ o.known = r.known /\ o.gone = r.gone /\ o.described = r.described
    <3> HIDE DEF r
    <3> QED BY <2>1, DatedRow
  <2>3. Unlike(o, s)
    <3>1. AGadgetRow(o)
      BY <2>2 DEF Sourced
    <3> HIDE DEF o
    <3> QED BY <3>1, OtherWrites DEF Advance
  <2>4. Sourced(k, s) /\ s.known = o.known /\ s.gone = o.gone /\ s.described = o.described
    <3> HIDE DEF o, s
    <3> QED BY <2>2, <2>3, UnlikeSourced
  <2>5. rows'[k] = s \/ rows'[k] = r
    BY <1>1
  <2>6. Undisturbed(k, s, catalog[k])
    <3> HIDE DEF r, o, s
    <3> QED BY <2>1, <2>2, <2>4, SameDisturbance
  <2> HIDE DEF r, o, s
  <2> QED BY <2>1, <2>4, <2>5, <2>6
<1> QED BY <1>2, <1>3, RowsKeep

LEMMA ReadKeeps ==
  ASSUME GadgetInv, ReadChunk
  PROVE  GadgetInv'
<1>1. PICK read : rows' = RowsRead(read)
  BY DEF ReadChunk
<1>2. UNCHANGED <<world, lane, catalog>>
  BY DEF ReadChunk
<1>3. ASSUME NEW k \in Keys
      PROVE  Sourced(k, rows'[k]) /\ Undisturbed(k, rows'[k], catalog[k])
  <2> DEFINE r == rows[k]
             s == rows'[k]
  <2>1. Sourced(k, r) /\ Undisturbed(k, r, catalog[k])
    BY DEF GadgetInv, Rowed, Steadied
  <2>2. Unlike(r, s)
    <3>1. s = r \/ s = [r EXCEPT !.body = BodyFor(r)]
      BY <1>1 DEF RowsRead, ReadRow
    <3>2. AGadgetRow(r)
      BY <2>1 DEF Sourced
    <3> HIDE DEF r, s
    <3> QED BY <3>1, <3>2, OtherWrites
  <2> HIDE DEF r, s
  <2>3. Sourced(k, s) /\ s.known = r.known /\ s.gone = r.gone /\ s.described = r.described
    BY <2>1, <2>2, UnlikeSourced
  <2>4. Undisturbed(k, s, catalog[k])
    BY <2>1, <2>3, SameDisturbance
  <2> QED BY <2>3, <2>4 DEF s
<1> QED BY <1>2, <1>3, RowsKeep

\* A record says of the messages what its row says.
LEMMA SynchronizeKeeps ==
  ASSUME GadgetInv, Synchronize
  PROVE  GadgetInv'
<1>1. catalog' = Synchronized(census.wiki)
  BY DEF Synchronize
<1>2. UNCHANGED <<world, lane, rows>>
  BY DEF Synchronize
<1>3. ASSUME NEW k \in Keys
      PROVE  /\ Undisturbed(k, rows[k], catalog'[k])
             /\ catalog'[k] # None => catalog'[k].gadget \in Gadgets
  <2>1. Sourced(k, rows[k]) /\ Undisturbed(k, rows[k], catalog[k])
    BY DEF GadgetInv, Rowed, Steadied
  <2>2. catalog[k] # None => catalog[k].gadget \in Gadgets
    BY DEF GadgetInv, Transcripts
  <2>3. CASE catalog'[k] = catalog[k]
    BY <2>1, <2>2, <2>3
  <2>4. CASE catalog'[k] = None
    BY <2>1, <2>4 DEF Undisturbed
  <2>5. CASE Wanted(k) /\ catalog'[k] = Record(rows[k])
    <3>1. catalog'[k].described = rows[k].described /\ catalog'[k].gadget = rows[k].gadget
      BY <2>5 DEF Record
    <3>2. rows[k].known
      BY <2>5 DEF Wanted
    <3> QED BY <2>1, <3>1, <3>2 DEF Undisturbed, Sourced
  <2> QED BY <1>1, <2>3, <2>4, <2>5 DEF Synchronized
<1> QED BY <1>2, <1>3 DEF GadgetInv, World, Rowed, Steadied, Transcripts, Paced, world

LEMMA GadgetsKeep ==
  ASSUME GadgetInv, Edit \/ Refresh \/ Census \/ CensusTrouble \/ ReadChunk
  PROVE  GadgetInv'
<1>1. Paced
  BY DEF GadgetInv
<1>2. CASE Edit
  BY <1>2, EditKeeps
<1>3. CASE Refresh \/ IngestBlank \/ IngestUnread \/ NoReplica \/ CensusKilled
  BY <1>1, <1>3, LaneKeeps
     DEF Refresh, IngestBlank, IngestUnread, IngestNothing, NoReplica, CensusKilled, tables, Paced
<1>4. CASE StartRun
  BY <1>1, <1>4, LaneKeeps, StartRunPaces DEF StartRun
<1>5. CASE Settle
  BY <1>1, <1>5, LaneKeeps, SettlePaces DEF Settle
<1>6. CASE CoverFailed
  BY <1>1, <1>6, LaneKeeps, FailurePaces DEF CoverFailed
<1>7. CASE IngestDescribed \/ IngestUndescribed
  BY <1>7, IngestKeeps DEF IngestDescribed, IngestUndescribed
<1>8. CASE StampDates
  BY <1>8, StampKeeps
<1>9. CASE Synchronize
  BY <1>9, SynchronizeKeeps
<1>10. CASE ReadChunk
  BY <1>10, ReadKeeps
<1> QED BY <1>2, <1>3, <1>4, <1>5, <1>6, <1>7, <1>8, <1>9, <1>10 DEF Census, CensusTrouble

(***************************************************************************)
(* Readings                                                                *)
(***************************************************************************)
\* What is stored for a candidate bears its text, and takes each value from there or from
\* the row it replaces.
LEMMA RecordedRow ==
  ASSUME NEW c, NEW text, text = c.print, NEW outcome, outcome.status \in Statuses
  PROVE  LET row == Recorded(c, text, outcome)
             old == readings[c.name]
         IN  /\ AReading(row) /\ row.status \in Statuses
             /\ \A f \in Fields :
                  row.payload[f] \in {IF old = None THEN None ELSE old.payload[f], row.print}
<1> DEFINE row == Recorded(c, text, outcome)
           old == readings[c.name]
           held == IF old = None THEN [f \in Fields |-> None] ELSE old.payload
           payload == [f \in Fields |-> IF f \in outcome.accepted THEN text ELSE held[f]]
           before == IF old = None THEN {} ELSE old.asked
           asked == IF outcome.answered THEN before \cup c.fields ELSE before
           status == IF \E f \in Fields : payload[f] # None THEN "ready" ELSE outcome.status
<1>1. row = [print |-> c.print, payload |-> payload, aged |-> FALSE,
             asked |-> asked, status |-> status]
  BY DEF Recorded, AnsweredFor
<1>2. status \in Statuses
  BY DEF Statuses
<1>3. \A f \in Fields : payload[f] \in {IF old = None THEN None ELSE old.payload[f], text}
  OBVIOUS
<1> HIDE DEF row, old, held, payload, before, asked, status
<1>4. AReading(row) /\ row.status = status /\ row.payload = payload /\ row.print = c.print
  BY <1>1 DEF AReading
<1> QED BY <1>2, <1>3, <1>4 DEF row, old

\* A stored answer is the only change that an ask makes.
LEMMA StoredAnswer ==
  ASSUME ReadingsInv, NEW outcome, outcome.status \in Statuses, StoreAnswer(outcome)
  PROVE  /\ Filed'
         /\ \A n \in ToolNames : readings'[n] # readings[n] =>
              \A f \in Fields :
                 readings'[n].payload[f] \in
                    {IF readings[n] = None THEN None ELSE readings[n].payload[f], readings'[n].print}
<1> DEFINE c == sweep.asking.candidate
           text == sweep.asking.text
           row == Recorded(c, text, outcome)
<1>1. text = c.print
  BY DEF StoreAnswer, ReadingsInv, AskedOf
<1>2. readings' = [readings EXCEPT ![c.name] = row]
  BY DEF StoreAnswer
<1>3. /\ AReading(row) /\ row.status \in Statuses
      /\ \A f \in Fields : row.payload[f] \in
           {IF readings[c.name] = None THEN None ELSE readings[c.name].payload[f], row.print}
  <2> HIDE DEF c, text
  <2> QED BY <1>1, RecordedRow
<1> HIDE DEF c, row
<1> QED BY <1>2, <1>3 DEF Filed, ReadingsInv

\* A script's error grows old: its values stay.
LEMMA AgedRow ==
  ASSUME NEW r, AReading(r), NEW v, NEW s, s = [r EXCEPT !.aged = v]
  PROVE  AReading(s) /\ s.status = r.status /\ s.payload = r.payload
BY DEF AReading

LEMMA AgedReading ==
  ASSUME Filed, NEW x \in Script, RetryDue(x)
  PROVE  /\ Filed'
         /\ \A n \in ToolNames : readings'[n] # readings[n] =>
              readings[n] # None /\ readings'[n].payload = readings[n].payload
<1> DEFINE r == readings[x]
           s == [r EXCEPT !.aged = TRUE]
<1>1. x \in ToolNames /\ r # None
  BY DEF RetryDue, ToolNames
<1>2. readings' = [readings EXCEPT ![x] = s]
  BY DEF RetryDue
<1>3. AReading(r) /\ r.status \in Statuses
  BY <1>1 DEF Filed
<1>4. AReading(s) /\ s.status = r.status /\ s.payload = r.payload
  <2> HIDE DEF r
  <2> QED BY <1>3, AgedRow
<1> HIDE DEF s
<1> QED BY <1>1, <1>2, <1>3, <1>4 DEF Filed

LEMMA WaveAsked ==
  ASSUME NEW queue, sweep' = NextWave(queue)
  PROVE  AskedOf'
<1>1. CASE queue = <<>>
  BY <1>1 DEF NextWave, Resting, AskedOf
<1>2. CASE queue # <<>>
  <2> DEFINE c == Head(queue)
  <2>1. sweep'.asking = [candidate |-> WithSource(c), text |-> Asked(c)]
    BY <1>2 DEF NextWave
  <2>2. WithSource(c).print = Asked(c)
    BY DEF WithSource, Asked
  <2> HIDE DEF c
  <2> QED BY <2>1, <2>2 DEF AskedOf
<1> QED BY <1>1, <1>2

LEMMA Asks ==
  ASSUME AskAccepted \/ AskUnparsed \/ AskFailed
  PROVE  \E outcome : outcome.status \in Statuses /\ StoreAnswer(outcome)
<1>1. CASE AskAccepted
  <2>1. PICK accepted :
          StoreAnswer([accepted |-> accepted, answered |-> TRUE,
                       status |-> IF accepted = {} THEN "rejected" ELSE "ready"])
    BY <1>1 DEF AskAccepted
  <2> DEFINE o == [accepted |-> accepted, answered |-> TRUE,
                   status |-> IF accepted = {} THEN "rejected" ELSE "ready"]
  <2>2. o.status \in Statuses
    BY DEF Statuses
  <2>3. StoreAnswer(o)
    BY <2>1
  <2> HIDE DEF o
  <2> QED BY <2>2, <2>3
<1>2. CASE AskUnparsed
  <2> DEFINE o == [accepted |-> {}, answered |-> FALSE, status |-> "rejected"]
  <2>1. o.status \in Statuses
    BY DEF Statuses
  <2>2. StoreAnswer(o)
    BY <1>2 DEF AskUnparsed
  <2> HIDE DEF o
  <2> QED BY <2>1, <2>2
<1>3. CASE AskFailed
  <2> DEFINE o == [accepted |-> {}, answered |-> TRUE, status |-> "error"]
  <2>1. o.status \in Statuses
    BY DEF Statuses
  <2>2. StoreAnswer(o)
    BY <1>3 DEF AskFailed
  <2> HIDE DEF o
  <2> QED BY <2>1, <2>2
<1> QED BY <1>1, <1>2, <1>3

(***************************************************************************)
(* The invariant                                                           *)
(***************************************************************************)
LEMMA InitReadings == Init => ReadingsInv
<1> SUFFICES ASSUME Init
             PROVE  ReadingsInv
  OBVIOUS
<1> USE DEF Init, GadgetInit
<1>1. World
  <2>1. message \in [Spellings -> BOOLEAN] /\ \A g \in Steady : message[Spelling[g]] = TRUE
    BY GadgetsAssumption DEF Spellings
  <2> QED BY <2>1 DEF World
<1>2. Rowed
  BY DEF Rowed, Sourced, AGadgetRow, NoGadget
<1>3. Steadied /\ Transcripts
  BY DEF Steadied, Undisturbed, Transcripts, NoGadget
<1>4. Paced
  <2>1. lane = [w \in Wikis |-> NewRow]
    OBVIOUS
  <2>2. Initial \in Fastest .. SlowestClosed
    BY ScheduleAssumption
  <2>3. Timed(NewRow)
    BY <2>2 DEF Timed, ALaneRow, NewRow
  <2> HIDE DEF Init, GadgetInit
  <2> QED BY <2>1, <2>3 DEF Paced, PacedAs
<1>5. Filed /\ AskedOf
  BY DEF Filed, AskedOf, Resting
<1> QED BY <1>1, <1>2, <1>3, <1>4, <1>5 DEF ReadingsInv, GadgetInv

LEMMA GadgetInvFrame ==
  ASSUME GadgetInv, UNCHANGED <<line, message, lane, rows, catalog>>
  PROVE  GadgetInv'
BY DEF GadgetInv, World, Rowed, Steadied, Transcripts, Paced

LEMMA NextReadings == ReadingsInv /\ [Next]_vars => ReadingsInv'
<1> SUFFICES ASSUME ReadingsInv, [Next]_vars
             PROVE  ReadingsInv'
  OBVIOUS
<1>1. GadgetInv /\ Filed /\ AskedOf
  BY DEF ReadingsInv
<1>2. CASE GadgetStep
  <2>1. GadgetInv'
    BY <1>1, <1>2, GadgetsKeep DEF GadgetStep
  <2>2. Filed' /\ AskedOf'
    BY <1>1, <1>2 DEF GadgetStep, Filed, AskedOf
  <2> QED BY <2>1, <2>2 DEF ReadingsInv
<1>3. ASSUME NEW x \in Script, NEW version \in Versions, StoreScript(x, version)
      PROVE  ReadingsInv'
  <2>1. GadgetInv'
    BY <1>1, <1>3, GadgetInvFrame DEF StoreScript, tables
  <2>2. Filed' /\ AskedOf'
    BY <1>1, <1>3 DEF StoreScript, Filed, AskedOf
  <2> QED BY <2>1, <2>2 DEF ReadingsInv
<1>4. ASSUME NEW x \in Script, RetryDue(x)
      PROVE  ReadingsInv'
  <2>1. GadgetInv'
    BY <1>1, <1>4, GadgetInvFrame DEF RetryDue, gadgetVars, world, tables
  <2>2. Filed'
    BY <1>1, <1>4, AgedReading
  <2>3. AskedOf'
    BY <1>1, <1>4 DEF RetryDue, AskedOf
  <2> QED BY <2>1, <2>2, <2>3 DEF ReadingsInv
<1>5. CASE OpenWindow
  <2>1. GadgetInv'
    BY <1>1, <1>5, GadgetInvFrame DEF OpenWindow, gadgetVars, world, tables
  <2>2. Filed'
    BY <1>1, <1>5 DEF OpenWindow, Filed
  <2>3. AskedOf'
    BY <1>5, WaveAsked DEF OpenWindow
  <2> QED BY <2>1, <2>2, <2>3 DEF ReadingsInv
<1>6. CASE AskAccepted \/ AskUnparsed \/ AskFailed
  <2>1. PICK outcome : outcome.status \in Statuses /\ StoreAnswer(outcome)
    BY <1>6, Asks
  <2>2. GadgetInv'
    BY <1>1, <2>1, GadgetInvFrame DEF StoreAnswer, world, tables
  <2>3. Filed'
    BY <2>1, StoredAnswer
  <2>4. AskedOf'
    BY <2>1, WaveAsked DEF StoreAnswer
  <2> QED BY <2>2, <2>3, <2>4 DEF ReadingsInv
<1>7. CASE SweepKilled
  <2>1. GadgetInv'
    BY <1>1, <1>7, GadgetInvFrame DEF SweepKilled, world, tables
  <2>2. Filed' /\ AskedOf'
    BY <1>1, <1>7 DEF SweepKilled, Filed, AskedOf, Resting
  <2> QED BY <2>1, <2>2 DEF ReadingsInv
<1>8. CASE UNCHANGED vars
  <2>1. GadgetInv'
    BY <1>1, <1>8, GadgetInvFrame DEF vars, gadgetVars, world, tables
  <2>2. Filed' /\ AskedOf'
    BY <1>1, <1>8 DEF vars, Filed, AskedOf
  <2> QED BY <2>1, <2>2 DEF ReadingsInv
<1> QED BY <1>2, <1>3, <1>4, <1>5, <1>6, <1>7, <1>8 DEF Next, Sweep

\* Nothing is put down that nobody said: whatever requests go unanswered and wherever a run
\* is killed, no steady gadget is retired, none that is alone under its name loses its
\* description, and no gadget is credited to the author of another revision than the one its
\* creation date names.
THEOREM NothingMadeUp == Spec => []Truthful
<1>1. ReadingsInv => Truthful
  <2> SUFFICES ASSUME ReadingsInv
               PROVE  Truthful
    OBVIOUS
  <2> USE DEF ReadingsInv, GadgetInv
  <2>1. TypeOK
    <3>1. \A k \in Keys : rows[k].known => Key[rows[k].gadget] = k
      BY DEF Rowed, Sourced
    <3>2. \A k \in Keys : catalog[k] # None => catalog[k].gadget # 0
      BY GadgetsAssumption DEF Transcripts
    <3>3. \A n \in ToolNames : readings[n] # None => readings[n].status \in Statuses
      BY DEF Filed
    <3>4. \A w \in Wikis : lane[w].cadence \in Fastest .. SlowestClosed
      BY DEF Paced, PacedAs, Timed
    <3> QED BY <3>1, <3>2, <3>3, <3>4 DEF TypeOK, Statuses
  <2>2. SilenceKeeps
    BY GadgetsAssumption DEF SilenceKeeps, Steadied, Undisturbed, Keys
  <2>3. CreditTrue
    BY DEF CreditTrue, Rowed, Sourced
  <2> QED BY <2>1, <2>2, <2>3 DEF Truthful
<1> QED BY <1>1, InitReadings, NextReadings, PTL DEF Spec

\* Whatever else happens between the question and the answer, a value that an answer puts
\* into a row was read from the very text that the row names from then on.
THEOREM AnswersBearTheirText == Spec => AnswersDated
<1> DEFINE Dated ==
      \A n \in ToolNames : readings'[n] # readings[n] =>
        \A f \in Fields :
          LET before == IF readings[n] = None THEN None ELSE readings[n].payload[f]
          IN  readings'[n].payload[f] \in {before, readings'[n].print}
<1>1. ReadingsInv /\ [Next]_vars => [Dated]_vars
  <2> SUFFICES ASSUME ReadingsInv, Next
               PROVE  Dated
    OBVIOUS
  <2>1. CASE UNCHANGED readings
    BY <2>1
  <2>2. ASSUME NEW x \in Script, RetryDue(x)
        PROVE  Dated
    BY <2>2, AgedReading DEF ReadingsInv
  <2>3. CASE AskAccepted \/ AskUnparsed \/ AskFailed
    BY <2>3, Asks, StoredAnswer
  <2> QED BY <2>1, <2>2, <2>3 DEF Next, GadgetStep, StoreScript, Sweep, OpenWindow, SweepKilled
<1>2. []ReadingsInv /\ [][Next]_vars => [][Dated]_vars
  BY <1>1, PTL
<1>3. Spec => [][Dated]_vars
  BY <1>2, InitReadings, NextReadings, PTL DEF Spec
<1> QED BY <1>3 DEF AnswersDated
=============================================================================
