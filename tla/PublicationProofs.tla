------------------------- MODULE PublicationProofs -------------------------
(***************************************************************************)
(* Theorems about the two publications of the program: DigestPublish, for  *)
(* every number of days, creations and failures and every set of periods   *)
(* that fail, are refused or squatted; and Identity, for any accounts,     *)
(* people, tools and names, and any number of changes of the outside       *)
(* world.  The two share nothing but the lemma on least elements; they are *)
(* in one module because no name is defined in both.                       *)
(***************************************************************************)
EXTENDS DigestPublish, Identity, FiniteSetTheorems, WellFoundedInduction, TLAPS

\* A set of numbers has a least element.
LEMMA LeastExists ==
    ASSUME NEW S \in SUBSET Nat, S # {}
    PROVE  \E m \in S : \A n \in S : m <= n
<1>1. PICK m \in S : \A n \in S : ~(<<n, m>> \in OpToRel(<, Nat))
  BY NatLessThanWellFounded, WFMin
<1>2. \A n \in S : ~(n < m)
  BY <1>1 DEF OpToRel
<1> QED
  BY <1>2

----------------------------------------------------------------------------
(***************************************************************************)
(* DigestPublish                                                           *)
(***************************************************************************)
\* The constants, one by one.
LEMMA Constants ==
    /\ MaxDay \in Nat \ {0} /\ MaxTools \in Nat \ {0}
    /\ BackfillDays \in Nat \ {0} /\ MaxEditions \in Nat \ {0}
    /\ MaxFailures \in Nat
    /\ Days \subseteq Nat
BY PublishAssumption DEF Days

\* A pass always has a first edition to work on.
LEMMA FirstInSet ==
    ASSUME NEW S \in SUBSET Days, S # {}
    PROVE  First(S) \in S
<1>1. \E m \in S : \A n \in S : m <= n
  BY Constants, LeastExists
<1> QED
  BY <1>1 DEF First

(***************************************************************************)
(* Type correctness                                                        *)
(***************************************************************************)
\* Nothing has happened yet.
LEMMA InitTypes == Init => TypeOK
BY Constants DEF Init, TypeOK, Days, Statuses, Retryable, Pages, Phases, Idle

LEMMA IdleTypes ==
    /\ Idle \in [pc : Phases, todo : SUBSET Days, tools : 0..MaxTools, outcome : Statuses]
    /\ Idle.pc = "idle"
BY Constants DEF Idle, Phases, Statuses, Retryable

\* Every step keeps the types.
LEMMA StepTypes == TypeOK /\ [Next]_vars => TypeOK'
<1> SUFFICES ASSUME TypeOK, [Next]_vars PROVE TypeOK'
  OBVIOUS
<1> USE Constants, IdleTypes
<1>1. CASE NextDay
  BY <1>1 DEF TypeOK, NextDay, Days, editionVars
<1>2. ASSUME NEW d \in Days, Capture(d) PROVE TypeOK'
  BY <1>2 DEF TypeOK, Capture, editionVars
<1>3. ASSUME NEW d \in Days, StrangerCreatesPage(d) PROVE TypeOK'
  BY <1>3 DEF TypeOK, StrangerCreatesPage, editionVars, Pages
<1>4. CASE Retire
  BY <1>4 DEF TypeOK, Retire, Statuses
<1>5. CASE StartPass
  BY <1>5 DEF TypeOK, StartPass, editionVars, Idle, Phases, Budgeted, DuePeriods
<1>6. ASSUME NEW d \in Days, Draft(d) PROVE TypeOK'
  BY <1>6 DEF TypeOK, Draft, Generating, editionVars, Phases
<1>7. ASSUME NEW d \in Days, DraftFails(d) PROVE TypeOK'
  BY <1>7 DEF TypeOK, DraftFails, Generating, SkipsPeriod, editionVars
<1>8. CASE StoreEdition
  BY <1>8 DEF TypeOK, StoreEdition, Idle, Phases, Statuses, Retryable
<1>9. CASE ListPending
  BY <1>9 DEF TypeOK, ListPending, Pending, editionVars, Idle, Phases
<1>10. ASSUME NEW d \in Days, ReadPage(d) PROVE TypeOK'
  <2>1. Judgement(page[d]) \in {"edit", "published", "publication_failed"}
    BY <1>10 DEF TypeOK, Pages, Judgement
  <2> QED
    BY <1>10, <2>1 DEF TypeOK, ReadPage, Publishing, editionVars, Phases, Statuses, Retryable
<1>11. CASE EditPage
  <2>1. page' \in [Days -> Pages]
    BY <1>11 DEF TypeOK, EditPage, Pages
  <2>2. \E o \in {"published", "publication_blocked", "publication_failed"} :
          run' = [run EXCEPT !.pc = "record", !.outcome = o]
    <3>1. CASE EditSucceeds(First(run.todo))
      BY <1>11, <3>1 DEF EditPage
    <3>2. CASE ~EditSucceeds(First(run.todo)) /\ page[First(run.todo)] = "missing"
      BY <1>11, <3>2 DEF EditPage
    <3>3. CASE ~EditSucceeds(First(run.todo)) /\ page[First(run.todo)] # "missing"
      BY <1>11, <3>3 DEF EditPage
    <3> QED
      BY <3>1, <3>2, <3>3
  <2>3. run' \in [pc : Phases, todo : SUBSET Days, tools : 0..MaxTools, outcome : Statuses]
    <3>1. PICK o \in Statuses : run' = [run EXCEPT !.pc = "record", !.outcome = o]
      BY <2>2 DEF Statuses, Retryable
    <3>2. "record" \in Phases
      BY DEF Phases
    <3> QED
      BY <3>1, <3>2 DEF TypeOK
  <2>4. UNCHANGED <<day, captured, editionVars, failures>>
    BY <1>11 DEF EditPage
  <2> QED
    BY <2>1, <2>3, <2>4 DEF TypeOK, editionVars
<1>12. CASE WikiFails
  <2>1. page' \in [Days -> Pages]
    BY <1>12 DEF TypeOK, WikiFails, Pages
  <2>2. run' \in [pc : Phases, todo : SUBSET Days, tools : 0..MaxTools, outcome : Statuses]
    BY <1>12 DEF TypeOK, WikiFails, Phases, Statuses, Retryable
  <2> QED
    BY <1>12, <2>1, <2>2 DEF TypeOK, WikiFails, editionVars
<1>13. CASE Record
  BY <1>13 DEF TypeOK, Record, Idle, Phases
<1>14. CASE EndPass
  BY <1>14 DEF TypeOK, EndPass, editionVars
<1>15. CASE Kill
  BY <1>15 DEF TypeOK, Kill, editionVars
<1>16. CASE UNCHANGED vars
  BY <1>16 DEF TypeOK, vars, editionVars
<1> QED
  BY <1>1, <1>2, <1>3, <1>4, <1>5, <1>6, <1>7, <1>8, <1>9, <1>10, <1>11, <1>12, <1>13,
     <1>14, <1>15, <1>16 DEF Next, Pass

\* For every value of the constants each reachable state is well typed: no pass
\* leaves a status the rest of the program does not know.
THEOREM TypeCorrect == Spec => []TypeOK
<1>1. Init => TypeOK
  BY InitTypes
<1>2. TypeOK /\ [Next]_vars => TypeOK'
  BY StepTypes
<1> QED
  BY <1>1, <1>2, PTL DEF Spec

(***************************************************************************)
(* What a pass read stays true until it acts on it                         *)
(***************************************************************************)
\* Nothing has happened yet.
LEMMA InitUpToDate == Init => PassUpToDate /\ PublishedIsOurs
BY DEF Init, PassUpToDate, EditionsUpToDate, WorkUpToDate, PublishedIsOurs, Idle

\* A page the publisher wrote stays.
LEMMA OursStays ==
    ASSUME TypeOK, [Next]_vars, NEW d \in Days, page[d] = "ours"
    PROVE  page'[d] = "ours"
<1>1. CASE UNCHANGED page
  BY <1>1
<1>2. ASSUME NEW e \in Days, StrangerCreatesPage(e) PROVE page'[d] = "ours"
  BY <1>2 DEF StrangerCreatesPage, TypeOK
<1>3. CASE EditPage
  BY <1>3 DEF EditPage, TypeOK
<1>4. CASE WikiFails
  BY <1>4 DEF WikiFails, TypeOK
<1> QED
  BY <1>1, <1>2, <1>3, <1>4 DEF Next, Pass, vars, NextDay, Capture, Retire, StartPass, Draft,
     DraftFails, StoreEdition, ListPending, ReadPage, Record, EndPass, Kill

\* The stored editions: only StoreEdition, Record and Retire change them.
LEMMA StepEditions ==
    ASSUME TypeOK, PassUpToDate, PublishedIsOurs, [Next]_vars
    PROVE  EditionsUpToDate' /\ PublishedIsOurs'
<1> USE DEF PassUpToDate, EditionsUpToDate, PublishedIsOurs
<1>1. CASE UNCHANGED <<status, published, day>>
  BY <1>1, OursStays
<1>2. CASE NextDay
  BY <1>2, OursStays, Constants DEF NextDay, TypeOK, editionVars
<1>3. CASE Retire
  <2>1. ASSUME NEW d \in Days
        PROVE  /\ status'[d] = status[d] \/ (status[d] = "validated" /\ status'[d] = "out_of_scope")
               /\ published'[d] = published[d] /\ day' = day
    BY <1>3 DEF Retire, OutOfScope, TypeOK
  <2> QED
    BY <2>1, OursStays
<1>4. CASE StoreEdition
  <2>1. First(run.todo) \in run.todo
    BY <1>4, FirstInSet DEF StoreEdition, WorkUpToDate, TypeOK
  <2>2. First(run.todo) \in Days /\ status[First(run.todo)] = "none" /\ First(run.todo) < day
    BY <1>4, <2>1 DEF StoreEdition, WorkUpToDate, TypeOK
  <2>3. status' = [status EXCEPT ![First(run.todo)] = "validated"]
    BY <1>4, <2>2 DEF StoreEdition
  <2> QED
    BY <1>4, <2>2, <2>3, OursStays DEF StoreEdition, TypeOK
<1>5. CASE Record
  <2> DEFINE e == First(run.todo)
  <2>1. e \in run.todo /\ e \in Days
    BY <1>5, FirstInSet DEF Record, WorkUpToDate, TypeOK
  <2>2. status[e] \notin {"none", "published"} /\ e < day /\ published[e] = 0
    BY <1>5, <2>1 DEF Record, WorkUpToDate
  <2>3. run.outcome # "none" /\ (run.outcome = "published" => page[e] = "ours")
    BY <1>5 DEF Record, WorkUpToDate
  <2>4. day \in Nat \ {0}
    BY Constants DEF TypeOK, Days
  <2>5. /\ status' = [status EXCEPT ![e] = run.outcome]
        /\ published' = IF run.outcome = "published"
                        THEN [published EXCEPT ![e] = day] ELSE published
        /\ day' = day /\ page' = page
    BY <1>5 DEF Record
  <2>6. ASSUME NEW d \in Days, d # e
        PROVE  status'[d] = status[d] /\ published'[d] = published[d]
    BY <2>5, <2>6 DEF TypeOK
  <2>7. status'[e] = run.outcome /\ published'[e] = IF run.outcome = "published" THEN day ELSE 0
    BY <2>1, <2>2, <2>5 DEF TypeOK
  <2> HIDE DEF e
  <2> QED
    BY <2>1, <2>2, <2>3, <2>4, <2>5, <2>6, <2>7
<1> QED
  BY <1>1, <1>2, <1>3, <1>4, <1>5 DEF Next, Pass, vars, editionVars, Capture,
     StrangerCreatesPage, StartPass, Draft, DraftFails, ListPending, ReadPage, EditPage,
     WikiFails, EndPass, Kill

\* The pass: what it has read, against the editions and pages of this moment.
LEMMA StepWork ==
    ASSUME TypeOK, PassUpToDate, PublishedIsOurs, [Next]_vars
    PROVE  WorkUpToDate'
<1> USE DEF PassUpToDate, WorkUpToDate
<1>0. run.todo # {} => First(run.todo) \in run.todo /\ run.todo \subseteq Days
  BY FirstInSet DEF TypeOK
<1>1. CASE UNCHANGED <<status, run, day>>
  BY <1>0, <1>1, OursStays DEF TypeOK
<1>2. CASE run' = Idle
  BY <1>2 DEF Idle
<1>3. CASE NextDay
  BY <1>3 DEF NextDay
<1>4. CASE Retire
  <2>1. ASSUME NEW d \in Days
        PROVE  status'[d] = status[d] \/ (status[d] = "validated" /\ status'[d] = "out_of_scope")
    BY <1>4 DEF Retire, OutOfScope, TypeOK
  <2>2. UNCHANGED <<run, day, page>>
    BY <1>4 DEF Retire
  <2> QED
    BY <2>1, <2>2 DEF TypeOK
<1>5. CASE StartPass
  BY <1>5 DEF StartPass, Idle, Budgeted, DuePeriods, Due, Wanted, editionVars
<1>6. ASSUME NEW d \in Days, Draft(d) PROVE WorkUpToDate'
  BY <1>6 DEF Draft, Generating, TypeOK, editionVars
<1>7. ASSUME NEW d \in Days, DraftFails(d) PROVE WorkUpToDate'
  BY <1>7 DEF DraftFails, Generating, SkipsPeriod, TypeOK, editionVars
<1>8. CASE StoreEdition
  <2> DEFINE e == First(run.todo)
  <2>1. ASSUME NEW d \in run.todo \ {e} PROVE status'[d] = status[d]
    BY <1>8, <2>1 DEF StoreEdition, TypeOK
  <2>2. run'.pc = "generate" /\ run'.todo = run.todo \ {e} /\ day' = day
    BY <1>8 DEF StoreEdition, Idle
  <2> HIDE DEF e
  <2> QED
    BY <1>8, <2>1, <2>2 DEF StoreEdition
<1>9. CASE ListPending
  BY <1>9 DEF ListPending, Idle, Pending, Retryable, editionVars
<1>10. ASSUME NEW d \in Days, ReadPage(d) PROVE WorkUpToDate'
  <2>1. status[d] # "published"
    BY <1>0, <1>10 DEF ReadPage, Publishing
  <2>2. Judgement(page[d]) \in {"edit", "published", "publication_failed"}
    BY DEF TypeOK, Pages, Judgement
  <2>3. Judgement(page[d]) = "published" => page[d] = "ours"
    BY DEF TypeOK, Pages, Judgement
  <2> QED
    BY <1>10, <2>1, <2>2, <2>3 DEF ReadPage, Publishing, TypeOK, editionVars
<1>11. CASE EditPage
  <2> DEFINE e == First(run.todo)
  <2>1. e \in Days /\ run.todo # {}
    BY <1>0, <1>11 DEF EditPage
  <2>2. /\ run'.pc = "record" /\ run'.todo = run.todo
        /\ run'.outcome \in {"published", "publication_blocked", "publication_failed"}
        /\ run'.outcome = "published" => page'[e] = "ours"
        /\ UNCHANGED <<status, day>>
    <3>1. CASE EditSucceeds(e)
      BY <1>11, <2>1, <3>1 DEF EditPage, TypeOK, editionVars
    <3>2. CASE ~EditSucceeds(e)
      BY <1>11, <2>1, <3>2 DEF EditPage, TypeOK, editionVars
    <3> QED
      BY <3>1, <3>2
  <2>3. First(run'.todo) = e
    BY <2>2
  <2>4. \A d \in run'.todo : status'[d] \notin {"none", "published"}
    BY <1>11, <2>2 DEF EditPage
  <2> HIDE DEF e
  <2> QED
    BY <2>1, <2>2, <2>3, <2>4
<1>12. CASE WikiFails
  BY <1>12 DEF WikiFails, TypeOK, editionVars
<1>13. CASE Record
  <2> DEFINE e == First(run.todo)
  <2>1. ASSUME NEW d \in run.todo \ {e} PROVE status'[d] = status[d]
    BY <1>13, <2>1 DEF Record, TypeOK
  <2>2. run'.pc = "publish" /\ run'.todo = run.todo \ {e}
    BY <1>13 DEF Record, Idle
  <2> HIDE DEF e
  <2> QED
    BY <1>13, <2>1, <2>2 DEF Record
<1> QED
  BY <1>1, <1>2, <1>3, <1>4, <1>5, <1>6, <1>7, <1>8, <1>9, <1>10, <1>11, <1>12, <1>13
  DEF Next, Pass, vars, editionVars, Capture, StrangerCreatesPage, EndPass, Kill

\* A pass never works on what is no longer so: no edition is stored twice, none is
\* published twice, and a publication is recorded only over the publisher's own page.
THEOREM PassCorrect == Spec => []PassSound
<1>1. Init => PassSound
  BY InitUpToDate DEF PassSound
<1>2. TypeOK /\ PassSound /\ [Next]_vars => PassSound'
  BY StepEditions, StepWork DEF PassUpToDate, PassSound
<1> QED
  BY <1>1, <1>2, TypeCorrect, PTL DEF Spec

(***************************************************************************)
(* What the wiki and the outbox see                                        *)
(***************************************************************************)
\* Another user's page is never overwritten, whenever it appears.
THEOREM ForeignKept == Spec => ForeignPageKept
<1>1. TypeOK /\ [Next]_vars => [\A d \in Days : page[d] = "foreign" => page'[d] = "foreign"]_vars
  <2> SUFFICES ASSUME TypeOK, Next, NEW d \in Days, page[d] = "foreign"
               PROVE  page'[d] = "foreign"
    OBVIOUS
  <2>1. CASE UNCHANGED page
    BY <2>1
  <2>2. ASSUME NEW e \in Days, StrangerCreatesPage(e) PROVE page'[d] = "foreign"
    BY <2>2 DEF StrangerCreatesPage, TypeOK
  <2>3. CASE EditPage
    BY <2>3 DEF EditPage, EditSucceeds, TypeOK
  <2>4. CASE WikiFails
    BY <2>4 DEF WikiFails, EditSucceeds, TypeOK
  <2> QED
    BY <2>1, <2>2, <2>3, <2>4 DEF Next, Pass, NextDay, Capture, Retire, StartPass, Draft,
       DraftFails, StoreEdition, ListPending, ReadPage, Record, EndPass, Kill
<1> QED
  BY <1>1, TypeCorrect, PTL DEF Spec, ForeignPageKept

\* Every step of the publisher is a step of DigestEditions or a stutter.
LEMMA StepKeepsPromise ==
    ASSUME TypeOK, PassUpToDate, [Next]_vars
    PROVE  [Editions!EditionsNext]_Editions!editionVars
<1> USE DEF Editions!EditionsNext, Editions!editionVars
<1>1. CASE UNCHANGED <<day, published>>
  BY <1>1
<1>2. CASE NextDay
  BY <1>2 DEF NextDay, editionVars, Editions!NextDay
<1>3. CASE Record /\ run.outcome = "published"
  <2> DEFINE e == First(run.todo)
  <2>1. e \in run.todo /\ e \in Days
    BY <1>3, FirstInSet DEF Record, PassUpToDate, WorkUpToDate, TypeOK
  <2>2. e < day /\ published[e] = 0
    BY <1>3, <2>1 DEF Record, PassUpToDate, EditionsUpToDate, WorkUpToDate
  <2>3. published' = [published EXCEPT ![e] = day] /\ day' = day
    BY <1>3 DEF Record
  <2>4. Editions!PublishEdition(e)
    BY <2>2, <2>3 DEF Editions!PublishEdition, Editions!Unpublished
  <2> QED
    BY <2>1, <2>4 DEF Editions!Days, Days
<1>4. CASE Record /\ run.outcome # "published"
  BY <1>4 DEF Record
<1> QED
  BY <1>1, <1>2, <1>3, <1>4 DEF Next, Pass, vars, editionVars, Capture, StrangerCreatesPage,
     Retire, StartPass, Draft, DraftFails, StoreEdition, ListPending, ReadPage, EditPage,
     WikiFails, EndPass, Kill

\* The publisher implements the promise the delivery outbox is built on: an edition
\* of a closed period is published at most once, and its day never changes.
THEOREM PromiseKept == Spec => KeepsPromise
<1>1. Init => Editions!EditionsInit
  BY DEF Init, Editions!EditionsInit, Editions!Days, Days, Editions!Unpublished
<1>2. TypeOK /\ PassSound /\ [Next]_vars => [Editions!EditionsNext]_Editions!editionVars
  BY StepKeepsPromise DEF PassSound
<1> QED
  BY <1>1, <1>2, TypeCorrect, PassCorrect, PTL DEF Spec, KeepsPromise, Editions!EditionsSpec

----------------------------------------------------------------------------
(***************************************************************************)
(* Identity: induction, and the greatest of a set                          *)
(***************************************************************************)
\* What holds at 0, and one further whenever it holds, holds at m.
LEMMA Induction ==
    ASSUME NEW m \in Nat, NEW G, 0 \in G, \A k \in Nat : k < m /\ k \in G => k + 1 \in G
    PROVE  m \in G
<1> DEFINE Bad == {k \in 0 .. m : k \notin G}
<1>1. CASE Bad = {}
  BY <1>1
<1>2. CASE Bad # {}
  <2>1. PICK k \in Bad : \A j \in Bad : k <= j
    <3> Bad \in SUBSET Nat
      OBVIOUS
    <3> HIDE DEF Bad
    <3> QED
      BY <1>2, LeastExists
  <2>2. k # 0 /\ k - 1 \in Nat /\ k - 1 < m /\ k - 1 \notin Bad
    BY <2>1
  <2> QED
    BY <2>1, <2>2
<1> QED
  BY <1>1, <1>2

\* A finite set of numbers has a greatest element.
LEMMA MaxIn ==
    ASSUME NEW S \in SUBSET Nat, S # {}, IsFiniteSet(S)
    PROVE  Max(S) \in S /\ \A n \in S : n <= Max(S)
<1> DEFINE Above(x) == {s \in S : s > x}
<1>1. \A x \in S : IsFiniteSet(Above(x)) /\ Cardinality(Above(x)) \in Nat
  BY FS_Subset, FS_CardinalityType
<1>2. PICK x \in S : \A y \in S : Cardinality(Above(x)) <= Cardinality(Above(y))
  <2> DEFINE Counts == {Cardinality(Above(y)) : y \in S}
  <2>1. Counts \in SUBSET Nat /\ Counts # {}
    BY <1>1
  <2>2. PICK c \in Counts : \A d \in Counts : c <= d
    <3> HIDE DEF Counts
    <3> QED
      BY <2>1, LeastExists
  <2> QED
    BY <2>2
<1>3. ASSUME NEW y \in S, y > x PROVE FALSE
  <2>1. Above(y) \subseteq Above(x) /\ y \in Above(x) /\ y \notin Above(y)
    <3>1. x \in Nat /\ y \in Nat /\ S \subseteq Nat
      BY <1>2
    <3>2. \A s \in S : s > y => s > x
      BY <3>1, <1>3
    <3>3. ~(y > y)
      BY <3>1
    <3> QED
      BY <3>2, <3>3, <1>3, Zenon
  <2>2. Cardinality(Above(y)) < Cardinality(Above(x))
    <3> HIDE DEF Above
    <3> QED
      BY <2>1, <1>1, FS_Subset
  <2> QED
    BY <1>2, <2>2, <1>1, <1>3
<1>4. \A n \in S : x >= n
  BY <1>3
<1> QED
  BY <1>4 DEF Max


----------------------------------------------------------------------------
(* The graph. *)

AGraph(g) ==
    /\ g = [ids |-> g.ids, keys |-> g.keys, binds |-> g.binds]
    /\ DOMAIN g.ids = Namespaces /\ g.ids = [ns \in Namespaces |-> g.ids[ns]]
    /\ DOMAIN g.binds = Accounts /\ g.binds = [a \in Accounts |-> g.binds[a]]
    /\ \E K : g.keys \in Seq(K)

\* Every row of an immutable id is current, and names somebody.
FirmRows(rows) == \A v \in DOMAIN rows : rows[v].current = TRUE /\ rows[v].person # Nobody
Firm(g) == \A ns \in Stable : FirmRows(g.ids[ns])

\* Whoever is verified is somebody, and owns the id.
WellBound(g) ==
    \A a \in Accounts : g.binds[a].status = "verified" =>
        /\ g.binds[a].person # Nobody
        /\ Owner(g.ids, NamespaceOf(a[1]), a[2]) = g.binds[a].person

Sound(g) == AGraph(g) /\ Firm(g) /\ WellBound(g)

\* No owner of an immutable id is lost.
Grows(g, h) ==
    \A ns \in Stable : \A v : Owner(g.ids, ns, v) # Nobody => Owner(h.ids, ns, v) = Owner(g.ids, ns, v)

\* The immutable ids in who that belonged to nobody are now p's; nothing else changed.
Gives(g, h, who, p) ==
    \A ns \in Stable : \A v :
        Owner(h.ids, ns, v) = IF ns \in DOMAIN who /\ v = who[ns] /\ Owner(g.ids, ns, v) = Nobody
                              THEN p ELSE Owner(g.ids, ns, v)

LEMMA Apart == Stable \cap Handles = {} /\ Stable \subseteq Namespaces /\ Stable \subseteq DOMAIN Rank
BY DEF Stable, Handles, Namespaces, Rank

LEMMA UpsertedFirm ==
    ASSUME NEW rows, NEW ns \in Stable, NEW p, NEW v, NEW authoritative, FirmRows(rows), p # Nobody
    PROVE  LET new == Upserted(rows, ns, p, v, authoritative) IN
           /\ FirmRows(new)
           /\ \A w : w # v => (w \in DOMAIN new <=> w \in DOMAIN rows)
           /\ \A w \in DOMAIN rows : w \in DOMAIN new /\ new[w].person = rows[w].person
           /\ v \in DOMAIN new /\ (v \notin DOMAIN rows => new[v].person = p)
BY DEF FirmRows, Upserted

\* What an upsert makes of the owners of one namespace.
OwnerIn(rows, v) == IF v \in DOMAIN rows /\ rows[v].current THEN rows[v].person ELSE Nobody

LEMMA UpsertedOwner ==
    ASSUME NEW rows, NEW ns \in Stable, NEW p, NEW v, NEW authoritative, FirmRows(rows), p # Nobody
    PROVE  LET new == Upserted(rows, ns, p, v, authoritative) IN
           /\ FirmRows(new)
           /\ \A w : OwnerIn(new, w) = IF w = v /\ OwnerIn(rows, w) = Nobody THEN p ELSE OwnerIn(rows, w)
<1> DEFINE new == Upserted(rows, ns, p, v, authoritative)
<1>1. /\ FirmRows(new)
      /\ \A w : w # v => (w \in DOMAIN new <=> w \in DOMAIN rows)
      /\ \A w \in DOMAIN rows : w \in DOMAIN new /\ new[w].person = rows[w].person
      /\ v \in DOMAIN new /\ (v \notin DOMAIN rows => new[v].person = p)
  BY UpsertedFirm
<1> HIDE DEF new
<1>2. \A w : OwnerIn(rows, w) = IF w \in DOMAIN rows THEN rows[w].person ELSE Nobody
  BY DEF OwnerIn, FirmRows
<1>3. \A w : OwnerIn(new, w) = IF w \in DOMAIN new THEN new[w].person ELSE Nobody
  BY <1>1 DEF OwnerIn, FirmRows
<1>4. \A w \in DOMAIN rows : rows[w].person # Nobody
  BY DEF FirmRows
<1>5. ASSUME NEW w
      PROVE  OwnerIn(new, w) = IF w = v /\ OwnerIn(rows, w) = Nobody THEN p ELSE OwnerIn(rows, w)
  <2>1. CASE w \in DOMAIN rows
    BY <2>1, <1>1, <1>2, <1>3, <1>4
  <2>2. CASE w \notin DOMAIN rows /\ w = v
    BY <2>2, <1>1, <1>2, <1>3
  <2>3. CASE w \notin DOMAIN rows /\ w # v
    BY <2>3, <1>1, <1>2, <1>3
  <2> QED
    BY <2>1, <2>2, <2>3
<1> QED
  BY <1>1, <1>5 DEF new

LEMMA EnsuredAsGives ==
    ASSUME NEW g, NEW who, NEW p, NEW stable, AGraph(g), Firm(g), p # Nobody
    PROVE  LET h == EnsuredAs(g, who, p, stable) IN
           AGraph(h) /\ Firm(h) /\ h.binds = g.binds /\ Gives(g, h, who, p)
<1> DEFINE h == EnsuredAs(g, who, p, stable)
           keys == IF p > Len(g.keys) THEN Append(g.keys, KeyOf(who))
                   ELSE IF stable THEN [g.keys EXCEPT ![p] = KeyOf(who)]
                   ELSE g.keys
           ids == [ns \in Namespaces |->
                         IF ns \notin DOMAIN who THEN g.ids[ns]
                         ELSE Upserted(IF stable /\ ns \in Handles
                                       THEN Superseded(g.ids[ns], p, who[ns]) ELSE g.ids[ns],
                                       ns, p, who[ns], stable)]
<1>1. h = [ids |-> ids, keys |-> keys, binds |-> g.binds]
  <2>1. h = [g EXCEPT !.keys = keys, !.ids = ids]
    BY Zenon DEF EnsuredAs
  <2> HIDE DEF keys, ids, h
  <2> QED
    BY <2>1 DEF AGraph
<1>2. \E K : keys \in Seq(K)
  <2>1. PICK K : g.keys \in Seq(K)
    BY DEF AGraph
  <2> DEFINE k == KeyOf(who)
             L == K \cup {k}
  <2> HIDE DEF k
  <2>2. g.keys \in Seq(L)
    BY <2>1
  <2>3. Append(g.keys, k) \in Seq(L) /\ [g.keys EXCEPT ![p] = k] \in Seq(L)
    <3> DEFINE m == [i \in 1 .. Len(g.keys) |-> IF i = p THEN k ELSE g.keys[i]]
    <3>1. Append(g.keys, k) \in Seq(L)
      BY <2>2
    <3>2. m \in Seq(L)
      BY <2>2
    <3>3. m = [g.keys EXCEPT ![p] = k]
      BY <2>2
    <3> QED
      BY <3>1, <3>2, <3>3
  <2>4. keys \in Seq(L)
    BY <2>2, <2>3 DEF k
  <2> HIDE DEF L, keys
  <2> QED
    BY <2>4
<1> HIDE DEF keys
<1>3. ASSUME NEW ns \in Stable
      PROVE  ids[ns] = IF ns \in DOMAIN who THEN Upserted(g.ids[ns], ns, p, who[ns], stable) ELSE g.ids[ns]
  <2>1. ns \notin Handles /\ ns \in Namespaces
    BY Apart
  <2> QED
    BY <2>1
<1>4. ASSUME NEW ns \in Stable
      PROVE  /\ FirmRows(ids[ns])
             /\ \A v : OwnerIn(ids[ns], v) =
                         IF ns \in DOMAIN who /\ v = who[ns] /\ OwnerIn(g.ids[ns], v) = Nobody
                         THEN p ELSE OwnerIn(g.ids[ns], v)
  <2>1. FirmRows(g.ids[ns])
    BY DEF Firm
  <2> HIDE DEF ids
  <2>2. CASE ns \in DOMAIN who
    BY <2>1, <2>2, <1>3, UpsertedOwner
  <2>3. CASE ns \notin DOMAIN who
    BY <2>1, <2>3, <1>3
  <2> QED
    BY <2>2, <2>3
<1>5. DOMAIN ids = Namespaces /\ ids = [ns \in Namespaces |-> ids[ns]]
  OBVIOUS
<1> HIDE DEF ids
<1>6. AGraph(h)
  BY <1>1, <1>2, <1>5 DEF AGraph
<1>7. Firm(h)
  BY <1>1, <1>4 DEF Firm
<1>8. Gives(g, h, who, p)
  <2>1. \A ns \in Stable : \A v : Owner(h.ids, ns, v) = OwnerIn(ids[ns], v) /\ Owner(g.ids, ns, v) = OwnerIn(g.ids[ns], v)
    BY <1>1 DEF Owner, OwnerIn
  <2> QED
    BY <2>1, <1>4 DEF Gives
<1> QED
  BY <1>1, <1>6, <1>7, <1>8

LEMMA StrongestIn ==
    ASSUME NEW S \in SUBSET DOMAIN Rank, S # {}
    PROVE  Strongest(S) \in S
<1> DEFINE Ranks == {Rank[n] : n \in S}
<1>1. Ranks \in SUBSET Nat /\ Ranks # {}
  BY DEF Rank
<1>2. PICK r \in Ranks : \A q \in Ranks : r <= q
  <2> HIDE DEF Ranks
  <2> QED
    BY <1>1, LeastExists
<1>3. \E n \in S : \A m \in S : Rank[n] <= Rank[m]
  BY <1>2
<1> QED
  BY <1>3, Zenon DEF Strongest

LEMMA ChosenSomebody ==
    ASSUME NEW g, NEW who, AGraph(g)
    PROVE  Chosen(g, who) # Nobody
<1>1. CASE Owning(g, who) # {}
  <2>1. Strongest(Owning(g, who)) \in Owning(g, who)
    <3> Owning(g, who) \in SUBSET DOMAIN Rank
      BY DEF Owning
    <3> QED
      BY <1>1, StrongestIn
  <2>2. Chosen(g, who) = Owner(g.ids, Strongest(Owning(g, who)), who[Strongest(Owning(g, who))])
    BY <1>1, Zenon DEF Chosen
  <2> QED
    BY <2>1, <2>2, Zenon DEF Owning
<1>2. PICK K : g.keys \in Seq(K)
  BY DEF AGraph
<1>3. Len(g.keys) \in Nat /\ DOMAIN g.keys = 1 .. Len(g.keys)
  BY <1>2
<1>4. CASE Owning(g, who) = {} /\ Keyed(g, who) # {}
  <2>1. Chosen(g, who) \in Keyed(g, who)
    BY <1>4, Zenon DEF Chosen
  <2> QED
    BY <2>1, <1>3 DEF Keyed, Nobody
<1>5. CASE Owning(g, who) = {} /\ Keyed(g, who) = {}
  <2>1. Chosen(g, who) = Len(g.keys) + 1
    BY <1>5, Zenon DEF Chosen
  <2> QED
    BY <2>1, <1>3 DEF Nobody
<1> QED
  BY <1>1, <1>4, <1>5

\* An immutable id that is given and belongs to somebody decides, if no other one given
\* belongs to somebody else.
LEMMA ChosenOwner ==
    ASSUME NEW g, NEW who, NEW ns \in Stable, ns \in DOMAIN who, NEW p, p # Nobody,
           Owner(g.ids, ns, who[ns]) = p,
           \A m \in Stable : m \in DOMAIN who => Owner(g.ids, m, who[m]) \in {Nobody, p}
    PROVE  Chosen(g, who) = p
<1>1. Considered(who) = Stable
  BY DEF Considered
<1>2. ns \in Owning(g, who)
  BY <1>1, Apart DEF Owning
<1>3. Strongest(Owning(g, who)) \in Owning(g, who)
  <2> Owning(g, who) \in SUBSET DOMAIN Rank
    BY DEF Owning
  <2> QED
    BY <1>2, StrongestIn
<1>4. \A m \in Owning(g, who) : Owner(g.ids, m, who[m]) = p
  BY <1>1 DEF Owning
<1>5. Chosen(g, who) = Owner(g.ids, Strongest(Owning(g, who)), who[Strongest(Owning(g, who))])
  BY <1>2, Zenon DEF Chosen
<1> QED
  BY <1>3, <1>4, <1>5

LEMMA GivesGrows ==
    ASSUME NEW g, NEW h, NEW who, NEW p, Gives(g, h, who, p)
    PROVE  Grows(g, h)
BY DEF Gives, Grows

LEMMA OwnedKinds ==
    ASSUME NEW a \in Accounts
    PROVE  NamespaceOf(a[1]) \in Stable
BY DEF Accounts, NamespaceOf, Stable

LEMMA EnsuredSound ==
    ASSUME NEW g, NEW who, Sound(g)
    PROVE  LET h == Ensured(g, who) IN
           /\ Sound(h) /\ h.binds = g.binds
           /\ Chosen(g, who) # Nobody /\ Gives(g, h, who, Chosen(g, who)) /\ Grows(g, h)
<1> DEFINE h == Ensured(g, who)
           p == Chosen(g, who)
<1>1. p # Nobody
  BY ChosenSomebody DEF Sound
<1>2. h = EnsuredAs(g, who, p, DOMAIN who \cap Stable # {})
  BY DEF Ensured
<1> HIDE DEF p, h
<1>3. AGraph(h) /\ Firm(h) /\ h.binds = g.binds /\ Gives(g, h, who, p)
  BY <1>1, <1>2, EnsuredAsGives DEF Sound
<1>4. Grows(g, h)
  BY <1>3, GivesGrows
<1>5. WellBound(h)
  <2> QED
    BY <1>3, <1>4, OwnedKinds DEF WellBound, Sound, Grows
<1> QED
  BY <1>1, <1>3, <1>4, <1>5 DEF Sound, h, p

LEMMA AttachedGives ==
    ASSUME NEW g, NEW p, NEW u, NEW row, AGraph(g), Firm(g), p # Nobody
    PROVE  LET h == Attached(g, p, u, row) IN
           AGraph(h) /\ Firm(h) /\ h.binds = g.binds /\ Gives(g, h, [uidNumber |-> u], p)
<1> DEFINE h == Attached(g, p, u, row)
           ids == [g.ids EXCEPT
                     !["uidNumber"]     = Upserted(@, "uidNumber", p, u, FALSE),
                     !["developerName"] = Upserted(Superseded(@, p, row.developer), "developerName", p, row.developer, TRUE),
                     !["shellName"]     = Upserted(Superseded(@, p, row.shell), "shellName", p, row.shell, TRUE)]
<1>1. h = [ids |-> ids, keys |-> g.keys, binds |-> g.binds]
  <2>1. h = [g EXCEPT !.ids = ids]
    BY Zenon DEF Attached
  <2> HIDE DEF ids, h
  <2> QED
    BY <2>1 DEF AGraph
<1>2. DOMAIN ids = Namespaces /\ ids = [ns \in Namespaces |-> ids[ns]]
  BY DEF AGraph
<1>3. ids["uidNumber"] = Upserted(g.ids["uidNumber"], "uidNumber", p, u, FALSE)
  BY DEF AGraph, Namespaces, Stable
<1>4. \A ns \in Stable : ns # "uidNumber" => ids[ns] = g.ids[ns]
  BY DEF AGraph, Namespaces, Stable
<1> HIDE DEF ids
<1>5. ASSUME NEW ns \in Stable
      PROVE  /\ FirmRows(ids[ns])
             /\ \A v : OwnerIn(ids[ns], v) =
                         IF ns = "uidNumber" /\ v = u /\ OwnerIn(g.ids[ns], v) = Nobody
                         THEN p ELSE OwnerIn(g.ids[ns], v)
  <2>1. FirmRows(g.ids[ns])
    BY DEF Firm
  <2>2. CASE ns = "uidNumber"
    <3>1. ids[ns] = Upserted(g.ids[ns], ns, p, u, FALSE)
      BY <2>2, <1>3
    <3>2. PICK off : off = FALSE
      OBVIOUS
    <3>3. ids[ns] = Upserted(g.ids[ns], ns, p, u, off)
      BY <3>1, <3>2
    <3>4. /\ FirmRows(ids[ns])
          /\ \A v : OwnerIn(ids[ns], v) = IF v = u /\ OwnerIn(g.ids[ns], v) = Nobody
                                         THEN p ELSE OwnerIn(g.ids[ns], v)
      BY <2>1, <3>3, UpsertedOwner
    <3> QED
      BY <2>2, <3>4
  <2>3. CASE ns # "uidNumber"
    BY <2>1, <2>3, <1>4
  <2> QED
    BY <2>2, <2>3
<1>6. AGraph(h)
  BY <1>1, <1>2 DEF AGraph
<1>7. Firm(h)
  BY <1>1, <1>5 DEF Firm
<1>8. Gives(g, h, [uidNumber |-> u], p)
  <2>1. \A ns \in Stable : \A v : Owner(h.ids, ns, v) = OwnerIn(ids[ns], v) /\ Owner(g.ids, ns, v) = OwnerIn(g.ids[ns], v)
    BY <1>1 DEF Owner, OwnerIn
  <2>2. DOMAIN [uidNumber |-> u] = {"uidNumber"} /\ [uidNumber |-> u]["uidNumber"] = u
    OBVIOUS
  <2> QED
    BY <2>1, <2>2, <1>5 DEF Gives
<1> QED
  BY <1>1, <1>6, <1>7, <1>8

\* A binding is recorded: as verified only for whoever owns the id.
LEMMA BindingSound ==
    ASSUME NEW g, NEW a \in Accounts, NEW p, NEW how, NEW proof, Sound(g),
           how = "verified" => p # Nobody /\ Owner(g.ids, NamespaceOf(a[1]), a[2]) = p
    PROVE  LET h == SetBinding(g, a, p, how, proof) IN
           /\ Sound(h) /\ h.ids = g.ids
           /\ VerifiedPerson(h, a) = IF how = "verified" THEN p ELSE Nobody
           /\ \A b \in Accounts : b # a => VerifiedPerson(h, b) = VerifiedPerson(g, b)
<1> DEFINE h == SetBinding(g, a, p, how, proof)
           row == Binding(p, how, proof)
           binds == [g.binds EXCEPT ![a] = row]
<1>1. /\ h = [ids |-> g.ids, keys |-> g.keys, binds |-> binds]
      /\ binds = [b \in Accounts |-> IF b = a THEN row ELSE g.binds[b]]
  <2> HIDE DEF row
  <2>1. AGraph(g)
    BY DEF Sound
  <2>2. h = [g EXCEPT !.binds = binds]
    BY DEF SetBinding, row
  <2>3. binds = [b \in Accounts |-> IF b = a THEN row ELSE g.binds[b]]
    BY <2>1 DEF AGraph
  <2> HIDE DEF h, binds
  <2> QED
    BY <2>1, <2>2, <2>3 DEF AGraph
<1> HIDE DEF binds
<1> HIDE DEF h
<1>2. AGraph(h)
  BY <1>1 DEF AGraph, Sound
<1>3. Firm(h)
  BY <1>1 DEF Firm, Sound
<1>4. /\ VerifiedPerson(h, a) = IF how = "verified" THEN p ELSE Nobody
      /\ \A b \in Accounts : b # a => VerifiedPerson(h, b) = VerifiedPerson(g, b)
  BY <1>1 DEF VerifiedPerson, Binding
<1>5. WellBound(h)
  BY <1>1 DEF WellBound, Sound, Binding
<1> QED
  BY <1>1, <1>2, <1>3, <1>4, <1>5 DEF Sound, h

----------------------------------------------------------------------------
(* What a transaction makes of the graph, step by step. *)

\* PublishedBinds, of one account and any graph; its Wikimedia id belongs to somebody.
Settles(g, u) ==
    developers[u].global # None =>
        LET owner == Owner(g.ids, "globalId", developers[u].global) IN
        /\ owner # Nobody
        /\ \/ VerifiedPerson(g, <<"toolforge", u>>) = owner
           \/ Disagree(Owner(g.ids, "uidNumber", u), owner)

Develops(g, h) ==
    /\ Sound(h) /\ Grows(g, h)
    /\ \A u \in DOMAIN developers : Settles(g, u) => Settles(h, u)

LEMMA DevelopsReflexive ==
    ASSUME NEW g, Sound(g)
    PROVE  Develops(g, g)
BY DEF Develops, Grows

LEMMA DevelopsTransitive ==
    ASSUME NEW f, NEW g, NEW h, Develops(f, g), Develops(g, h)
    PROVE  Develops(f, h)
<1>1. Grows(f, h)
  BY DEF Develops, Grows
<1> QED
  BY <1>1 DEF Develops

LEMMA DevelopsBy ==
    ASSUME DOMAIN developers \subseteq UidNumbers,
           NEW g, NEW h, Sound(g), Sound(h), Grows(g, h),
           \A u \in DOMAIN developers :
              \/ VerifiedPerson(h, <<"toolforge", u>>) # Nobody
              \/ VerifiedPerson(h, <<"toolforge", u>>) = VerifiedPerson(g, <<"toolforge", u>>)
              \/ Settles(h, u)
    PROVE  Develops(g, h)
<1>1. ASSUME NEW u \in DOMAIN developers, Settles(g, u) PROVE Settles(h, u)
  <2> DEFINE a == <<"toolforge", u>>
             global == developers[u].global
             owner == Owner(g.ids, "globalId", global)
  <2>1. a \in Accounts /\ NamespaceOf(a[1]) = "uidNumber" /\ a[2] = u
    BY DEF Accounts, NamespaceOf
  <2>2. SUFFICES ASSUME global # None,
                        VerifiedPerson(h, a) = VerifiedPerson(g, a) \/ VerifiedPerson(h, a) # Nobody
                 PROVE  Settles(h, u)
    BY DEF Settles
  <2>3. /\ owner # Nobody
        /\ VerifiedPerson(g, a) = owner \/ Disagree(Owner(g.ids, "uidNumber", u), owner)
    BY <1>1, <2>2 DEF Settles
  <2>4. Owner(h.ids, "globalId", global) = owner
    BY <2>3 DEF Grows, Stable
  <2>5. CASE Disagree(Owner(g.ids, "uidNumber", u), owner)
    <3>1. Owner(h.ids, "uidNumber", u) = Owner(g.ids, "uidNumber", u)
      BY <2>5 DEF Grows, Stable, Disagree
    <3> QED
      BY <2>3, <2>4, <2>5, <3>1 DEF Settles
  <2>6. CASE VerifiedPerson(g, a) = owner
    <3>1. Owner(g.ids, "uidNumber", u) = owner
      BY <2>1, <2>3, <2>6 DEF Sound, WellBound, VerifiedPerson
    <3>2. Owner(h.ids, "uidNumber", u) = owner
      BY <2>3, <3>1 DEF Grows, Stable
    <3>3. VerifiedPerson(h, a) = owner
      BY <2>1, <2>2, <2>3, <2>6, <3>2 DEF Sound, WellBound, VerifiedPerson
    <3> QED
      BY <2>3, <2>4, <3>3 DEF Settles
  <2> QED
    BY <2>3, <2>5, <2>6
<1> QED
  BY <1>1 DEF Develops

LEMMA EnsuredDevelops ==
    ASSUME DOMAIN developers \subseteq UidNumbers, NEW g, NEW who, Sound(g)
    PROVE  Develops(g, Ensured(g, who))
<1>1. /\ Sound(Ensured(g, who)) /\ Grows(g, Ensured(g, who))
      /\ Ensured(g, who).binds = g.binds
  BY EnsuredSound
<1> QED
  BY <1>1, DevelopsBy DEF VerifiedPerson

LEMMA OfficialDevelops ==
    ASSUME DOMAIN developers \subseteq UidNumbers, NEW g, NEW t, NEW row, Sound(g)
    PROVE  Develops(g, EnsuredOfficial(g, t, row))
BY EnsuredDevelops, DevelopsReflexive DEF EnsuredOfficial

\* A Toolforge account is attached to a person and verified for him.
LEMMA BoundDevelops ==
    ASSUME DOMAIN developers \subseteq UidNumbers,
           NEW g, NEW u \in UidNumbers, NEW row, NEW p, NEW proof, Sound(g), p # Nobody,
           Accepted(g, u, p)
    PROVE  LET h == Bound(g, u, row, p, proof) IN
           /\ Develops(g, h) /\ Gives(g, h, [uidNumber |-> u], p)
           /\ Owner(h.ids, "uidNumber", u) = p
           /\ VerifiedPerson(h, <<"toolforge", u>>) = p
<1> DEFINE f == Attached(g, p, u, row)
           h == Bound(g, u, row, p, proof)
           a == <<"toolforge", u>>
           who == [uidNumber |-> u]
<1>1. a \in Accounts /\ NamespaceOf(a[1]) = "uidNumber" /\ a[2] = u
  BY DEF Accounts, NamespaceOf
<1>2. AGraph(f) /\ Firm(f) /\ f.binds = g.binds /\ Gives(g, f, who, p)
  BY AttachedGives DEF Sound
<1>3. h = SetBinding(f, a, p, "verified", proof)
  BY DEF Bound
<1>4. DOMAIN who = {"uidNumber"} /\ who["uidNumber"] = u
  OBVIOUS
<1> HIDE DEF f, h, who
<1>5. Grows(g, f)
  BY <1>2, GivesGrows
<1>6. Sound(f)
  BY <1>2, <1>5, OwnedKinds DEF WellBound, Sound, Grows
<1>7. Owner(f.ids, "uidNumber", u) = p
  BY <1>2, <1>4 DEF Gives, Accepted, Bindable, Stable
<1>8. /\ Sound(h) /\ h.ids = f.ids /\ VerifiedPerson(h, a) = p
      /\ \A b \in Accounts : b # a => VerifiedPerson(h, b) = VerifiedPerson(f, b)
  BY <1>1, <1>3, <1>6, <1>7, BindingSound
<1>9. Gives(g, h, who, p) /\ Grows(g, h) /\ Owner(h.ids, "uidNumber", u) = p
  BY <1>2, <1>5, <1>7, <1>8 DEF Gives, Grows
<1>10. Develops(g, h)
  <2>1. ASSUME NEW w \in DOMAIN developers
        PROVE  \/ VerifiedPerson(h, <<"toolforge", w>>) # Nobody
               \/ VerifiedPerson(h, <<"toolforge", w>>) = VerifiedPerson(g, <<"toolforge", w>>)
    <3>1. CASE w = u
      BY <3>1, <1>8
    <3>2. CASE w # u
      <4>1. <<"toolforge", w>> \in Accounts /\ <<"toolforge", w>> # a
        BY <3>2 DEF Accounts
      <4>2. VerifiedPerson(f, <<"toolforge", w>>) = VerifiedPerson(g, <<"toolforge", w>>)
        BY <1>2 DEF VerifiedPerson
      <4> QED
        BY <4>1, <4>2, <1>8
    <3> QED
      BY <3>1, <3>2
  <2> QED
    BY <2>1, <1>8, <1>9, DevelopsBy
<1> QED
  BY <1>8, <1>9, <1>10 DEF h, who

----------------------------------------------------------------------------
(* The pass and its index. *)

\* The index says who owns an immutable id, although it is kept beside the tables.
Follows(S) ==
    \A ns \in Stable : \A v : Known(S, ns, v) = Owner(S.g.ids, ns, v)
Tracks(S) ==
    /\ S = [g |-> S.g, known |-> S.known] /\ DOMAIN S.known = Namespaces
    /\ Sound(S.g) /\ Follows(S)

LEMMA IndexTracks ==
    ASSUME NEW g, Sound(g)
    PROVE  Tracks([g |-> g, known |-> Index(g)])
<1> DEFINE S == [g |-> g, known |-> Index(g)]
<1>1. S.g = g /\ S.known = Index(g) /\ DOMAIN Index(g) = Namespaces
  BY DEF Index
<1>2. ASSUME NEW ns \in Stable, NEW v PROVE Known(S, ns, v) = Owner(S.g.ids, ns, v)
  <2>1. ns \in Namespaces
    BY Apart
  <2>2. Index(g)[ns] = [w \in {x \in DOMAIN g.ids[ns] : g.ids[ns][x].current} |-> g.ids[ns][w].person]
    BY <2>1 DEF Index
  <2> QED
    BY <1>1, <2>2 DEF Known, Owner
<1> QED
  BY <1>1, <1>2 DEF Tracks, Follows

LEMMA LearnKnows ==
    ASSUME NEW known, DOMAIN known = Namespaces, NEW who, NEW p, NEW g
    PROVE  LET N == [g |-> g, known |-> Learn(known, who, p)] IN
           /\ N.g = g /\ N = [g |-> N.g, known |-> N.known] /\ DOMAIN N.known = Namespaces
           /\ \A ns \in Stable : \A v :
                Known(N, ns, v) = IF ns \in DOMAIN who /\ v = who[ns] THEN p
                                  ELSE IF v \in DOMAIN known[ns] THEN known[ns][v] ELSE Nobody
<1> DEFINE N == [g |-> g, known |-> Learn(known, who, p)]
<1>1. N.g = g /\ N.known = Learn(known, who, p) /\ DOMAIN N.known = Namespaces
  BY DEF Learn
<1>2. ASSUME NEW ns \in Stable, NEW v
      PROVE  Known(N, ns, v) = IF ns \in DOMAIN who /\ v = who[ns] THEN p
                               ELSE IF v \in DOMAIN known[ns] THEN known[ns][v] ELSE Nobody
  <2>1. N.known[ns] = IF ns \in DOMAIN who THEN With(known[ns], who[ns], p) ELSE known[ns]
    BY <1>1, Apart DEF Learn
  <2> HIDE DEF N
  <2>2. CASE ns \in DOMAIN who
    BY <2>1, <2>2 DEF Known, With
  <2>3. CASE ns \notin DOMAIN who
    BY <2>1, <2>3 DEF Known
  <2> QED
    BY <2>2, <2>3
<1> QED
  BY <1>1, <1>2

\* The index stays true if it learns exactly what the graph was given.
LEMMA LearnTracks ==
    ASSUME NEW S, Tracks(S), NEW h, Sound(h), NEW who, NEW p,
           \A ns \in Stable : \A v :
              Owner(h.ids, ns, v) = IF ns \in DOMAIN who /\ v = who[ns] THEN p ELSE Owner(S.g.ids, ns, v)
    PROVE  LET N == [g |-> h, known |-> Learn(S.known, who, p)] IN Tracks(N) /\ N.g = h
<1> DEFINE N == [g |-> h, known |-> Learn(S.known, who, p)]
<1>1. DOMAIN S.known = Namespaces
  BY DEF Tracks
<1>2. /\ N.g = h /\ N = [g |-> N.g, known |-> N.known] /\ DOMAIN N.known = Namespaces
      /\ \A ns \in Stable : \A v :
           Known(N, ns, v) = IF ns \in DOMAIN who /\ v = who[ns] THEN p
                             ELSE IF v \in DOMAIN S.known[ns] THEN S.known[ns][v] ELSE Nobody
  BY <1>1, LearnKnows
<1> HIDE DEF N
<1>3. \A ns \in Stable : \A v :
        (IF v \in DOMAIN S.known[ns] THEN S.known[ns][v] ELSE Nobody) = Owner(S.g.ids, ns, v)
  BY DEF Tracks, Follows, Known
<1>4. Follows(N)
  BY <1>2, <1>3 DEF Follows
<1> QED
  BY <1>2, <1>4 DEF Tracks, N

\* A pass replaces the graph only.
LEMMA GraphReplaced ==
    ASSUME NEW S, Tracks(S), NEW h, Sound(h), h.ids = S.g.ids
    PROVE  LET N == [S EXCEPT !.g = h] IN Tracks(N) /\ N.g = h
<1> DEFINE N == [S EXCEPT !.g = h]
<1>1. N = [g |-> h, known |-> S.known]
  BY DEF Tracks
<1> HIDE DEF N
<1>2. N.g = h /\ N.known = S.known /\ N = [g |-> N.g, known |-> N.known]
  BY <1>1
<1>3. Follows(N)
  BY <1>2 DEF Tracks, Follows, Known
<1> QED
  BY <1>2, <1>3 DEF Tracks, N

LEMMA OfficialSays ==
    ASSUME NEW t \in ToolhubIds, NEW row
    PROVE  LET who == Official(t, row) IN
           /\ "toolhubId" \in DOMAIN who /\ who["toolhubId"] = t
           /\ "globalId" \in DOMAIN who <=> row.global # None
           /\ "globalId" \in DOMAIN who => who["globalId"] = row.global
           /\ "uidNumber" \notin DOMAIN who
BY IdentityAssumption DEF Official, Given

\* The account and the Wikimedia account it shows are verified for the owner of both.
LEMMA VerifiedForTracks ==
    ASSUME DOMAIN developers \subseteq UidNumbers,
           NEW S, Tracks(S), NEW p, NEW t, NEW row, p # Nobody,
           Known(S, "toolhubId", t) = p,
           row.global = None \/ Known(S, "globalId", row.global) = p
    PROVE  LET N == VerifiedFor(S, p, t, row) IN Tracks(N) /\ Develops(S.g, N.g)
<1> DEFINE binds == [a \in Accounts |->
             IF a = <<"toolhub", t>> THEN Binding(p, "verified", "toolhubAccount")
             ELSE IF a = <<"wikimedia", row.global>> THEN Binding(p, "verified", "toolhubGlobal")
             ELSE S.g.binds[a]]
           h == [ids |-> S.g.ids, keys |-> S.g.keys, binds |-> binds]
           N == VerifiedFor(S, p, t, row)
<1>1. N = [S EXCEPT !.g = h]
  <2>1. N = [S EXCEPT !.g.binds = binds]
    BY Zenon DEF VerifiedFor
  <2> HIDE DEF binds, N
  <2>2. [S.g EXCEPT !.binds = binds] = h
    BY DEF Tracks, Sound, AGraph
  <2> QED
    BY <2>1, <2>2
<1>2. DOMAIN binds = Accounts /\ binds = [a \in Accounts |-> binds[a]]
  OBVIOUS
<1>3. Owner(S.g.ids, "toolhubId", t) = p /\ (row.global # None => Owner(S.g.ids, "globalId", row.global) = p)
  BY DEF Tracks, Follows, Stable
<1>4. WellBound(h)
  <2> SUFFICES ASSUME NEW a \in Accounts, binds[a].status = "verified"
               PROVE  binds[a].person # Nobody /\ Owner(S.g.ids, NamespaceOf(a[1]), a[2]) = binds[a].person
    BY DEF WellBound
  <2>1. CASE a = <<"toolhub", t>>
    BY <2>1, <1>3 DEF Binding, NamespaceOf
  <2>2. CASE a = <<"wikimedia", row.global>>
    <3>1. row.global \in GlobalIds
      BY <2>2 DEF Accounts
    <3> QED
      BY <2>2, <3>1, <1>3, IdentityAssumption DEF Binding, NamespaceOf
  <2>3. CASE a # <<"toolhub", t>> /\ a # <<"wikimedia", row.global>>
    BY <2>3 DEF Tracks, Sound, WellBound
  <2> QED
    BY <2>1, <2>2, <2>3
<1>5. \A u \in UidNumbers : VerifiedPerson(h, <<"toolforge", u>>) = VerifiedPerson(S.g, <<"toolforge", u>>)
  BY DEF VerifiedPerson, Accounts
<1> HIDE DEF binds
<1>6. Sound(h) /\ h.ids = S.g.ids
  BY <1>2, <1>4 DEF Sound, AGraph, Firm, Tracks
<1> HIDE DEF h, N
<1>7. Tracks(N) /\ N.g = h
  BY <1>1, <1>6, GraphReplaced
<1>8. Develops(S.g, h)
  <2>1. Sound(S.g) /\ Grows(S.g, h)
    BY <1>6 DEF Tracks, Grows
  <2> QED
    BY <2>1, <1>5, <1>6, DevelopsBy
<1> QED
  BY <1>7, <1>8 DEF N

\* What the identifiers of an account become, and that the index learns it.
LEMMA OwnedTracks ==
    ASSUME DOMAIN developers \subseteq UidNumbers,
           NEW S, Tracks(S), NEW t \in ToolhubIds, NEW row,
           ~Disagree(Known(S, "toolhubId", t), KnownGlobal(S, row))
    PROVE  LET N == Owned(S, t, row) IN
           /\ Tracks(N) /\ Develops(S.g, N.g)
           /\ Known(N, "toolhubId", t) # Nobody
           /\ row.global = None \/ Known(N, "globalId", row.global) = Known(N, "toolhubId", t)
<1> DEFINE N == Owned(S, t, row)
           who == Official(t, row)
           p == Chosen(S.g, who)
           h == Ensured(S.g, who)
<1>1. CASE Complete(S, t, row)
  <2>1. N = S
    BY <1>1 DEF Owned
  <2>2. Develops(S.g, S.g)
    BY DevelopsReflexive DEF Tracks
  <2> QED
    BY <2>1, <2>2, <1>1 DEF Complete, KnownGlobal
<1>2. CASE ~Complete(S, t, row)
  <2>1. Sound(S.g)
    BY DEF Tracks
  <2>2. /\ Known(S, "toolhubId", t) = Owner(S.g.ids, "toolhubId", t)
        /\ KnownGlobal(S, row) = GlobalOwner(S.g.ids, row)
    BY DEF Tracks, Follows, Stable, KnownGlobal, GlobalOwner
  <2>3. N = [g |-> h, known |-> Learn(S.known, who, Owner(h.ids, "toolhubId", t))]
    BY <1>2, <2>2 DEF Owned, Learned, EnsuredOfficial
  <2>4. /\ Sound(h) /\ p # Nobody /\ Gives(S.g, h, who, p)
    BY <2>1, EnsuredSound
  <2>5. /\ "toolhubId" \in DOMAIN who /\ who["toolhubId"] = t
        /\ "globalId" \in DOMAIN who <=> row.global # None
        /\ "globalId" \in DOMAIN who => who["globalId"] = row.global
        /\ "uidNumber" \notin DOMAIN who
    BY OfficialSays
  <2>6. Develops(S.g, h)
    BY <2>1, EnsuredDevelops
  <2>7. \A ns \in Stable : ns \in DOMAIN who => Owner(S.g.ids, ns, who[ns]) \in {Nobody, p}
    <3>1. SUFFICES ASSUME NEW ns \in Stable, ns \in DOMAIN who, Owner(S.g.ids, ns, who[ns]) # Nobody
                   PROVE  p = Owner(S.g.ids, ns, who[ns])
      OBVIOUS
    <3>2. \A m \in Stable : m \in DOMAIN who =>
             Owner(S.g.ids, m, who[m]) \in {Nobody, Owner(S.g.ids, ns, who[ns])}
      <4> HIDE DEF who
      <4> QED
        BY <2>2, <2>5, <3>1 DEF Stable, Disagree, GlobalOwner
    <3> HIDE DEF who
    <3> QED
      BY <3>1, <3>2, ChosenOwner
  <2> HIDE DEF who, p, h, N
  <2>8. \A ns \in Stable : \A v :
          Owner(h.ids, ns, v) = IF ns \in DOMAIN who /\ v = who[ns] THEN p ELSE Owner(S.g.ids, ns, v)
    BY <2>4, <2>7 DEF Gives
  <2>9. Owner(h.ids, "toolhubId", t) = p /\ (row.global # None => Owner(h.ids, "globalId", row.global) = p)
    BY <2>5, <2>8 DEF Stable
  <2>10. Tracks(N) /\ N.g = h
    BY <2>3, <2>4, <2>8, <2>9, LearnTracks
  <2>11. /\ Known(N, "toolhubId", t) = p
         /\ row.global # None => Known(N, "globalId", row.global) = p
    BY <2>9, <2>10 DEF Tracks, Follows, Stable
  <2> QED
    BY <2>4, <2>6, <2>10, <2>11 DEF N
<1> QED
  BY <1>1, <1>2

LEMMA BindToolhubTracks ==
    ASSUME DOMAIN developers \subseteq UidNumbers,
           NEW S, Tracks(S), NEW t \in ToolhubIds
    PROVE  LET N == BindToolhub(S, t) IN Tracks(N) /\ Develops(S.g, N.g)
<1> DEFINE row == accounts[t]
           a == <<"toolhub", t>>
           M == Owned(S, t, row)
           p == Known(M, "toolhubId", t)
           N == BindToolhub(S, t)
<1>1. CASE Disagree(Known(S, "toolhubId", t), KnownGlobal(S, row))
  <2> DEFINE h == SetBinding(S.g, a, Nobody, "conflict", "toolhubGlobal")
  <2>1. N = [S EXCEPT !.g = h]
    BY <1>1 DEF BindToolhub
  <2>2. a \in Accounts /\ Sound(S.g)
    BY DEF Accounts, Tracks
  <2>3. Sound(h) /\ h.ids = S.g.ids /\ \A b \in Accounts : b # a => VerifiedPerson(h, b) = VerifiedPerson(S.g, b)
    BY <2>2, BindingSound
  <2> HIDE DEF h, N
  <2>4. Tracks(N) /\ N.g = h
    BY <2>1, <2>3, GraphReplaced
  <2>5. \A u \in UidNumbers : VerifiedPerson(h, <<"toolforge", u>>) = VerifiedPerson(S.g, <<"toolforge", u>>)
    BY <2>3 DEF Accounts
  <2>6. Develops(S.g, h)
    BY <2>2, <2>3, <2>5, DevelopsBy DEF Grows
  <2> QED
    BY <2>4, <2>6 DEF N
<1>2. CASE ~Disagree(Known(S, "toolhubId", t), KnownGlobal(S, row))
  <2>1. N = VerifiedFor(M, p, t, row)
    BY <1>2 DEF BindToolhub, OwnedBy
  <2> HIDE DEF row, N
  <2>2. /\ Tracks(M) /\ Develops(S.g, M.g) /\ p # Nobody
        /\ row.global = None \/ Known(M, "globalId", row.global) = p
    BY <1>2, OwnedTracks
  <2> HIDE DEF M
  <2>3. Tracks(N) /\ Develops(M.g, N.g)
    BY <2>1, <2>2, VerifiedForTracks
  <2>4. Develops(S.g, N.g)
    BY <2>2, <2>3, DevelopsTransitive
  <2> QED
    BY <2>3, <2>4 DEF N
<1> QED
  BY <1>1, <1>2

LEMMA JoinedTracks ==
    ASSUME DOMAIN developers \subseteq UidNumbers,
           NEW S, Tracks(S), NEW u \in UidNumbers, NEW row, NEW p, NEW proof, p # Nobody,
           Accepted(S.g, u, p)
    PROVE  LET N == Joined(S, u, row, p, proof) IN
           Tracks(N) /\ Develops(S.g, N.g) /\ VerifiedPerson(N.g, <<"toolforge", u>>) = p
<1> DEFINE h == Bound(S.g, u, row, p, proof)
           who == Bears(u, row)
           N == Joined(S, u, row, p, proof)
<1>1. /\ Develops(S.g, h) /\ Gives(S.g, h, [uidNumber |-> u], p)
      /\ Owner(h.ids, "uidNumber", u) = p
      /\ VerifiedPerson(h, <<"toolforge", u>>) = p
  BY BoundDevelops DEF Tracks
<1>2. N = [g |-> h, known |-> Learn(S.known, who, p)]
  BY DEF Joined
<1>3. "uidNumber" \in DOMAIN who /\ who["uidNumber"] = u /\ \A ns \in Stable : ns \in DOMAIN who => ns = "uidNumber"
  BY DEF Bears, Stable
<1>4. DOMAIN [uidNumber |-> u] = {"uidNumber"} /\ [uidNumber |-> u]["uidNumber"] = u
  OBVIOUS
<1> HIDE DEF h, who, N
<1>5. \A ns \in Stable : \A v :
        Owner(h.ids, ns, v) = IF ns \in DOMAIN who /\ v = who[ns] THEN p ELSE Owner(S.g.ids, ns, v)
  BY <1>1, <1>3, <1>4 DEF Gives
<1>6. Tracks(N) /\ N.g = h
  BY <1>1, <1>2, <1>5, LearnTracks DEF Develops
<1> QED
  BY <1>1, <1>6 DEF N

\* The person LDAP's Wikimedia id stands for: found, or made.
LEMMA PersonSulTracks ==
    ASSUME DOMAIN developers \subseteq UidNumbers,
           NEW S, Tracks(S), NEW row, row.global # None
    PROVE  LET N == PersonSul(S, row) IN
           Tracks(N) /\ Develops(S.g, N.g) /\ KnownGlobal(N, row) # Nobody
<1> DEFINE who == WhoSul(row)
           p == Chosen(S.g, who)
           h == Ensured(S.g, who)
           learnt == [globalId |-> row.global]
           N == PersonSul(S, row)
<1>1. CASE KnownGlobal(S, row) # Nobody
  <2>1. N = S
    BY <1>1 DEF PersonSul
  <2>2. Develops(S.g, S.g)
    BY DevelopsReflexive DEF Tracks
  <2> QED
    BY <1>1, <2>1, <2>2
<1>2. CASE KnownGlobal(S, row) = Nobody
  <2>1. N = [g |-> h, known |-> Learn(S.known, learnt, p)]
    BY <1>2 DEF PersonSul
  <2>2. Sound(h) /\ p # Nobody /\ Gives(S.g, h, who, p) /\ Develops(S.g, h)
    BY EnsuredSound, EnsuredDevelops DEF Tracks
  <2>3. Owner(S.g.ids, "globalId", row.global) = Nobody
    BY <1>2 DEF Tracks, Follows, KnownGlobal, Stable
  <2>4. "globalId" \in DOMAIN who /\ who["globalId"] = row.global /\ \A ns \in Stable : ns \in DOMAIN who => ns = "globalId"
    BY DEF WhoSul, Stable
  <2>5. DOMAIN learnt = {"globalId"} /\ learnt["globalId"] = row.global
    OBVIOUS
  <2> HIDE DEF who, p, h, learnt, N
  <2>6. \A ns \in Stable : \A v :
          Owner(h.ids, ns, v) = IF ns \in DOMAIN learnt /\ v = learnt[ns] THEN p ELSE Owner(S.g.ids, ns, v)
    BY <2>2, <2>3, <2>4, <2>5 DEF Gives
  <2>7. Tracks(N) /\ N.g = h
    BY <2>1, <2>2, <2>6, LearnTracks
  <2>8. KnownGlobal(N, row) = p
    BY <2>5, <2>6, <2>7 DEF KnownGlobal, Tracks, Follows, Stable
  <2> QED
    BY <2>2, <2>7, <2>8 DEF N
<1> QED
  BY <1>1, <1>2

\* LDAP names the Wikimedia account: afterwards the account is settled.
LEMMA BySulTracks ==
    ASSUME DOMAIN developers \subseteq UidNumbers,
           NEW S, Tracks(S), NEW u \in DOMAIN developers, developers[u].global # None
    PROVE  LET N == BySul(S, u, developers[u]) IN
           Tracks(N) /\ Develops(S.g, N.g) /\ Settles(N.g, u)
<1> DEFINE row == developers[u]
           M == PersonSul(S, row)
           p == KnownGlobal(M, row)
           a == <<"toolforge", u>>
           N == BySul(S, u, row)
<1>1. N = BoundSul(M, u, row, p)
  BY DEF BySul, WithSul
<1>2. Tracks(M) /\ Develops(S.g, M.g) /\ p # Nobody
  BY PersonSulTracks
<1>3. a \in Accounts /\ NamespaceOf(a[1]) = "uidNumber" /\ a[2] = u
  BY DEF Accounts, NamespaceOf
<1>4. p = Owner(M.g.ids, "globalId", row.global)
  <2>1. p = Known(M, "globalId", row.global)
    BY DEF KnownGlobal
  <2> HIDE DEF M, p
  <2> QED
    BY <1>2, <2>1 DEF Tracks, Follows, Stable
<1> SUFFICES Tracks(N) /\ Develops(M.g, N.g) /\ Settles(N.g, u)
  BY <1>2, DevelopsTransitive
<1> HIDE DEF M, p, N
<1>5. ASSUME Tracks(N), Develops(M.g, N.g), VerifiedPerson(N.g, a) = p
      PROVE  Settles(N.g, u)
  <2>1. Owner(N.g.ids, "globalId", row.global) = p
    BY <1>2, <1>4, <1>5 DEF Develops, Grows, Stable
  <2> QED
    BY <1>2, <1>5, <2>1 DEF Settles
<1>6. CASE Settled(M, u, row, p)
  <2>1. N = M /\ VerifiedPerson(M.g, a) = p
    BY <1>1, <1>6 DEF BoundSul, Settled
  <2>2. Develops(M.g, M.g)
    BY <1>2, DevelopsReflexive DEF Tracks
  <2> QED
    BY <1>2, <1>5, <2>1, <2>2
<1>7. CASE ~Settled(M, u, row, p) /\ Accepted(M.g, u, p)
  <2>1. N = Joined(M, u, row, p, "sul")
    BY <1>1, <1>7 DEF BoundSul
  <2>2. Tracks(N) /\ Develops(M.g, N.g) /\ VerifiedPerson(N.g, a) = p
    BY <1>2, <1>7, <2>1, JoinedTracks
  <2> QED
    BY <1>5, <2>2
<1>8. CASE ~Settled(M, u, row, p) /\ ~Accepted(M.g, u, p)
  <2> DEFINE h == SetBinding(M.g, a, Nobody, "conflict", "sul")
  <2>1. N = [M EXCEPT !.g = h]
    BY <1>1, <1>8 DEF BoundSul
  <2>2. /\ Sound(h) /\ h.ids = M.g.ids
        /\ \A b \in Accounts : b # a => VerifiedPerson(h, b) = VerifiedPerson(M.g, b)
    BY <1>2, <1>3, BindingSound DEF Tracks
  <2> HIDE DEF h
  <2>3. Tracks(N) /\ N.g = h
    BY <1>2, <2>1, <2>2, GraphReplaced
  <2>4. Disagree(Owner(M.g.ids, "uidNumber", u), p)
    BY <1>2, <1>3, <1>8 DEF Accepted, Bindable, Contradicts, Disagree, Tracks, Sound, WellBound
  <2>5. Settles(h, u)
    BY <1>2, <1>4, <2>2, <2>4 DEF Settles
  <2>6. \A w \in DOMAIN developers :
          w = u \/ VerifiedPerson(h, <<"toolforge", w>>) = VerifiedPerson(M.g, <<"toolforge", w>>)
    BY <2>2 DEF Accounts
  <2>7. Develops(M.g, h)
    BY <1>2, <2>2, <2>5, <2>6, DevelopsBy DEF Tracks, Grows
  <2> QED
    BY <2>3, <2>5, <2>7
<1> QED
  BY <1>6, <1>7, <1>8

LEMMA ToNamesakeTracks ==
    ASSUME DOMAIN developers \subseteq UidNumbers,
           NEW S, Tracks(S), NEW u \in UidNumbers, NEW row, NEW t, NEW p
    PROVE  LET N == ToNamesake(S, u, row, t, p) IN Tracks(N) /\ Develops(S.g, N.g)
<1> DEFINE a == <<"toolforge", u>>
           h == SetBinding(S.g, a, p, "candidate", "handle")
           N == ToNamesake(S, u, row, t, p)
<1>1. \/ N = S
      \/ p # Nobody /\ Accepted(S.g, u, p) /\ N = Joined(S, u, row, p, "sharedTool")
      \/ S.g.binds[a].status # "verified" /\ N = [S EXCEPT !.g = h]
  BY DEF ToNamesake
<1> SUFFICES Tracks(N) /\ Develops(S.g, N.g)
  OBVIOUS
<1> HIDE DEF N, h
<1>2. CASE N = S
  BY <1>2, DevelopsReflexive DEF Tracks
<1>3. CASE p # Nobody /\ Accepted(S.g, u, p) /\ N = Joined(S, u, row, p, "sharedTool")
  BY <1>3, JoinedTracks
<1>4. CASE S.g.binds[a].status # "verified" /\ N = [S EXCEPT !.g = h]
  <2>1. a \in Accounts /\ Sound(S.g)
    BY DEF Accounts, Tracks
  <2>2. /\ Sound(h) /\ h.ids = S.g.ids /\ VerifiedPerson(h, a) = Nobody
        /\ \A b \in Accounts : b # a => VerifiedPerson(h, b) = VerifiedPerson(S.g, b)
    BY <2>1, BindingSound DEF h
  <2>3. Tracks(N) /\ N.g = h
    BY <1>4, <2>2, GraphReplaced
  <2>4. VerifiedPerson(S.g, a) = Nobody
    BY <1>4 DEF VerifiedPerson
  <2>5. \A w \in DOMAIN developers :
          VerifiedPerson(h, <<"toolforge", w>>) = VerifiedPerson(S.g, <<"toolforge", w>>)
    BY <2>2, <2>4 DEF Accounts
  <2>6. Develops(S.g, h)
    BY <2>1, <2>2, <2>5, DevelopsBy DEF Grows
  <2> QED
    BY <2>3, <2>6
<1> QED
  BY <1>1, <1>2, <1>3, <1>4

LEMMA BindToolforgeTracks ==
    ASSUME DOMAIN developers \subseteq UidNumbers,
           NEW S, Tracks(S), NEW u \in DOMAIN developers
    PROVE  LET N == BindToolforge(S, u) IN
           Tracks(N) /\ Develops(S.g, N.g) /\ Settles(N.g, u)
<1> DEFINE row == developers[u]
           N == BindToolforge(S, u)
<1>1. CASE row.global # None
  BY <1>1, BySulTracks DEF BindToolforge
<1>2. CASE row.global = None
  <2>1. Settles(N.g, u)
    BY <1>2 DEF Settles
  <2>2. N = ByHandle(S, u, row)
    BY <1>2 DEF BindToolforge
  <2>3. N = S \/ \E t, p : N = ToNamesake(S, u, row, t, p)
    BY <2>2 DEF ByHandle
  <2> HIDE DEF N
  <2>4. Tracks(N) /\ Develops(S.g, N.g)
    BY <2>3, ToNamesakeTracks, DevelopsReflexive DEF Tracks
  <2> QED
    BY <2>1, <2>4 DEF N
<1> QED
  BY <1>1, <1>2

----------------------------------------------------------------------------
(* The transactions repeat such a step for every account, user or name.  Each loop is a *)
(* fold; that its recursion has a solution, and that a property of every step carries   *)
(* over to the whole, is induction on the number of elements.                           *)

\* What holds of the empty set, and of a set if of all that lack one of its elements.
LEMMA SetInduction ==
    ASSUME NEW ids, IsFiniteSet(ids), NEW G, {} \in G,
           \A s \in SUBSET ids : s # {} /\ (\A i \in s : s \ {i} \in G) => s \in G
    PROVE  ids \in G
<1> DEFINE Good == {k \in Nat : \A s \in SUBSET ids : Cardinality(s) <= k => s \in G}
<1>1. \A s \in SUBSET ids : IsFiniteSet(s) /\ Cardinality(s) \in Nat
  BY FS_Subset, FS_CardinalityType
<1>2. 0 \in Good
  <2> SUFFICES ASSUME NEW s \in SUBSET ids, Cardinality(s) <= 0 PROVE s \in G
    OBVIOUS
  <2>1. Cardinality(s) = 0
    BY <1>1
  <2>2. s = {}
    BY <1>1, <2>1, FS_EmptySet
  <2> QED
    BY <2>2
<1>3. ASSUME NEW k \in Nat, k \in Good PROVE k + 1 \in Good
  <2> SUFFICES ASSUME NEW s \in SUBSET ids, Cardinality(s) <= k + 1, s # {} PROVE s \in G
    OBVIOUS
  <2>1. ASSUME NEW i \in s PROVE s \ {i} \in G
    <3>1. s \ {i} \in SUBSET ids /\ Cardinality(s \ {i}) = Cardinality(s) - 1
      BY <1>1, FS_RemoveElement
    <3>2. Cardinality(s \ {i}) <= k
      BY <1>1, <3>1
    <3> QED
      BY <1>3, <3>1, <3>2
  <2> QED
    BY <2>1
<1>4. Cardinality(ids) \in Good
  <2> HIDE DEF Good
  <2> QED
    BY <1>1, <1>2, <1>3, Induction
<1> QED
  BY <1>1, <1>4

\* The steps that are repeated.
Do(kind, x, i) ==
    CASE kind = "row"       -> EnsuredRow(x, i)
      [] kind = "toolhub"   -> BindToolhub(x, i)
      [] kind = "toolforge" -> BindToolforge(x, i)
      [] kind = "user"      -> EnsuredUser(x, i)
      [] kind = "holder"    -> EnsuredHolder(x, i)
      [] kind = "page"      -> OnPage(x, i)


\* f solves the recursion over the sets in D, taking c[s] last.
Solves(f, D, kind, x, c) ==
    f = [s \in D |-> IF s = {} THEN x ELSE Do(kind, f[s \ {c[s]}], c[s])]

LEMMA SolvesBy ==
    ASSUME NEW f, NEW D, NEW kind, NEW x, NEW c, f = [s \in D |-> f[s]],
           \A s \in D : f[s] = IF s = {} THEN x ELSE Do(kind, f[s \ {c[s]}], c[s])
    PROVE  Solves(f, D, kind, x, c)
<1> DEFINE R == [s \in D |-> IF s = {} THEN x ELSE Do(kind, f[s \ {c[s]}], c[s])]
<1>1. R = [s \in D |-> R[s]] /\ \A s \in D : R[s] = f[s]
  OBVIOUS
<1> HIDE DEF R
<1>2. f = R
  BY <1>1
<1> QED
  BY <1>2 DEF R, Solves

LEMMA SolvesGives ==
    ASSUME NEW f, NEW D, NEW kind, NEW x, NEW c, Solves(f, D, kind, x, c)
    PROVE  /\ f = [s \in D |-> f[s]]
           /\ \A s \in D : f[s] = IF s = {} THEN x ELSE Do(kind, f[s \ {c[s]}], c[s])
BY DEF Solves

\* The recursion of a fold has a solution, whatever is repeated and in whatever order.
LEMMA Runs ==
    ASSUME NEW kind, NEW x, NEW ids, IsFiniteSet(ids), NEW c,
           \A s \in SUBSET ids : s # {} => c[s] \in s
    PROVE  \E f : Solves(f, SUBSET ids, kind, x, c)
<1> DEFINE Within(k) == {s \in SUBSET ids : Cardinality(s) <= k}
           G == {k \in Nat : \E f : Solves(f, Within(k), kind, x, c)}
<1>1. \A s \in SUBSET ids : IsFiniteSet(s) /\ Cardinality(s) \in Nat /\ Cardinality(s) <= Cardinality(ids)
  BY FS_Subset, FS_CardinalityType
<1>2. \A s \in SUBSET ids : s # {} => c[s] \in s /\ Cardinality(s \ {c[s]}) = Cardinality(s) - 1
  BY <1>1, FS_RemoveElement
<1>3. 0 \in G
  <2>1. Within(0) = {{}}
    BY <1>1, FS_EmptySet
  <2>2. Solves([s \in {{}} |-> x], {{}}, kind, x, c)
    <3> DEFINE f == [s \in {{}} |-> x]
    <3>1. f = [s \in {{}} |-> f[s]] /\ f[{}] = x
      OBVIOUS
    <3> HIDE DEF f
    <3> QED
      BY <3>1, SolvesBy DEF f
  <2> QED
    BY <2>1, <2>2
<1>4. ASSUME NEW k \in Nat, k \in G PROVE k + 1 \in G
  <2>1. PICK f : Solves(f, Within(k), kind, x, c)
    BY <1>4
  <2> DEFINE h == [s \in Within(k + 1) |->
                     IF s \in Within(k) THEN f[s] ELSE Do(kind, f[s \ {c[s]}], c[s])]
  <2>2. ASSUME NEW s \in Within(k + 1), s # {} PROVE s \ {c[s]} \in Within(k)
    <3>1. s \in SUBSET ids /\ Cardinality(s) <= k + 1
      OBVIOUS
    <3>2. s \ {c[s]} \in SUBSET ids
      BY <3>1
    <3>3. Cardinality(s \ {c[s]}) = Cardinality(s) - 1
      BY <3>1, <1>2, <2>2
    <3>4. Cardinality(s \ {c[s]}) <= k
      BY <3>1, <3>3, <1>1
    <3> QED
      BY <3>2, <3>4
  <2>3. \A s \in Within(k) : s \in Within(k + 1)
    BY <1>1
  <2>4. {} \in Within(k)
    BY FS_EmptySet
  <2> HIDE DEF Within
  <2>5. \A s \in Within(k) : f[s] = IF s = {} THEN x ELSE Do(kind, f[s \ {c[s]}], c[s])
    BY <2>1, SolvesGives
  <2>6. \A s \in Within(k + 1) : h[s] = IF s = {} THEN x ELSE Do(kind, h[s \ {c[s]}], c[s])
    BY <2>2, <2>3, <2>4, <2>5
  <2>7. h = [s \in Within(k + 1) |-> h[s]]
    OBVIOUS
  <2> HIDE DEF h
  <2>8. Solves(h, Within(k + 1), kind, x, c)
    BY <2>6, <2>7, SolvesBy
  <2> QED
    BY <2>8
<1>5. Cardinality(ids) \in G
  <2> HIDE DEF G
  <2> QED
    BY <1>1, <1>3, <1>4, Induction
<1>6. Within(Cardinality(ids)) = SUBSET ids
  BY <1>1
<1> HIDE DEF Within
<1>7. PICK f : Solves(f, Within(Cardinality(ids)), kind, x, c)
  BY <1>5
<1> QED
  BY <1>6, <1>7

\* f says what the repeated step makes of x for each set of ids, the greatest last.
Repeats(f, ids, kind, x) ==
    /\ f = [s \in SUBSET ids |-> f[s]] /\ f[{}] = x
    /\ \A s \in SUBSET ids : s # {} => Max(s) \in s /\ f[s] = Do(kind, f[s \ {Max(s)}], Max(s))

LEMMA RunsInOrder ==
    ASSUME NEW kind, NEW x, NEW ids \in SUBSET Nat, IsFiniteSet(ids)
    PROVE  \E f : Repeats(f, ids, kind, x)
<1>1. \A s \in SUBSET ids : s # {} => Max(s) \in s
  BY MaxIn, FS_Subset
<1> DEFINE c == [s \in SUBSET ids |-> Max(s)]
<1>2. \A s \in SUBSET ids : c[s] = Max(s)
  OBVIOUS
<1> HIDE DEF c
<1>3. PICK f : Solves(f, SUBSET ids, kind, x, c)
  BY <1>1, <1>2, Runs
<1>4. /\ f = [s \in SUBSET ids |-> f[s]]
      /\ \A s \in SUBSET ids : f[s] = IF s = {} THEN x ELSE Do(kind, f[s \ {c[s]}], c[s])
  BY <1>3, SolvesGives
<1>5. Repeats(f, ids, kind, x)
  BY <1>1, <1>2, <1>4 DEF Repeats
<1> QED
  BY <1>5

\* The loop over ids makes whole of x: f says what it had made when only some were left out.
Unfolds(f, ids, kind, x, whole) ==
    /\ f[{}] = x /\ whole = f[ids]
    /\ \A s \in SUBSET ids : s # {} => \E i \in s : f[s] = Do(kind, f[s \ {i}], i)

\* The people behind the rows of a page.
LEMMA RowsRun ==
    ASSUME NEW g, NEW ids \in SUBSET Nat, IsFiniteSet(ids)
    PROVE  \E f : Unfolds(f, ids, "row", g, EnsuredRows(ids, g))
<1> DEFINE Is(f) == f = [s \in SUBSET ids |-> IF s = {} THEN g ELSE EnsuredRow(f[s \ {Max(s)}], Max(s))]
           F == CHOOSE f : Is(f)
<1>1. PICK f : Repeats(f, ids, "row", g)
  BY RunsInOrder
<1>2. /\ f = [s \in SUBSET ids |-> f[s]] /\ f[{}] = g
      /\ \A s \in SUBSET ids : s # {} => Max(s) \in s /\ f[s] = EnsuredRow(f[s \ {Max(s)}], Max(s))
  BY <1>1 DEF Do, Repeats
<1>3. Is(f)
  <2> DEFINE R == [s \in SUBSET ids |-> IF s = {} THEN g ELSE EnsuredRow(f[s \ {Max(s)}], Max(s))]
  <2>1. R = [s \in SUBSET ids |-> R[s]] /\ \A s \in SUBSET ids : R[s] = f[s]
    BY <1>2
  <2> HIDE DEF R
  <2>2. f = R
    BY <1>2, <2>1
  <2> QED
    BY <2>2 DEF R
<1>4. Is(F)
  <2> HIDE DEF Is
  <2> QED
    BY <1>3, Zenon
<1>5. EnsuredRows(ids, g) = F[ids]
  BY Zenon DEF EnsuredRows, ForEach, MapThenFoldSet
<1> HIDE DEF F
<1>6. F[{}] = g /\ \A s \in SUBSET ids : s # {} => \E i \in s : F[s] = EnsuredRow(F[s \ {i}], i)
  BY <1>2, <1>4
<1>7. Unfolds(F, ids, "row", g, EnsuredRows(ids, g))
  BY <1>5, <1>6 DEF Unfolds, Do
<1> QED
  BY <1>7

\* The Toolhub accounts of a synchronization.
LEMMA ToolhubRuns ==
    ASSUME NEW S, DOMAIN accounts \subseteq Nat, IsFiniteSet(DOMAIN accounts)
    PROVE  \E f : Unfolds(f, DOMAIN accounts, "toolhub", S, BoundToolhub(S))
<1> DEFINE Is(f) == f = [s \in SUBSET (DOMAIN accounts) |-> IF s = {} THEN S ELSE BindToolhub(f[s \ {Max(s)}], Max(s))]
           F == CHOOSE f : Is(f)
<1>1. PICK f : Repeats(f, (DOMAIN accounts), "toolhub", S)
  BY RunsInOrder
<1>2. /\ f = [s \in SUBSET (DOMAIN accounts) |-> f[s]] /\ f[{}] = S
      /\ \A s \in SUBSET (DOMAIN accounts) : s # {} => Max(s) \in s /\ f[s] = BindToolhub(f[s \ {Max(s)}], Max(s))
  BY <1>1 DEF Do, Repeats
<1>3. Is(f)
  <2> DEFINE R == [s \in SUBSET (DOMAIN accounts) |-> IF s = {} THEN S ELSE BindToolhub(f[s \ {Max(s)}], Max(s))]
  <2>1. R = [s \in SUBSET (DOMAIN accounts) |-> R[s]] /\ \A s \in SUBSET (DOMAIN accounts) : R[s] = f[s]
    BY <1>2
  <2> HIDE DEF R
  <2>2. f = R
    BY <1>2, <2>1
  <2> QED
    BY <2>2 DEF R
<1>4. Is(F)
  <2> HIDE DEF Is
  <2> QED
    BY <1>3, Zenon
<1>5. BoundToolhub(S) = F[(DOMAIN accounts)]
  BY Zenon DEF BoundToolhub, ForEach, MapThenFoldSet
<1> HIDE DEF F
<1>6. F[{}] = S /\ \A s \in SUBSET (DOMAIN accounts) : s # {} => \E i \in s : F[s] = BindToolhub(F[s \ {i}], i)
  BY <1>2, <1>4
<1>7. Unfolds(F, DOMAIN accounts, "toolhub", S, BoundToolhub(S))
  BY <1>5, <1>6 DEF Unfolds, Do
<1> QED
  BY <1>7

\* Its Toolforge accounts.
LEMMA ToolforgeRuns ==
    ASSUME NEW S, DOMAIN developers \subseteq Nat, IsFiniteSet(DOMAIN developers)
    PROVE  \E f : Unfolds(f, DOMAIN developers, "toolforge", S, BoundToolforge(S))
<1> DEFINE Is(f) == f = [s \in SUBSET (DOMAIN developers) |-> IF s = {} THEN S ELSE BindToolforge(f[s \ {Max(s)}], Max(s))]
           F == CHOOSE f : Is(f)
<1>1. PICK f : Repeats(f, (DOMAIN developers), "toolforge", S)
  BY RunsInOrder
<1>2. /\ f = [s \in SUBSET (DOMAIN developers) |-> f[s]] /\ f[{}] = S
      /\ \A s \in SUBSET (DOMAIN developers) : s # {} => Max(s) \in s /\ f[s] = BindToolforge(f[s \ {Max(s)}], Max(s))
  BY <1>1 DEF Do, Repeats
<1>3. Is(f)
  <2> DEFINE R == [s \in SUBSET (DOMAIN developers) |-> IF s = {} THEN S ELSE BindToolforge(f[s \ {Max(s)}], Max(s))]
  <2>1. R = [s \in SUBSET (DOMAIN developers) |-> R[s]] /\ \A s \in SUBSET (DOMAIN developers) : R[s] = f[s]
    BY <1>2
  <2> HIDE DEF R
  <2>2. f = R
    BY <1>2, <2>1
  <2> QED
    BY <2>2 DEF R
<1>4. Is(F)
  <2> HIDE DEF Is
  <2> QED
    BY <1>3, Zenon
<1>5. BoundToolforge(S) = F[(DOMAIN developers)]
  BY Zenon DEF BoundToolforge, ForEach, MapThenFoldSet
<1> HIDE DEF F
<1>6. F[{}] = S /\ \A s \in SUBSET (DOMAIN developers) : s # {} => \E i \in s : F[s] = BindToolforge(F[s \ {i}], i)
  BY <1>2, <1>4
<1>7. Unfolds(F, DOMAIN developers, "toolforge", S, BoundToolforge(S))
  BY <1>5, <1>6 DEF Unfolds, Do
<1> QED
  BY <1>7

\* Its local users.
LEMMA UsersRun ==
    ASSUME NEW g, DOMAIN users \subseteq Nat, IsFiniteSet(DOMAIN users)
    PROVE  \E f : Unfolds(f, DOMAIN users, "user", g, Linked(g))
<1> DEFINE Is(f) == f = [s \in SUBSET (DOMAIN users) |-> IF s = {} THEN g ELSE EnsuredUser(f[s \ {Max(s)}], Max(s))]
           F == CHOOSE f : Is(f)
<1>1. PICK f : Repeats(f, (DOMAIN users), "user", g)
  BY RunsInOrder
<1>2. /\ f = [s \in SUBSET (DOMAIN users) |-> f[s]] /\ f[{}] = g
      /\ \A s \in SUBSET (DOMAIN users) : s # {} => Max(s) \in s /\ f[s] = EnsuredUser(f[s \ {Max(s)}], Max(s))
  BY <1>1 DEF Do, Repeats
<1>3. Is(f)
  <2> DEFINE R == [s \in SUBSET (DOMAIN users) |-> IF s = {} THEN g ELSE EnsuredUser(f[s \ {Max(s)}], Max(s))]
  <2>1. R = [s \in SUBSET (DOMAIN users) |-> R[s]] /\ \A s \in SUBSET (DOMAIN users) : R[s] = f[s]
    BY <1>2
  <2> HIDE DEF R
  <2>2. f = R
    BY <1>2, <2>1
  <2> QED
    BY <2>2 DEF R
<1>4. Is(F)
  <2> HIDE DEF Is
  <2> QED
    BY <1>3, Zenon
<1>5. Linked(g) = F[(DOMAIN users)]
  BY Zenon DEF Linked, ForEach, MapThenFoldSet
<1> HIDE DEF F
<1>6. F[{}] = g /\ \A s \in SUBSET (DOMAIN users) : s # {} => \E i \in s : F[s] = EnsuredUser(F[s \ {i}], i)
  BY <1>2, <1>4
<1>7. Unfolds(F, DOMAIN users, "user", g, Linked(g))
  BY <1>5, <1>6 DEF Unfolds, Do
<1> QED
  BY <1>7

\* Its holders of memberships.
LEMMA HoldersRun ==
    ASSUME NEW g, NEW ids \in SUBSET Nat, IsFiniteSet(ids)
    PROVE  \E f : Unfolds(f, ids, "holder", g, ForEach(ids, EnsuredHolder, g))
<1> DEFINE Is(f) == f = [s \in SUBSET ids |-> IF s = {} THEN g ELSE EnsuredHolder(f[s \ {Max(s)}], Max(s))]
           F == CHOOSE f : Is(f)
<1>1. PICK f : Repeats(f, ids, "holder", g)
  BY RunsInOrder
<1>2. /\ f = [s \in SUBSET ids |-> f[s]] /\ f[{}] = g
      /\ \A s \in SUBSET ids : s # {} => Max(s) \in s /\ f[s] = EnsuredHolder(f[s \ {Max(s)}], Max(s))
  BY <1>1 DEF Do, Repeats
<1>3. Is(f)
  <2> DEFINE R == [s \in SUBSET ids |-> IF s = {} THEN g ELSE EnsuredHolder(f[s \ {Max(s)}], Max(s))]
  <2>1. R = [s \in SUBSET ids |-> R[s]] /\ \A s \in SUBSET ids : R[s] = f[s]
    BY <1>2
  <2> HIDE DEF R
  <2>2. f = R
    BY <1>2, <2>1
  <2> QED
    BY <2>2 DEF R
<1>4. Is(F)
  <2> HIDE DEF Is
  <2> QED
    BY <1>3, Zenon
<1>5. ForEach(ids, EnsuredHolder, g) = F[ids]
  BY Zenon DEF ForEach, MapThenFoldSet
<1> HIDE DEF F
<1>6. F[{}] = g /\ \A s \in SUBSET ids : s # {} => \E i \in s : F[s] = EnsuredHolder(F[s \ {i}], i)
  BY <1>2, <1>4
<1>7. Unfolds(F, ids, "holder", g, ForEach(ids, EnsuredHolder, g))
  BY <1>5, <1>6 DEF Unfolds, Do
<1> QED
  BY <1>7

\* The owners of user pages: a fold in no particular order.
PageSolution(f, g) ==
    f = [s \in SUBSET PageOwners |->
            IF s = {} THEN g ELSE OnPage(f[s \ {CHOOSE n \in s : TRUE}], CHOOSE n \in s : TRUE)]

LEMMA PagesRun ==
    ASSUME NEW g, IsFiniteSet(PageOwners)
    PROVE  \E f : Unfolds(f, PageOwners, "page", g, OnPages(g))
<1> DEFINE F == CHOOSE f : PageSolution(f, g)
           c == [s \in SUBSET PageOwners |-> CHOOSE n \in s : TRUE]
<1>1. \A s \in SUBSET PageOwners : s # {} => (CHOOSE n \in s : TRUE) \in s
  OBVIOUS
<1>2. \A s \in SUBSET PageOwners : c[s] = CHOOSE n \in s : TRUE
  OBVIOUS
<1>3. PICK f : Solves(f, SUBSET PageOwners, "page", g, c)
  <2>1. \A s \in SUBSET PageOwners : s # {} => c[s] \in s
    BY <1>1
  <2> HIDE DEF c
  <2> QED
    BY <2>1, Runs
<1> HIDE DEF c
<1>4. /\ f = [s \in SUBSET PageOwners |-> f[s]]
      /\ \A s \in SUBSET PageOwners : f[s] = IF s = {} THEN g ELSE OnPage(f[s \ {c[s]}], c[s])
  <2>1. /\ f = [s \in SUBSET PageOwners |-> f[s]]
        /\ \A s \in SUBSET PageOwners : f[s] = IF s = {} THEN g ELSE Do("page", f[s \ {c[s]}], c[s])
    BY <1>3, SolvesGives
  <2>2. \A h, i : Do("page", h, i) = OnPage(h, i)
    BY DEF Do
  <2> QED
    BY <2>1, <2>2
<1>5. PageSolution(f, g)
  <2> DEFINE R == [s \in SUBSET PageOwners |->
                      IF s = {} THEN g ELSE OnPage(f[s \ {CHOOSE n \in s : TRUE}], CHOOSE n \in s : TRUE)]
  <2>1. R = [s \in SUBSET PageOwners |-> R[s]] /\ \A s \in SUBSET PageOwners : R[s] = f[s]
    BY <1>2, <1>4
  <2> HIDE DEF R
  <2>2. f = R
    BY <1>4, <2>1
  <2> QED
    BY <2>2 DEF R, PageSolution
<1>6. PageSolution(F, g)
  BY <1>5, Zenon
<1>7. OnPages(g) = F[PageOwners]
  BY Zenon DEF OnPages, FoldSet, MapThenFoldSet, PageSolution
<1> HIDE DEF F
<1>8. F[{}] = g /\ \A s \in SUBSET PageOwners : s # {} => \E i \in s : F[s] = OnPage(F[s \ {i}], i)
  BY <1>1, <1>6 DEF PageSolution
<1>9. Unfolds(F, PageOwners, "page", g, OnPages(g))
  BY <1>7, <1>8 DEF Unfolds, Do
<1> QED
  BY <1>9

\* A loop develops the graph if each of its steps does.
LEMMA RunDevelops ==
    ASSUME NEW ids, IsFiniteSet(ids), NEW kind, NEW g, Sound(g), NEW whole,
           \A h : \A i \in ids : Sound(h) => Develops(h, Do(kind, h, i)),
           \E f : Unfolds(f, ids, kind, g, whole)
    PROVE  Develops(g, whole)
<1>1. PICK f : Unfolds(f, ids, kind, g, whole)
  OBVIOUS
<1> DEFINE G == {s \in SUBSET ids : Develops(g, f[s])}
<1>2. {} \in G
  BY <1>1, DevelopsReflexive DEF Unfolds
<1>3. ASSUME NEW s \in SUBSET ids, s # {}, \A i \in s : s \ {i} \in G PROVE s \in G
  <2>1. PICK i \in s : f[s] = Do(kind, f[s \ {i}], i)
    BY <1>1, <1>3 DEF Unfolds
  <2>2. Develops(g, f[s \ {i}])
    BY <1>3
  <2>3. Develops(f[s \ {i}], f[s])
    BY <2>1, <2>2 DEF Develops
  <2> QED
    BY <2>2, <2>3, DevelopsTransitive
<1> HIDE DEF G
<1>4. ids \in G
  BY <1>2, <1>3, SetInduction
<1> QED
  BY <1>1, <1>4 DEF G, Unfolds

LEMMA RunTracks ==
    ASSUME NEW ids, IsFiniteSet(ids), NEW kind, NEW S, Tracks(S), NEW whole,
           \A N : \A i \in ids : Tracks(N) => Tracks(Do(kind, N, i)) /\ Develops(N.g, Do(kind, N, i).g),
           \E f : Unfolds(f, ids, kind, S, whole)
    PROVE  Tracks(whole) /\ Develops(S.g, whole.g)
<1>1. PICK f : Unfolds(f, ids, kind, S, whole)
  OBVIOUS
<1> DEFINE G == {s \in SUBSET ids : Tracks(f[s]) /\ Develops(S.g, f[s].g)}
<1>2. {} \in G
  BY <1>1, DevelopsReflexive DEF Unfolds, Tracks
<1>3. ASSUME NEW s \in SUBSET ids, s # {}, \A i \in s : s \ {i} \in G PROVE s \in G
  <2>1. PICK i \in s : f[s] = Do(kind, f[s \ {i}], i)
    BY <1>1, <1>3 DEF Unfolds
  <2>2. Tracks(f[s \ {i}]) /\ Develops(S.g, f[s \ {i}].g)
    BY <1>3
  <2>3. Tracks(f[s]) /\ Develops(f[s \ {i}].g, f[s].g)
    BY <2>1, <2>2
  <2> QED
    BY <2>2, <2>3, DevelopsTransitive
<1> HIDE DEF G
<1>4. ids \in G
  BY <1>2, <1>3, SetInduction
<1> QED
  BY <1>1, <1>4 DEF G, Unfolds

----------------------------------------------------------------------------
(* The transactions.  There are finitely many accounts, of the kinds they should be. *)

Listed ==
    /\ DOMAIN hub \subseteq ToolhubIds /\ IsFiniteSet(DOMAIN hub)
    /\ DOMAIN accounts \subseteq ToolhubIds /\ IsFiniteSet(DOMAIN accounts)
    /\ DOMAIN users \subseteq ToolhubIds /\ IsFiniteSet(DOMAIN users)
    /\ DOMAIN ldap \subseteq UidNumbers /\ IsFiniteSet(DOMAIN ldap)
    /\ DOMAIN developers \subseteq UidNumbers /\ IsFiniteSet(DOMAIN developers)
    /\ live \subseteq Tools

LEMMA RowsDevelop ==
    ASSUME Listed, NEW g, Sound(g), NEW ids \in SUBSET ToolhubIds, IsFiniteSet(ids)
    PROVE  Develops(g, EnsuredRows(ids, g))
<1>1. \E f : Unfolds(f, ids, "row", g, EnsuredRows(ids, g))
  BY IdentityAssumption, RowsRun
<1>2. \A h : \A i \in ids : Sound(h) => Develops(h, Do("row", h, i))
  BY OfficialDevelops DEF Do, EnsuredRow, Listed
<1> QED
  BY <1>1, <1>2, RunDevelops

LEMMA UsersDevelop ==
    ASSUME Listed, NEW g, Sound(g)
    PROVE  Develops(g, Linked(g))
<1>1. \E f : Unfolds(f, DOMAIN users, "user", g, Linked(g))
  BY IdentityAssumption, UsersRun DEF Listed
<1>2. \A h : \A i \in DOMAIN users : Sound(h) => Develops(h, Do("user", h, i))
  BY EnsuredDevelops DEF Do, EnsuredUser, Listed
<1>3. IsFiniteSet(DOMAIN users)
  BY DEF Listed
<1> QED
  BY <1>1, <1>2, <1>3, RunDevelops

LEMMA HoldersDevelop ==
    ASSUME Listed, NEW g, Sound(g)
    PROVE  Develops(g, Restated(g))
<1> DEFINE ids == {x[1][1] : x \in Held(g)}
<1>1. ids \subseteq DOMAIN developers
  BY DEF Held, Memberships
<1>2. Restated(g) = ForEach(ids, EnsuredHolder, g)
  BY Zenon DEF Restated
<1> HIDE DEF ids
<1>3. ids \in SUBSET Nat /\ IsFiniteSet(ids)
  BY <1>1, IdentityAssumption, FS_Subset DEF Listed
<1>4. \E f : Unfolds(f, ids, "holder", g, ForEach(ids, EnsuredHolder, g))
  BY <1>3, HoldersRun
<1>5. \A h : \A i \in ids : Sound(h) => Develops(h, Do("holder", h, i))
  BY EnsuredDevelops DEF Do, EnsuredHolder, Listed
<1> QED
  BY <1>2, <1>3, <1>4, <1>5, RunDevelops

\* One page of user space.
LEMMA PageDevelops ==
    ASSUME Listed, NEW g, Sound(g), NEW name
    PROVE  Develops(g, OnPage(g, name))
<1> DEFINE p == OwnerOf(g, name)
           said == [globalId |-> GlobalOf(g, p), wikiName |-> name]
           us == Matching(g, name)
<1>1. DOMAIN developers \subseteq UidNumbers
  BY DEF Listed
<1>2. CASE p = Nobody
  BY <1>2, DevelopsReflexive DEF OnPage, OfOwner
<1>3. CASE p # Nobody /\ us = {}
  <2>1. OnPage(g, name) = Ensured(g, said)
    BY <1>3 DEF OnPage, OfOwner, OnAccounts
  <2> QED
    BY <1>1, <2>1, EnsuredDevelops
<1>4. CASE p # Nobody /\ us # {}
  <2> DEFINE u == CHOOSE w \in us : TRUE
             h == Bound(g, u, developers[u], p, "userSpace")
  <2>1. OnPage(g, name) = Ensured(h, said @@ LdapSays(u))
    BY <1>4 DEF OnPage, OfOwner, OnAccounts
  <2>2. u \in us
    BY <1>4
  <2>3. u \in UidNumbers /\ Accepted(g, u, p)
    BY <1>1, <2>2 DEF Matching, Developers
  <2> HIDE DEF u, p, us
  <2>4. Develops(g, h)
    BY <1>1, <1>4, <2>3, BoundDevelops
  <2>5. Develops(h, Ensured(h, said @@ LdapSays(u)))
    BY <1>1, <2>4, EnsuredDevelops DEF Develops
  <2> QED
    BY <2>1, <2>4, <2>5, DevelopsTransitive
<1> QED
  BY <1>2, <1>3, <1>4

LEMMA PagesDevelop ==
    ASSUME Listed, NEW g, Sound(g)
    PROVE  Develops(g, OnPages(g))
<1>1. IsFiniteSet(PageOwners)
  <2>1. IsFiniteSet(live)
    BY CatalogAssumption, FS_Subset DEF Listed
  <2> DEFINE all == {UserSpace[n] : n \in live}
  <2>2. IsFiniteSet(all)
    <3> DEFINE G == {s \in SUBSET live : IsFiniteSet({UserSpace[n] : n \in s})}
    <3>1. {} \in G
      BY FS_EmptySet
    <3>2. ASSUME NEW s \in SUBSET live, s # {}, \A i \in s : s \ {i} \in G PROVE s \in G
      <4>1. PICK i \in s : s \ {i} \in G
        BY <3>2
      <4>2. {UserSpace[n] : n \in s} = {UserSpace[n] : n \in s \ {i}} \cup {UserSpace[i]}
        OBVIOUS
      <4>3. IsFiniteSet({UserSpace[n] : n \in s \ {i}})
        BY <4>1
      <4>4. IsFiniteSet({UserSpace[n] : n \in s \ {i}} \cup {UserSpace[i]})
        BY <4>3, FS_AddElement
      <4> QED
        BY <4>2, <4>4
    <3> HIDE DEF G
    <3>3. live \in G
      BY <2>1, <3>1, <3>2, SetInduction
    <3> QED
      BY <3>3 DEF G
  <2>3. PageOwners \subseteq all
    BY DEF PageOwners
  <2> HIDE DEF all
  <2> QED
    BY <2>2, <2>3, FS_Subset
<1>2. \E f : Unfolds(f, PageOwners, "page", g, OnPages(g))
  BY <1>1, PagesRun
<1>3. \A h : \A i \in PageOwners : Sound(h) => Develops(h, Do("page", h, i))
  BY PageDevelops DEF Do
<1> QED
  BY <1>1, <1>2, <1>3, RunDevelops

LEMMA ToolhubDevelops ==
    ASSUME Listed, NEW S, Tracks(S)
    PROVE  LET N == BoundToolhub(S) IN Tracks(N) /\ Develops(S.g, N.g)
<1>1. \E f : Unfolds(f, DOMAIN accounts, "toolhub", S, BoundToolhub(S))
  BY IdentityAssumption, ToolhubRuns DEF Listed
<1>2. \A N : \A i \in DOMAIN accounts :
        Tracks(N) => Tracks(Do("toolhub", N, i)) /\ Develops(N.g, Do("toolhub", N, i).g)
  BY BindToolhubTracks DEF Do, Listed
<1>3. IsFiniteSet(DOMAIN accounts)
  BY DEF Listed
<1> QED
  BY <1>1, <1>2, <1>3, RunTracks

\* Every Toolforge account that has been reached is settled, and stays so.
LEMMA ToolforgeSettles ==
    ASSUME Listed, NEW S, Tracks(S)
    PROVE  LET N == BoundToolforge(S) IN
           Tracks(N) /\ Develops(S.g, N.g) /\ \A u \in DOMAIN developers : Settles(N.g, u)
<1> DEFINE N == BoundToolforge(S)
           ids == DOMAIN developers
<1>1. PICK f : Unfolds(f, ids, "toolforge", S, N)
  BY IdentityAssumption, ToolforgeRuns DEF Listed
<1>2. IsFiniteSet(ids) /\ ids \subseteq UidNumbers
  BY DEF Listed
<1>3. ASSUME NEW M, Tracks(M), NEW u \in ids
      PROVE  LET T == Do("toolforge", M, u) IN Tracks(T) /\ Develops(M.g, T.g) /\ Settles(T.g, u)
  BY <1>2, <1>3, BindToolforgeTracks DEF Do
<1> HIDE DEF N
<1> DEFINE G == {s \in SUBSET ids : /\ Tracks(f[s]) /\ Develops(S.g, f[s].g)
                                    /\ \A u \in s : Settles(f[s].g, u)}
<1>4. {} \in G
  BY <1>1, DevelopsReflexive DEF Unfolds, Tracks
<1>5. ASSUME NEW s \in SUBSET ids, s # {}, \A i \in s : s \ {i} \in G PROVE s \in G
  <2>1. PICK i \in s : f[s] = Do("toolforge", f[s \ {i}], i)
    BY <1>1, <1>5 DEF Unfolds
  <2>2. /\ Tracks(f[s \ {i}]) /\ Develops(S.g, f[s \ {i}].g)
        /\ \A u \in s \ {i} : Settles(f[s \ {i}].g, u)
    BY <1>5
  <2>3. Tracks(f[s]) /\ Develops(f[s \ {i}].g, f[s].g) /\ Settles(f[s].g, i)
    BY <1>3, <2>1, <2>2
  <2>4. \A u \in s : Settles(f[s].g, u)
    BY <2>2, <2>3 DEF Develops
  <2> QED
    BY <2>2, <2>3, <2>4, DevelopsTransitive
<1> HIDE DEF G
<1>6. ids \in G
  BY <1>2, <1>4, <1>5, SetInduction
<1> QED
  BY <1>1, <1>6 DEF G, N, Unfolds

\* One synchronization leaves every Toolforge account settled.
LEMMA BindingsDevelop ==
    ASSUME Listed, NEW g, Sound(g)
    PROVE  Develops(g, Bindings(g)) /\ \A u \in DOMAIN developers : Settles(Bindings(g), u)
<1> DEFINE S == [g |-> g, known |-> Index(g)]
           M == BoundToolhub(S)
           N == BoundToolforge(M)
<1>1. Tracks(S) /\ S.g = g
  BY IndexTracks
<1>2. Bindings(g) = N.g
  BY DEF Bindings
<1> HIDE DEF S
<1>3. Tracks(M) /\ Develops(g, M.g)
  BY <1>1, ToolhubDevelops
<1> HIDE DEF M
<1>4. Develops(M.g, N.g) /\ \A u \in DOMAIN developers : Settles(N.g, u)
  BY <1>3, ToolforgeSettles
<1> HIDE DEF N
<1> QED
  BY <1>2, <1>3, <1>4, DevelopsTransitive

LEMMA RelatedDevelops ==
    ASSUME Listed, NEW g, Sound(g)
    PROVE  Develops(g, Related(g).graph)
<1>1. Related(g).graph \in {g, Restated(g)}
  BY DEF Related
<1> QED
  BY <1>1, DevelopsReflexive, HoldersDevelop

LEMMA PagedDevelops ==
    ASSUME Listed, NEW g, Sound(g)
    PROVE  Develops(g, Paged(g).graph)
<1>1. Paged(g).graph \in {g, OnPages(g)}
  BY DEF Paged, PagedAs
<1> QED
  BY <1>1, DevelopsReflexive, PagesDevelop

----------------------------------------------------------------------------
(* The evidence. *)

\* What a stored fingerprint says of memberships.
Says(m, e) ==
    \E x \in m.members, v \in BOOLEAN : \E y \in m.aliases[v], b \in m.binds :
        /\ y[1] = x[2] /\ b[1] = x[1]
        /\ e = [tool |-> y[2], uid |-> x[1], person |-> b[2].person, verified |-> v]

\* The evidence is what the stored fingerprint says of the tools that are left.
Stated == \A m \in relMarker : \A e : e \in evidence <=> Says(m, e) /\ e.tool \in live

\* The person whom the evidence names is the one who is verified.
LEMMA HolderChosen ==
    ASSUME NEW g, Sound(g), NEW u \in BoundIn(g)
    PROVE  Chosen(g, LdapSays(u)) = g.binds[<<"toolforge", u>>].person
<1> DEFINE a == <<"toolforge", u>>
           p == g.binds[a].person
           who == LdapSays(u)
<1>1. u \in UidNumbers /\ g.binds[a].status = "verified"
  BY DEF BoundIn, VerifiedPerson
<1>2. a \in Accounts /\ NamespaceOf(a[1]) = "uidNumber" /\ a[2] = u
  BY <1>1 DEF Accounts, NamespaceOf
<1>3. p # Nobody /\ Owner(g.ids, "uidNumber", u) = p
  BY <1>1, <1>2 DEF Sound, WellBound
<1>4. /\ "uidNumber" \in DOMAIN who /\ who["uidNumber"] = u
      /\ \A ns \in Stable : ns \in DOMAIN who => ns = "uidNumber"
  BY DEF LdapSays, Stable
<1>5. "uidNumber" \in Stable
  BY DEF Stable
<1> HIDE DEF who, p
<1>6. Chosen(g, who) = p
  BY <1>3, <1>4, <1>5, ChosenOwner
<1> QED
  BY <1>6 DEF who, p

LEMMA RowsSaid ==
    ASSUME Listed, NEW g, Sound(g), NEW e
    PROVE  e \in Rows(g) <=> Says(RelationshipInput(g), e) /\ e.tool \in live
<1> DEFINE m == RelationshipInput(g)
           BindOf(u) == g.binds[<<"toolforge", u>>]
           RowOf(u, n) == [tool |-> n, uid |-> u, person |-> BindOf(u).person, verified |-> Verifies[n]]
<1>1. /\ m.binds = {<<u, BindOf(u)>> : u \in BoundIn(g)}
      /\ m.members = Memberships /\ m.aliases = Aliases
  BY DEF RelationshipInput
<1>2. \A v \in BOOLEAN : Aliases[v] = {x \in Projects \X live : x[2] \in Named(x[1], v)}
  BY DEF Aliases
<1>3. \A n \in live : Verifies[n] \in BOOLEAN
  BY CatalogAssumption DEF Listed
<1>4. e \in Rows(g) <=>
        \E x \in Memberships : \E n \in live :
           x[1] \in BoundIn(g) /\ ProjectOf[n] = x[2] /\ e = RowOf(x[1], n)
  <2>1. \A z \in Held(g) :
          /\ z \in Memberships \X live /\ z[1][1] \in BoundIn(g) /\ ProjectOf[z[2]] = z[1][2]
          /\ Chosen(g, LdapSays(z[1][1])) = BindOf(z[1][1]).person
    BY HolderChosen DEF Held
  <2>2. e \in Rows(g) <=> \E z \in Held(g) : e = RowOf(z[1][1], z[2])
    BY <2>1 DEF Rows
  <2>3. ASSUME NEW x \in Memberships, NEW n \in live, x[1] \in BoundIn(g), ProjectOf[n] = x[2]
        PROVE  \E z \in Held(g) : z[1] = x /\ z[2] = n
    <3>1. <<x, n>> \in Held(g)
      BY <2>3 DEF Held
    <3> QED
      BY <3>1
  <2> HIDE DEF RowOf
  <2>4. ASSUME NEW z \in Held(g), e = RowOf(z[1][1], z[2])
        PROVE  \E x \in Memberships : \E n \in live :
                  x[1] \in BoundIn(g) /\ ProjectOf[n] = x[2] /\ e = RowOf(x[1], n)
    <3>1. z[1] \in Memberships /\ z[2] \in live
      BY <2>1
    <3> QED
      BY <2>1, <2>4, <3>1
  <2>5. ASSUME NEW x \in Memberships, NEW n \in live,
               x[1] \in BoundIn(g), ProjectOf[n] = x[2], e = RowOf(x[1], n)
        PROVE  \E z \in Held(g) : e = RowOf(z[1][1], z[2])
    BY <2>3, <2>5
  <2> QED
    BY <2>2, <2>4, <2>5
<1>5. Says(m, e) <=>
        \E x \in Memberships : \E n \in live :
           x[1] \in BoundIn(g) /\ ProjectOf[n] = x[2] /\ e = RowOf(x[1], n)
  <2>1. ASSUME Says(m, e)
        PROVE  \E x \in Memberships : \E n \in live :
                  x[1] \in BoundIn(g) /\ ProjectOf[n] = x[2] /\ e = RowOf(x[1], n)
    <3>1. PICK x \in m.members, v \in BOOLEAN : \E y \in m.aliases[v], b \in m.binds :
            /\ y[1] = x[2] /\ b[1] = x[1]
            /\ e = [tool |-> y[2], uid |-> x[1], person |-> b[2].person, verified |-> v]
      BY <2>1 DEF Says
    <3>2. PICK y \in m.aliases[v], b \in m.binds :
            /\ y[1] = x[2] /\ b[1] = x[1]
            /\ e = [tool |-> y[2], uid |-> x[1], person |-> b[2].person, verified |-> v]
      BY <3>1
    <3>3. x \in Memberships /\ y \in Projects \X live /\ y[2] \in Named(y[1], v)
      BY <1>1, <1>2
    <3>4. y[2] \in live /\ ProjectOf[y[2]] = x[2] /\ Verifies[y[2]] = v
      BY <3>2, <3>3 DEF Named
    <3>5. x[1] \in BoundIn(g) /\ b[2] = BindOf(x[1])
      <4>1. PICK w \in BoundIn(g) : b = <<w, BindOf(w)>>
        BY <1>1
      <4>2. w = x[1]
        BY <3>2, <4>1
      <4> QED
        BY <4>1, <4>2
    <3>6. e = RowOf(x[1], y[2])
      BY <3>2, <3>4, <3>5
    <3> QED
      BY <3>3, <3>4, <3>5, <3>6
  <2>2. ASSUME NEW x \in Memberships, NEW n \in live,
               x[1] \in BoundIn(g), ProjectOf[n] = x[2], e = RowOf(x[1], n)
        PROVE  Says(m, e)
    <3> DEFINE v == Verifies[n]
               y == <<x[2], n>>
               b == <<x[1], BindOf(x[1])>>
    <3>1. x[2] \in Projects
      BY DEF Memberships
    <3>2. v \in BOOLEAN /\ y \in m.aliases[v]
      BY <1>1, <1>2, <1>3, <2>2, <3>1 DEF Named
    <3>3. x \in m.members /\ b \in m.binds
      BY <1>1, <2>2
    <3>4. y[1] = x[2] /\ b[1] = x[1] /\ e = [tool |-> y[2], uid |-> x[1], person |-> b[2].person, verified |-> v]
      BY <2>2
    <3> HIDE DEF v, y, b, m
    <3> QED
      BY <3>2, <3>3, <3>4 DEF Says
  <2> QED
    BY <2>1, <2>2
<1>6. Says(m, e) => e.tool \in live
  <2>1. \A u, n : RowOf(u, n).tool = n
    OBVIOUS
  <2> HIDE DEF RowOf, m
  <2> QED
    BY <1>5, <2>1
<1> QED
  BY <1>4, <1>5, <1>6

\* After a synchronization, the evidence is what the fingerprint it stores says.
LEMMA RelatedStates ==
    ASSUME Listed, Stated, NEW g, Sound(g), live' = live,
           evidence' = Related(g).evidence, relMarker' = Related(g).relMarker
    PROVE  Stated'
<1>1. CASE relMarker = {RelationshipInput(g)}
  <2>1. evidence' = evidence /\ relMarker' = relMarker
    BY <1>1 DEF Related
  <2> QED
    BY <2>1 DEF Stated
<1>2. CASE relMarker # {RelationshipInput(g)}
  <2>1. evidence' = Rows(g) /\ relMarker' = {RelationshipInput(g)}
    BY <1>2 DEF Related
  <2> QED
    BY <2>1, RowsSaid DEF Stated
<1> QED
  BY <1>1, <1>2

----------------------------------------------------------------------------
(* The invariant. *)

Inv ==
    /\ Listed
    /\ cycle.open => cycle.seen \subseteq DOMAIN hub
    /\ Sound(graph)
    /\ Stated

LEMMA SynchronizeDevelops ==
    ASSUME Listed, Stated, NEW g, Sound(g), Synchronize(g), live' = live
    PROVE  Develops(g, graph') /\ Stated' /\ DOMAIN users' = DOMAIN users
<1>1. PICK linked \in {Linked(Bindings(g))} : \E done \in {Related(linked)} :
        /\ users' = LinkedUsers(linked) /\ graph' = done.graph
        /\ evidence' = done.evidence /\ relMarker' = done.relMarker
  BY DEF Synchronize
<1>2. /\ linked = Linked(Bindings(g)) /\ users' = LinkedUsers(linked)
      /\ graph' = Related(linked).graph
      /\ evidence' = Related(linked).evidence /\ relMarker' = Related(linked).relMarker
  BY <1>1
<1>3. Develops(g, Bindings(g))
  BY BindingsDevelop
<1>4. Develops(Bindings(g), linked)
  BY <1>2, <1>3, UsersDevelop DEF Develops
<1>5. Develops(g, linked)
  BY <1>3, <1>4, DevelopsTransitive
<1>6. Develops(linked, graph') /\ Stated'
  BY <1>2, <1>5, RelatedDevelops, RelatedStates DEF Develops
<1>7. DOMAIN users' = DOMAIN users
  BY <1>2 DEF LinkedUsers
<1> QED
  BY <1>5, <1>6, <1>7, DevelopsTransitive

\* The publication of the refresh settles every Toolforge account.
LEMMA PublishSettles ==
    ASSUME Inv, Publish
    PROVE  /\ Develops(graph, graph') /\ Stated' /\ DOMAIN users' = DOMAIN users
           /\ \A u \in DOMAIN developers : Settles(graph', u)
<1> DEFINE bound == Bindings(graph)
           linked == Linked(bound)
<1>1. PICK done \in {Related(linked)} : \E paged \in {Paged(done.graph)} :
         /\ graph' = Linked(paged.graph)
         /\ users' = LinkedUsers(graph')
         /\ evidence' = done.evidence /\ relMarker' = done.relMarker
  BY DEF Publish
<1> DEFINE paged == Paged(done.graph).graph
<1>2. /\ graph' = Linked(paged) /\ users' = LinkedUsers(graph')
      /\ evidence' = Related(linked).evidence /\ relMarker' = Related(linked).relMarker
      /\ done.graph = Related(linked).graph
  BY <1>1
<1>3. Listed /\ Stated /\ Sound(graph) /\ live' = live
  BY DEF Inv, Publish
<1>4. Develops(graph, bound) /\ \A u \in DOMAIN developers : Settles(bound, u)
  BY <1>3, BindingsDevelop
<1> HIDE DEF bound
<1>5. Develops(bound, linked)
  BY <1>3, <1>4, UsersDevelop DEF Develops
<1> HIDE DEF linked
<1>6. Develops(linked, done.graph) /\ Stated'
  BY <1>2, <1>3, <1>5, RelatedDevelops, RelatedStates DEF Develops
<1>7. Develops(done.graph, paged)
  BY <1>3, <1>6, PagedDevelops DEF Develops
<1> HIDE DEF paged
<1>8. Develops(paged, graph')
  BY <1>2, <1>3, <1>7, UsersDevelop DEF Develops
<1>9. Develops(bound, graph')
  BY <1>5, <1>6, <1>7, <1>8, DevelopsTransitive
<1>10. DOMAIN users' = DOMAIN users
  BY <1>2 DEF LinkedUsers
<1> QED
  BY <1>4, <1>6, <1>9, <1>10, DevelopsTransitive DEF Develops

LEMMA LinkUserDevelops ==
    ASSUME Inv, NEW t \in DOMAIN users, NEW says, NEW global, LinkUser(t, says, global)
    PROVE  Develops(graph, graph') /\ DOMAIN users' = DOMAIN users
<1>1. Develops(graph, graph')
  BY EnsuredDevelops DEF LinkUser, Inv, Listed
<1>2. DOMAIN users' = DOMAIN users
  BY DEF LinkUser
<1> QED
  BY <1>1, <1>2

LEMMA CompleteChallengeDevelops ==
    ASSUME Inv, NEW t, NEW u, CompleteChallenge(t, u)
    PROVE  Develops(graph, graph') /\ Stated' /\ DOMAIN users' = DOMAIN users
<1> DEFINE says == Official(t, users[t])
           p == Chosen(graph, says)
           mine == Ensured(graph, says)
           h == Bound(mine, u, developers[u], p, "authenticated")
<1>1. Accepted(mine, u, p) /\ Synchronize(h)
  BY DEF CompleteChallenge
<1>2. u \in DOMAIN developers /\ live' = live
  BY DEF CompleteChallenge
<1>3. Listed /\ Stated /\ Sound(graph) /\ DOMAIN developers \subseteq UidNumbers
  BY DEF Inv, Listed
<1> HIDE DEF says
<1>4. Develops(graph, mine) /\ Sound(mine) /\ p # Nobody
  BY <1>3, EnsuredDevelops, EnsuredSound
<1> HIDE DEF mine, p
<1>5. Develops(mine, h) /\ Sound(h)
  BY <1>1, <1>2, <1>3, <1>4, BoundDevelops DEF Develops
<1> HIDE DEF h
<1>6. Develops(h, graph') /\ Stated' /\ DOMAIN users' = DOMAIN users
  BY <1>1, <1>2, <1>3, <1>5, SynchronizeDevelops
<1> QED
  BY <1>4, <1>5, <1>6, DevelopsTransitive

\* What a page stores: only accounts that exist, and of the mirror only what the finished
\* generation has not seen goes.
LEMMA StorePageKeeps ==
    ASSUME Inv, StorePage
    PROVE  /\ Develops(graph, graph')
           /\ DOMAIN accounts' \subseteq ToolhubIds /\ IsFiniteSet(DOMAIN accounts')
           /\ cycle'.open => cycle'.seen \subseteq DOMAIN hub'
           /\ \A t \in DOMAIN accounts : t \in DOMAIN hub => t \in DOMAIN accounts'
<1> DEFINE rows == PageRows(cycle.page)
           seen == cycle.seen \cup rows
           last == ~HasNext(cycle.page)
           ids == IdentityChanged(rows)
<1>1. /\ accounts' = Kept(StoredRows(rows), seen, last)
      /\ cycle' = IF last THEN [open |-> FALSE, page |-> 1, seen |-> {}]
                          ELSE [open |-> TRUE, page |-> cycle.page + 1, seen |-> seen]
      /\ graph' = EnsuredRows(ids, graph) /\ hub' = hub /\ cycle.open
  BY DEF StorePage, worldVars
<1>2. /\ DOMAIN hub \subseteq ToolhubIds /\ IsFiniteSet(DOMAIN hub)
      /\ DOMAIN accounts \subseteq ToolhubIds /\ IsFiniteSet(DOMAIN accounts)
      /\ Listed /\ Sound(graph) /\ cycle.seen \subseteq DOMAIN hub
  BY <1>1 DEF Inv, Listed
<1>3. rows \subseteq DOMAIN hub
  BY DEF PageRows
<1> HIDE DEF rows
<1>4. seen \subseteq DOMAIN hub /\ ids \subseteq DOMAIN hub
  BY <1>2, <1>3 DEF IdentityChanged
<1> HIDE DEF seen, last, ids
<1>5. IsFiniteSet(rows) /\ IsFiniteSet(seen) /\ IsFiniteSet(ids)
  BY <1>2, <1>3, <1>4, FS_Subset
<1>6. Develops(graph, graph')
  BY <1>1, <1>2, <1>4, <1>5, RowsDevelop
<1>7. DOMAIN StoredRows(rows) = DOMAIN accounts \cup rows
  BY DEF StoredRows
<1>8. /\ DOMAIN accounts' \in {seen, DOMAIN accounts \cup rows}
      /\ DOMAIN accounts' = DOMAIN accounts \cup rows \/ Cardinality(seen) = Cardinality(DOMAIN hub)
  BY <1>1, <1>7 DEF Kept
<1>9. DOMAIN accounts' \subseteq ToolhubIds /\ IsFiniteSet(DOMAIN accounts')
  BY <1>2, <1>3, <1>4, <1>5, <1>8, FS_Union
<1>10. \A t \in DOMAIN accounts : t \in DOMAIN hub => t \in DOMAIN accounts'
  <2>1. Cardinality(seen) = Cardinality(DOMAIN hub) => seen = DOMAIN hub
    BY <1>2, <1>4, FS_Subset
  <2> QED
    BY <1>8, <2>1
<1>11. cycle'.open => cycle'.seen \subseteq DOMAIN hub'
  BY <1>1, <1>4
<1> QED
  BY <1>6, <1>9, <1>10, <1>11

\* Whatever happens, the graph only develops.
LEMMA NextDevelops ==
    ASSUME Inv, IdentityNext
    PROVE  Develops(graph, graph')
<1>1. Sound(graph)
  BY DEF Inv
<1>2. ASSUME graph' = graph PROVE Develops(graph, graph')
  BY <1>1, <1>2, DevelopsReflexive
<1>3. CASE \E t \in ToolhubIds : (Register(t) \/ Amend(t) \/ Close(t)) /\ Unnoticed
  BY <1>2, <1>3 DEF Register, Amend, Close, Outside
<1>4. CASE \E u \in UidNumbers : Enter(u) /\ Unnoticed
  BY <1>2, <1>4 DEF Enter, Outside
<1>5. CASE \E n \in Tools : RetireTool(n) \/ ReturnTool(n)
  BY <1>2, <1>5 DEF RetireTool, ReturnTool
<1>6. CASE (BeginCycle \/ StorePage \/ ReplaceDevelopers) /\ Mirroring
  BY <1>2, <1>6, StorePageKeeps DEF BeginCycle, ReplaceDevelopers
<1>7. CASE ReadInput \/ RefreshDies
  BY <1>2, <1>7 DEF ReadInput, RefreshDies
<1>8. CASE Publish
  BY <1>8, PublishSettles
<1>9. CASE PublishUserSpace
  <2>1. graph' = Paged(graph).graph
    BY <1>9 DEF PublishUserSpace
  <2> QED
    BY <2>1, PagedDevelops DEF Inv
<1>10. CASE Rebuild
  BY <1>10, SynchronizeDevelops DEF Rebuild, Inv
<1>11. CASE \E t \in Visitors : SignIn(t) \/ OpenProfile(t) \/ OpenDigests(t)
  BY <1>2, <1>11, LinkUserDevelops DEF SignIn, OpenProfile, OpenDigests
<1>12. CASE \E t \in Visitors, u \in UidNumbers :
         StartChallenge(t, u) \/ CompleteChallenge(t, u) \/ ExpireChallenge(t, u)
  BY <1>2, <1>12, LinkUserDevelops, CompleteChallengeDevelops DEF StartChallenge, ExpireChallenge
<1> QED
  BY <1>3, <1>4, <1>5, <1>6, <1>7, <1>8, <1>9, <1>10, <1>11, <1>12 DEF IdentityNext

LEMMA NextStates ==
    ASSUME Inv, IdentityNext
    PROVE  Stated'
<1>1. Stated
  BY DEF Inv
<1>2. ASSUME relMarker' = relMarker, evidence' = evidence, live' = live PROVE Stated'
  BY <1>1, <1>2 DEF Stated
<1>3. CASE \E t \in ToolhubIds : (Register(t) \/ Amend(t) \/ Close(t)) /\ Unnoticed
  BY <1>2, <1>3 DEF Unnoticed, derivedVars
<1>4. CASE \E u \in UidNumbers : Enter(u) /\ Unnoticed
  BY <1>2, <1>4 DEF Unnoticed, derivedVars
<1>5. CASE \E n \in Tools : RetireTool(n)
  <2>1. PICK n : RetireTool(n)
    BY <1>5
  <2>2. relMarker' = relMarker /\ live' = live \ {n} /\ evidence' = {e \in evidence : e.tool # n}
    BY <2>1 DEF RetireTool
  <2> QED
    BY <1>1, <2>2 DEF Stated
<1>6. CASE \E n \in Tools : ReturnTool(n)
  <2>1. PICK n : ReturnTool(n)
    BY <1>6
  <2>2. /\ relMarker' = relMarker /\ live' = live \cup {n} /\ evidence' = evidence
        /\ \A m \in relMarker : \A v \in BOOLEAN : \A a \in m.aliases[v] : a[2] # n
    BY <2>1 DEF ReturnTool, derivedVars
  <2>3. \A m \in relMarker : \A e : Says(m, e) => e.tool # n
    BY <2>2 DEF Says
  <2> QED
    BY <1>1, <2>2, <2>3 DEF Stated
<1>7. CASE (BeginCycle \/ StorePage \/ ReplaceDevelopers) /\ Mirroring
  BY <1>2, <1>7 DEF Mirroring, derivedVars
<1>8. CASE ReadInput \/ RefreshDies
  BY <1>2, <1>8 DEF ReadInput, RefreshDies, derivedVars
<1>9. CASE Publish
  BY <1>9, PublishSettles
<1>10. CASE PublishUserSpace
  BY <1>2, <1>10 DEF PublishUserSpace
<1>11. CASE Rebuild
  BY <1>11, SynchronizeDevelops DEF Rebuild, Inv
<1>12. CASE \E t \in Visitors : SignIn(t) \/ OpenProfile(t) \/ OpenDigests(t)
  BY <1>2, <1>12 DEF SignIn, OpenProfile, OpenDigests, derivedVars
<1>13. CASE \E t \in Visitors, u \in UidNumbers :
         StartChallenge(t, u) \/ CompleteChallenge(t, u) \/ ExpireChallenge(t, u)
  BY <1>2, <1>13, CompleteChallengeDevelops DEF StartChallenge, ExpireChallenge, derivedVars
<1> QED
  BY <1>3, <1>4, <1>5, <1>6, <1>7, <1>8, <1>9, <1>10, <1>11, <1>12, <1>13 DEF IdentityNext

\* One more account is still one of its kind, and still finitely many.
LEMMA OneMore ==
    ASSUME NEW f, NEW k, NEW row, NEW K, k \in K, DOMAIN f \subseteq K, IsFiniteSet(DOMAIN f)
    PROVE  DOMAIN With(f, k, row) \subseteq K /\ IsFiniteSet(DOMAIN With(f, k, row))
<1>1. DOMAIN With(f, k, row) = DOMAIN f \cup {k}
  BY DEF With
<1> QED
  BY <1>1, FS_AddElement

CycleSound == cycle.open => cycle.seen \subseteq DOMAIN hub

LEMMA NextLists ==
    ASSUME Inv, IdentityNext
    PROVE  Listed' /\ CycleSound'
<1>1. Listed /\ CycleSound
  BY DEF Inv, CycleSound
<1>2. ASSUME UNCHANGED <<hub, ldap, accounts, developers, cycle>>,
             DOMAIN users' = DOMAIN users, live' \subseteq Tools
      PROVE  Listed' /\ CycleSound'
  BY <1>1, <1>2 DEF Listed, CycleSound
<1>3. CASE \E t \in ToolhubIds : (Register(t) \/ Amend(t) \/ Close(t)) /\ Unnoticed
  <2>1. PICK t \in ToolhubIds : (Register(t) \/ Amend(t) \/ Close(t)) /\ Unnoticed
    BY <1>3
  <2>2. UNCHANGED <<ldap, accounts, developers, cycle, users, live>>
    BY <2>1 DEF Register, Amend, Close, Outside, Unnoticed
  <2>3. CASE Register(t)
    <3>1. PICK row : hub' = With(hub, t, row)
      BY <2>3 DEF Register
    <3>2. DOMAIN hub' \subseteq ToolhubIds /\ IsFiniteSet(DOMAIN hub')
      BY <1>1, <3>1, OneMore DEF Listed
    <3>3. DOMAIN hub \subseteq DOMAIN hub'
      BY <3>1 DEF With
    <3> QED
      BY <1>1, <2>2, <3>2, <3>3 DEF Listed, CycleSound
  <2>4. CASE Amend(t)
    <3>1. DOMAIN hub' = DOMAIN hub
      BY <2>4 DEF Amend
    <3> QED
      BY <1>1, <2>2, <3>1 DEF Listed, CycleSound
  <2>5. CASE Close(t)
    <3>1. DOMAIN hub' = DOMAIN hub \ {t} /\ ~cycle.open
      BY <2>5 DEF Close
    <3>2. IsFiniteSet(DOMAIN hub')
      BY <1>1, <3>1, FS_RemoveElement DEF Listed
    <3> QED
      BY <1>1, <2>2, <3>1, <3>2 DEF Listed, CycleSound
  <2> QED
    BY <2>1, <2>3, <2>4, <2>5
<1>4. CASE \E u \in UidNumbers : Enter(u) /\ Unnoticed
  <2>1. PICK u \in UidNumbers : Enter(u) /\ Unnoticed
    BY <1>4
  <2>2. UNCHANGED <<hub, accounts, developers, cycle, users, live>>
    BY <2>1 DEF Enter, Outside, Unnoticed
  <2>3. PICK row : ldap' = With(ldap, u, row)
    BY <2>1 DEF Enter
  <2>4. DOMAIN ldap' \subseteq UidNumbers /\ IsFiniteSet(DOMAIN ldap')
    BY <1>1, <2>3, OneMore DEF Listed
  <2> QED
    BY <1>1, <2>2, <2>4 DEF Listed, CycleSound
<1>5. CASE \E n \in Tools : RetireTool(n) \/ ReturnTool(n)
  <2>1. PICK n \in Tools : RetireTool(n) \/ ReturnTool(n)
    BY <1>5
  <2>2. UNCHANGED <<hub, ldap, accounts, developers, cycle, users>>
    BY <2>1 DEF RetireTool, ReturnTool, mirrorVars
  <2>3. live' \subseteq Tools
    BY <1>1, <2>1 DEF RetireTool, ReturnTool, Listed
  <2> QED
    BY <1>2, <2>2, <2>3
<1>6. CASE BeginCycle /\ Mirroring
  <2>1. UNCHANGED <<hub, ldap, accounts, developers, users, live>> /\ cycle'.seen = {}
    BY <1>6 DEF BeginCycle, Mirroring, worldVars
  <2> QED
    BY <1>1, <2>1 DEF Listed, CycleSound
<1>7. CASE StorePage /\ Mirroring
  <2>1. UNCHANGED <<hub, ldap, developers, users, live>>
    BY <1>7 DEF StorePage, Mirroring, worldVars
  <2>2. DOMAIN accounts' \subseteq ToolhubIds /\ IsFiniteSet(DOMAIN accounts') /\ CycleSound'
    BY <1>7, StorePageKeeps DEF CycleSound
  <2> QED
    BY <1>1, <2>1, <2>2 DEF Listed
<1>8. CASE ReplaceDevelopers /\ Mirroring
  <2>1. UNCHANGED <<hub, ldap, accounts, cycle, users, live>> /\ developers' = ldap
    BY <1>8 DEF ReplaceDevelopers, Mirroring, worldVars
  <2> QED
    BY <1>1, <2>1 DEF Listed, CycleSound
<1>9. ASSUME UNCHANGED <<worldVars, mirrorVars, live>>, DOMAIN users' = DOMAIN users
      PROVE  Listed' /\ CycleSound'
  BY <1>1, <1>2, <1>9 DEF worldVars, mirrorVars, Listed
<1>10. CASE ReadInput \/ RefreshDies
  BY <1>9, <1>10 DEF ReadInput, RefreshDies
<1>11. CASE Publish
  BY <1>9, <1>11, PublishSettles DEF Publish
<1>12. CASE PublishUserSpace
  BY <1>9, <1>12 DEF PublishUserSpace
<1>13. CASE Rebuild
  BY <1>9, <1>13, SynchronizeDevelops DEF Rebuild, Inv
<1>14. CASE \E t \in Visitors : SignIn(t)
  <2>1. PICK t \in Visitors : SignIn(t)
    BY <1>14
  <2>2. UNCHANGED <<hub, ldap, accounts, developers, cycle, live>> /\ t \in DOMAIN hub
    BY <2>1 DEF SignIn, worldVars, mirrorVars
  <2>3. \E row : users' = With(users, t, row)
    BY <2>1 DEF SignIn
  <2>4. DOMAIN users' \subseteq ToolhubIds /\ IsFiniteSet(DOMAIN users')
    BY <1>1, <2>2, <2>3, OneMore DEF Listed
  <2> QED
    BY <1>1, <2>2, <2>4 DEF Listed, CycleSound
<1>15. CASE \E t \in Visitors : OpenProfile(t) \/ OpenDigests(t)
  BY <1>9, <1>15, LinkUserDevelops DEF OpenProfile, OpenDigests
<1>16. CASE \E t \in Visitors, u \in UidNumbers : StartChallenge(t, u) \/ ExpireChallenge(t, u)
  BY <1>9, <1>16, LinkUserDevelops DEF StartChallenge, ExpireChallenge
<1>17. CASE \E t \in Visitors, u \in UidNumbers : CompleteChallenge(t, u)
  <2>1. PICK t \in Visitors, u \in UidNumbers : CompleteChallenge(t, u)
    BY <1>17
  <2>2. UNCHANGED <<worldVars, mirrorVars, live>>
    BY <2>1 DEF CompleteChallenge
  <2> QED
    BY <1>9, <2>1, <2>2, CompleteChallengeDevelops
<1> QED
  BY <1>3, <1>4, <1>5, <1>6, <1>7, <1>8, <1>10, <1>11, <1>12, <1>13, <1>14, <1>15, <1>16, <1>17
  DEF IdentityNext

LEMMA InvInit == IdentityInit => Inv
<1> SUFFICES ASSUME IdentityInit PROVE Inv
  OBVIOUS
<1> USE DEF IdentityInit, MirrorsInit
<1>1. Listed
  BY MirrorsAssumption, FS_EmptySet DEF Listed
<1>2. AGraph(NoGraph)
  <2> DEFINE ids == [ns \in Namespaces |-> <<>>]
             binds == [a \in Accounts |-> Unbound]
  <2>1. /\ DOMAIN ids = Namespaces /\ ids = [ns \in Namespaces |-> ids[ns]]
        /\ DOMAIN binds = Accounts /\ binds = [a \in Accounts |-> binds[a]]
    OBVIOUS
  <2>2. NoGraph = [ids |-> ids, keys |-> <<>>, binds |-> binds]
    BY DEF NoGraph
  <2>3. <<>> \in Seq({})
    OBVIOUS
  <2> HIDE DEF ids, binds
  <2> QED
    BY <2>1, <2>2, <2>3 DEF AGraph
<1>3. Firm(NoGraph) /\ WellBound(NoGraph)
  BY Apart DEF NoGraph, Firm, FirmRows, WellBound, Unbound, Binding
<1>4. Stated
  BY DEF Stated
<1> QED
  BY <1>1, <1>2, <1>3, <1>4 DEF Inv, Sound

LEMMA InvStep ==
    ASSUME Inv, [IdentityNext]_identityVars
    PROVE  Inv'
<1>1. CASE IdentityNext
  <2>1. Sound(graph)'
    BY <1>1, NextDevelops DEF Develops
  <2> QED
    BY <1>1, <2>1, NextLists, NextStates DEF Inv, CycleSound
<1>2. CASE UNCHANGED identityVars
  BY <1>2 DEF identityVars, worldVars, mirrorVars, derivedVars, Inv, Listed, Stated
<1> QED
  BY <1>1, <1>2

LEMMA InvHolds == IdentitySpec => []Inv
<1> QED
  BY InvInit, InvStep, PTL DEF IdentitySpec

----------------------------------------------------------------------------
(* The theorems. *)

\* No writer takes an immutable id from its owner (ensure_person, _upsert_identifier), and
\* no finished generation prunes an account that exists (_store_page).
THEOREM IdsStay == IdentitySpec => NothingLost
<1>1. ASSUME Inv, [IdentityNext]_identityVars PROVE [\A ns \in Stable : \A v \in DOMAIN graph.ids[ns] :
         /\ v \in DOMAIN graph.ids'[ns]
         /\ Owner(graph.ids', ns, v) = Owner(graph.ids, ns, v)]_graph
  <2>1. CASE IdentityNext
    <3>1. Grows(graph, graph') /\ Firm(graph)
      BY <1>1, <2>1, NextDevelops DEF Develops, Inv, Sound
    <3> SUFFICES ASSUME NEW ns \in Stable, NEW v \in DOMAIN graph.ids[ns]
                 PROVE  /\ v \in DOMAIN graph.ids'[ns]
                        /\ Owner(graph.ids', ns, v) = Owner(graph.ids, ns, v)
      OBVIOUS
    <3>2. Owner(graph.ids, ns, v) # Nobody
      BY <3>1 DEF Firm, FirmRows, Owner
    <3>3. Owner(graph.ids', ns, v) = Owner(graph.ids, ns, v)
      BY <3>1, <3>2 DEF Grows
    <3>4. v \in DOMAIN graph.ids'[ns]
      BY <3>2, <3>3 DEF Owner
    <3> QED
      BY <3>3, <3>4
  <2>2. CASE UNCHANGED identityVars
    BY <2>2 DEF identityVars
  <2> QED
    BY <1>1, <2>1, <2>2
<1>2. ASSUME Inv, [IdentityNext]_identityVars
      PROVE  [\A t \in DOMAIN accounts : t \in DOMAIN hub => t \in DOMAIN accounts']_accounts
  <2>1. CASE StorePage
    BY <1>2, <2>1, StorePageKeeps
  <2>2. CASE ~StorePage /\ IdentityNext
    <3>1. accounts' = accounts
      BY <2>2 DEF IdentityNext, Register, Amend, Close, Enter, Outside, RetireTool, ReturnTool, BeginCycle,
                  ReplaceDevelopers, ReadInput, Publish, RefreshDies, PublishUserSpace, Rebuild, SignIn,
                  OpenProfile, OpenDigests, StartChallenge, CompleteChallenge, ExpireChallenge, mirrorVars
    <3> QED
      BY <3>1
  <2>3. CASE UNCHANGED identityVars
    BY <2>3 DEF identityVars, mirrorVars
  <2> QED
    BY <1>2, <2>1, <2>2, <2>3
<1> QED
  BY <1>1, <1>2, InvHolds, PTL DEF IdentitySpec, NothingLost, StableStays, LiveKept

\* Whoever is verified for an account owns its immutable id, whichever of the writers
\* bound it (bind_toolforge_account, _sync_toolhub_bindings).
THEOREM VerifiedOwn == IdentitySpec => []BindingsOwned
<1>1. ASSUME Inv PROVE BindingsOwned
  BY <1>1 DEF Inv, Sound, WellBound, BindingsOwned, VerifiedPerson
<1> QED
  BY <1>1, InvHolds, PTL

\* While the stored fingerprint is that of the present bindings, memberships and tools, the
\* evidence states exactly the memberships of bound accounts (_sync_toolforge_relationships).
THEOREM EvidenceFollows == IdentitySpec => []RelationshipsFollow
<1>1. ASSUME Inv PROVE RelationshipsFollow
  <2> SUFFICES ASSUME relMarker = {RelationshipInput(graph)} PROVE evidence = Rows(graph)
    BY DEF RelationshipsFollow, Current
  <2>1. Listed /\ Sound(graph) /\ Stated
    BY <1>1 DEF Inv
  <2>2. \A e : e \in evidence <=> e \in Rows(graph)
    BY <2>1, RowsSaid DEF Stated
  <2> QED
    BY <2>2
<1> QED
  BY <1>1, InvHolds, PTL

\* A developer account that names its Wikimedia account is neither taken from LDAP nor
\* connected to another one.  Where one is connected elsewhere and back again with a weekly
\* rebuild in between, the marker of the refresh still is that of the present input, and the
\* rebuild, which does not touch it, may have bound the account by what LDAP said meanwhile.
GlobalsStay ==
    \A u \in DOMAIN developers : developers[u].global # None =>
        u \in DOMAIN developers' /\ developers'[u].global = developers[u].global

\* Every account a stored marker speaks of, or a refresh under way has read, is still
\* connected as it was; those of the marker are settled.
Promised ==
    /\ \A m \in refresh : \A u \in DOMAIN m.developers : m.developers[u].global # None =>
         u \in DOMAIN developers /\ developers[u].global = m.developers[u].global
    /\ \A m \in marker : \A u \in DOMAIN m.developers : m.developers[u].global # None =>
         /\ u \in DOMAIN developers /\ developers[u].global = m.developers[u].global
         /\ Settles(graph, u)

LEMMA DevelopersMove ==
    ASSUME IdentityNext, developers' # developers
    PROVE  refresh' = refresh /\ graph' = graph /\ marker' = marker
<1>1. (BeginCycle \/ StorePage \/ ReplaceDevelopers) /\ Mirroring
  BY DEF IdentityNext, Register, Amend, Close, Enter, Outside, RetireTool, ReturnTool,
         ReadInput, Publish, RefreshDies, PublishUserSpace, Rebuild, SignIn,
         OpenProfile, OpenDigests, StartChallenge, CompleteChallenge, ExpireChallenge, mirrorVars
<1>2. ReplaceDevelopers
  BY <1>1 DEF BeginCycle, StorePage
<1> QED
  BY <1>1, <1>2 DEF ReplaceDevelopers, Mirroring, derivedVars

LEMMA MarkerMoves ==
    ASSUME IdentityNext, marker' # marker
    PROVE  Publish
BY DEF IdentityNext, Unnoticed, RetireTool, ReturnTool, Mirroring,
       ReadInput, RefreshDies, PublishUserSpace, Rebuild, SignIn,
       OpenProfile, OpenDigests, StartChallenge, CompleteChallenge, ExpireChallenge, derivedVars

LEMMA RefreshMoves ==
    ASSUME IdentityNext, refresh' # refresh
    PROVE  refresh' \subseteq refresh \cup {Input}
BY DEF IdentityNext, Unnoticed, RetireTool, ReturnTool, Mirroring, Publish,
       ReadInput, RefreshDies, PublishUserSpace, Rebuild, SignIn,
       OpenProfile, OpenDigests, StartChallenge, CompleteChallenge, ExpireChallenge

LEMMA PromisedStep ==
    ASSUME Inv, Promised, [IdentityNext]_identityVars, [GlobalsStay]_identityVars
    PROVE  Promised'
<1>1. CASE UNCHANGED identityVars
  <2>1. UNCHANGED <<refresh, marker, developers, graph>>
    BY <1>1 DEF identityVars, mirrorVars, derivedVars
  <2> QED
    BY <2>1 DEF Promised, Settles
<1>2. CASE IdentityNext /\ GlobalsStay /\ developers' # developers
  <2>1. refresh' = refresh /\ graph' = graph /\ marker' = marker
    BY <1>2, DevelopersMove
  <2>2. ASSUME NEW m \in refresh, NEW u \in DOMAIN m.developers, m.developers[u].global # None
        PROVE  u \in DOMAIN developers' /\ developers'[u].global = m.developers[u].global
    <3>1. u \in DOMAIN developers /\ developers[u].global = m.developers[u].global
      BY <2>2 DEF Promised
    <3> QED
      BY <1>2, <2>2, <3>1 DEF GlobalsStay
  <2>3. ASSUME NEW m \in marker, NEW u \in DOMAIN m.developers, m.developers[u].global # None
        PROVE  /\ u \in DOMAIN developers' /\ developers'[u].global = m.developers[u].global
               /\ Settles(graph, u)'
    <3>1. /\ u \in DOMAIN developers /\ developers[u].global = m.developers[u].global
          /\ Settles(graph, u)
      BY <2>3 DEF Promised
    <3>2. u \in DOMAIN developers' /\ developers'[u].global = developers[u].global
      BY <1>2, <2>3, <3>1 DEF GlobalsStay
    <3> QED
      BY <2>1, <3>1, <3>2 DEF Settles
  <2> QED
    BY <2>1, <2>2, <2>3 DEF Promised
<1>3. CASE IdentityNext /\ developers' = developers
  <2>1. \A g, u : Settles(g, u)' <=> Settles(g', u)
    BY <1>3 DEF Settles
  <2>2. ASSUME NEW m \in refresh', NEW u \in DOMAIN m.developers, m.developers[u].global # None
        PROVE  u \in DOMAIN developers /\ developers[u].global = m.developers[u].global
    <3>1. Input.developers = developers
      BY DEF Input
    <3>2. m \in refresh \/ m = Input
      BY <1>3, RefreshMoves
    <3> QED
      BY <2>2, <3>1, <3>2 DEF Promised
  <2>3. ASSUME NEW m \in marker', NEW u \in DOMAIN m.developers, m.developers[u].global # None
        PROVE  /\ u \in DOMAIN developers /\ developers[u].global = m.developers[u].global
               /\ Settles(graph', u)
    <3>1. CASE marker' = marker
      BY <1>3, <2>3, <3>1, NextDevelops DEF Promised, Develops
    <3>2. CASE marker' # marker
      <4>1. Publish
        BY <1>3, <3>2, MarkerMoves
      <4>2. m \in refresh
        BY <2>3, <4>1 DEF Publish
      <4>3. u \in DOMAIN developers /\ developers[u].global = m.developers[u].global
        BY <2>3, <4>2 DEF Promised
      <4> QED
        BY <2>3, <4>1, <4>3, PublishSettles
    <3> QED
      BY <3>1, <3>2
  <2> QED
    BY <1>3, <2>1, <2>2, <2>3 DEF Promised
<1> QED
  BY <1>1, <1>2, <1>3

\* The graph and what is derived from it tell one story: as long as LDAP's Wikimedia ids
\* stay, the marker of the present input says that every account LDAP connects is bound to
\* the owner of that id, or its number was proven to be somebody else's
\* (_publish_identity_projection, _sync_toolforge_bindings).
THEOREM OneStory == IdentitySpec /\ [][GlobalsStay]_identityVars => []GraphAgrees
<1>1. IdentityInit => Promised
  BY DEF IdentityInit, Promised
<1>2. IdentitySpec /\ [][GlobalsStay]_identityVars => []Promised
  BY <1>1, InvHolds, PromisedStep, PTL DEF IdentitySpec
<1>3. ASSUME Promised PROVE PublishedBinds
  <2> SUFFICES ASSUME marker = {Input}, NEW u \in DOMAIN developers, developers[u].global # None
               PROVE  LET owner == Owner(graph.ids, "globalId", developers[u].global) IN
                      \/ VerifiedPerson(graph, <<"toolforge", u>>) = owner
                      \/ Disagree(Owner(graph.ids, "uidNumber", u), owner)
    BY DEF PublishedBinds
  <2>1. Input.developers = developers
    BY DEF Input
  <2>2. Settles(graph, u)
    BY <1>3, <2>1 DEF Promised
  <2> QED
    BY <2>2 DEF Settles
<1> QED
  BY <1>2, <1>3, VerifiedOwn, EvidenceFollows, PTL DEF GraphAgrees
============================================================================
