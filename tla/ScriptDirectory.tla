-------------------------- MODULE ScriptDirectory --------------------------
(***************************************************************************)
(* What a stored page is (userscripts.py), which pages are one script      *)
(* (userscript_directory.py), who loads it, and the catalogue record it    *)
(* becomes (userscript_projection.py, userscript_toolinfo.py).  A page is  *)
(* its number in title order; a body is the set of its own lines, the      *)
(* pages it loads and a comment.                                           *)
(***************************************************************************)
EXTENDS Integers, Sequences, FiniteSets, SequencesExt

CONSTANTS
    Pages,          \* pages of one wiki's user space, numbers in title order
    Owner,          \* [Pages -> account]
    Basename,       \* [Pages -> name below the owner]
    Css,            \* pages the wiki parses as stylesheets
    Name,           \* [Pages -> the catalogue name its owner and basename slug to, or None]
    Taken,          \* catalogue names that belong to another source
    Bodies,
    ShimMaxOtherLines, StubMaxLines, CrowdedOwners, IndependentDemand,
    NearCopy,       \* NEAR_COPY_SIMILARITY, in percent
    None

ASSUME DirectoryAssumption ==
    /\ Pages \subseteq Nat \ {0} /\ IsFiniteSet(Pages)
    /\ Bodies # {} /\ \A b \in Bodies : IsFiniteSet(b.own) /\ b.loads \subseteq Pages
    /\ {ShimMaxOtherLines, StubMaxLines} \subseteq Nat
    /\ {CrowdedOwners, IndependentDemand} \subseteq Nat \ {0}
    /\ NearCopy \in 1 .. 100

Names == {Name[p] : p \in Pages} \ {None}

\* user_script_page: rev 0 is no row, born 0 an undated page.
Rows == [rev : Nat, body : Bodies, rank : Nat, born : Nat, gone : BOOLEAN]

---------------------------------------------------------------------------
(* One body.                                                                *)

Lines(b) == {<<"own", l>> : l \in b.own} \cup {<<"load", p>> : p \in b.loads}

Role(b) ==
    IF Lines(b) = {} THEN "empty"
    ELSE IF b.loads # {} /\ Cardinality(b.own) <= ShimMaxOtherLines THEN "shim"
    ELSE IF Cardinality(Lines(b)) <= StubMaxLines THEN "stub"
    ELSE "script"

\* Comments do not count.
Fingerprint(b) == Lines(b)

Shared(b, c) == Cardinality(Lines(b) \cap Lines(c))
Either(b, c) == Cardinality(Lines(b) \cup Lines(c))
Near(b, c) == Shared(b, c) > 0 /\ 100 * Shared(b, c) >= NearCopy * Either(b, c)

---------------------------------------------------------------------------
(* The corpus of one wiki.                                                  *)

Live(rows) == {p \in Pages : rows[p].rev > 0 /\ ~rows[p].gone}
Candidates(rows) == {p \in Live(rows) : Role(rows[p].body) = "script"}

\* Candidate.rank: the wiki's date, else the discovery rank behind every date; then the title.
Earlier(rows, p, q) ==
    LET r == rows[p]  s == rows[q]
    IN  IF (r.born = 0) # (s.born = 0) THEN r.born > 0
        ELSE LET key == IF r.born = 0 THEN r.rank ELSE r.born
                 other == IF s.born = 0 THEN s.rank ELSE s.born
             IN  key < other \/ (key = other /\ p < q)
Oldest(rows, pages) == CHOOSE p \in pages : \A q \in pages \ {p} : Earlier(rows, p, q)

\* demand: who loads a page, other than its owner.  A source counts while it has a row.
Demand(rows, p) ==
    {Owner[q] : q \in {q \in Pages : /\ rows[q].rev > 0 /\ p \in rows[q].body.loads
                                     /\ Owner[q] # Owner[p]}}

\* _demand_for: the loads of every page folded onto an original.
DemandFor(rows, home, p) ==
    UNION {Demand(rows, q) : q \in {q \in DOMAIN home : home[q] = p}}

---------------------------------------------------------------------------
(* collapse: every script page has a home, the original it is an instance  *)
(* of.                                                                      *)

FoldExactCopies(rows) ==
    [p \in Candidates(rows) |->
        Oldest(rows, {q \in Candidates(rows) :
                         Fingerprint(rows[q].body) = Fingerprint(rows[p].body)})]

Originals(home) == {p \in DOMAIN home : home[p] = p}

Closer(rows, p, a, b) ==
    LET x == Shared(rows[a].body, rows[p].body) * Either(rows[b].body, rows[p].body)
        y == Shared(rows[b].body, rows[p].body) * Either(rows[a].body, rows[p].body)
    IN  x > y \/ (x = y /\ Earlier(rows, a, b))

Like(rows, pages, p) == {a \in pages : Earlier(rows, a, p) /\ Near(rows[a].body, rows[p].body)}
Closest(rows, p, hosts) == CHOOSE a \in hosts : \A b \in hosts \ {a} : Closer(rows, p, a, b)

\* In creation order, the originals that none accepted before them is like: no set but one.
Accepted(rows, home) ==
    CHOOSE pages \in SUBSET Originals(home) :
        pages = {p \in Originals(home) : Like(rows, pages, p) = {}}

\* Each original onto the closest of those accepted before it, or accepted.
FoldChained(rows, home) ==
    LET like(p) == Like(rows, Originals(home), p)
        host == [p \in Originals(home) |-> IF like(p) = {} THEN p ELSE Closest(rows, p, like(p))]
    IN  [p \in DOMAIN home |-> host[host[home[p]]]]
FoldNearCopies(rows, home) ==
    LET like(p) == Like(rows, Accepted(rows, home), p)
        host == [p \in Originals(home) |-> IF like(p) = {} THEN p ELSE Closest(rows, p, like(p))]
    IN  [p \in DOMAIN home |-> host[home[p]]]

\* Later originals under a crowded file name, onto the first, unless somebody loads them.
FoldCrowdedNames(rows, home) ==
    LET named(p) == {q \in Originals(home) : Basename[q] = Basename[p]}
        crowded(p) == Cardinality({Owner[q] : q \in named(p)}) >= CrowdedOwners
        loaded(p) == Cardinality(DemandFor(rows, home, p)) >= IndependentDemand
        onto(p) == IF crowded(p) /\ ~loaded(p) THEN Oldest(rows, named(p)) ELSE p
    IN  [p \in DOMAIN home |-> onto(home[p])]

Collapse(rows) == FoldCrowdedNames(rows, FoldNearCopies(rows, FoldExactCopies(rows)))

---------------------------------------------------------------------------
(* project: one entry for each original, the loaded ones first, those most *)
(* loaded before the others.                                                *)

TierOf(rows, home, p) == IF DemandFor(rows, home, p) # {} THEN "active" ELSE "archive"

Entry(rows, home, p) ==
    [page |-> p, tier |-> TierOf(rows, home, p), born |-> rows[p].born,
     instances |-> {q \in DOMAIN home : home[q] = p} \ {p}]

MoreLoaded(rows, home, p, q) ==
    LET m == Cardinality(DemandFor(rows, home, p))
        n == Cardinality(DemandFor(rows, home, q))
    IN  m > n \/ (m = n /\ Earlier(rows, p, q))
RankedByDemand(rows, home) ==
    [k \in 1 .. Cardinality(Originals(home)) |->
        CHOOSE p \in Originals(home) :
            Cardinality({q \in Originals(home) : MoreLoaded(rows, home, q, p)}) = k - 1]

Directory(rows) ==
    LET home == Collapse(rows)
        order == RankedByDemand(rows, home)
    IN  [i \in DOMAIN order |-> Entry(rows, home, order[i])]

---------------------------------------------------------------------------
(* synchronize: the catalogue records of a directory.                       *)

Record(entry) == [page |-> entry.page, lifecycle |-> entry.tier, created |-> entry.born]

\* _wanted: stylesheets and pages without a name are not tools; of two with one name the first.
Named(directory, n) == {i \in DOMAIN directory : directory[i].page \notin Css /\ Name[directory[i].page] = n}
Wanted(directory) ==
    [n \in {n \in Names : Named(directory, n) # {}} |->
        Record(directory[CHOOSE i \in Named(directory, n) :
                             \A j \in Named(directory, n) : i <= j])]

\* _write: what the directory wants, but for names that are not this lane's to write.
WriteRecords(catalog, directory) ==
    LET wanted == Wanted(directory)
    IN  [n \in Names |-> IF n \in Taken \/ n \notin DOMAIN wanted THEN None ELSE wanted[n]]
=============================================================================
