---------------------------- MODULE JobsProofs ----------------------------
(***************************************************************************)
(* What the scheduled jobs guarantee: the job of the user-script lane, and *)
(* the locks they all run under.                                           *)
(*                                                                         *)
(* Of the user-script lane, for any wiki and any bounds: the directory it  *)
(* makes keeps apart what is not alike, and, where one road names the      *)
(* pages and reads succeed, no page is missed between a sweep of many runs *)
(* and the watches after it.                                               *)
(*                                                                         *)
(* Of the locks, two exclusions are proved, for any set of jobs and pods,  *)
(* any sharing of the locks and any number of faults, each from an         *)
(* invariant about who owns what: a lock directory belongs to the one      *)
(* guard that is past its mkdir, and the advisory lock to the one child    *)
(* that works with the lock's session.  The first has a hypothesis, which  *)
(* names what the code relies on: that two invocations are never           *)
(* reclaiming the same directory.                                          *)
(***************************************************************************)
EXTENDS JobRuns, Userscripts, FiniteSetTheorems, WellFoundedInduction, SequenceTheorems, TLAPS

---------------------------------------------------------------------------
(***************************************************************************)
(* The census: least elements                                              *)
(***************************************************************************)
\* A nonempty set of naturals has a least element.
LEMMA LeastNumber ==
    ASSUME NEW S \in SUBSET Nat, S # {}
    PROVE  \E m \in S : \A n \in S : m <= n
<1>1. PICK m \in S : \A n \in S : ~(<<n, m>> \in OpToRel(<, Nat))
  BY NatLessThanWellFounded, WFMin
<1>2. \A n \in S : ~(n < m)
  BY <1>1 DEF OpToRel
<1> QED
  BY <1>2

\* A nonempty finite set has an element that no other precedes in a strict order.
LEMMA FirstElement ==
    ASSUME NEW S, IsFiniteSet(S), S # {}, NEW R,
           \A a \in S : <<a, a>> \notin R,
           \A a, b, c \in S : <<a, b>> \in R /\ <<b, c>> \in R => <<a, c>> \in R
    PROVE  \E m \in S : \A q \in S : <<q, m>> \notin R
<1> DEFINE Below(a) == {q \in S : <<q, a>> \in R}
           Sizes == {Cardinality(Below(a)) : a \in S}
<1>1. \A a \in S : IsFiniteSet(Below(a)) /\ Cardinality(Below(a)) \in Nat
  <2> TAKE a \in S
  <2>1. Below(a) \subseteq S
    OBVIOUS
  <2>2. IsFiniteSet(Below(a))
    BY <2>1, FS_Subset
  <2> QED
    BY <2>2, FS_CardinalityType
<1>2. Sizes \in SUBSET Nat /\ Sizes # {}
  <2> HIDE DEF Below
  <2> QED
    BY <1>1
<1>3. PICK n \in Sizes : \A k \in Sizes : n <= k
  <2> HIDE DEF Sizes
  <2> QED
    BY <1>2, LeastNumber
<1>4. PICK m \in S : n = Cardinality(Below(m))
  BY <1>3
<1>5. ASSUME NEW q \in S, <<q, m>> \in R PROVE FALSE
  <2>1. Below(q) \subseteq Below(m) /\ q \in Below(m) /\ q \notin Below(q)
    BY <1>5
  <2>2. Below(q) # Below(m)
    BY <2>1
  <2>3. Cardinality(Below(q)) < Cardinality(Below(m))
    <3> HIDE DEF Below
    <3> QED
      BY <1>1, <2>1, <2>2, FS_Subset
  <2>4. Cardinality(Below(q)) \in Sizes
    OBVIOUS
  <2> HIDE DEF Below, Sizes
  <2> QED
    BY <1>1, <1>3, <1>4, <2>3, <2>4
<1> QED
  BY <1>5

---------------------------------------------------------------------------
(***************************************************************************)
(* The directory: the order of creation, and likeness                      *)
(***************************************************************************)
\* Of two pages one is earlier, and an order it is.
LEMMA EarlierOrders ==
    ASSUME NEW rows \in [Pages -> Rows]
    PROVE  /\ \A p \in Pages : ~Earlier(rows, p, p)
           /\ \A p, q \in Pages : p # q => Earlier(rows, p, q) \/ Earlier(rows, q, p)
           /\ \A p, q, r \in Pages : Earlier(rows, p, q) /\ Earlier(rows, q, r) => Earlier(rows, p, r)
<1>0. Pages \subseteq Nat
  BY DirectoryAssumption
<1>1. \A p \in Pages : rows[p].born \in Nat /\ rows[p].rank \in Nat
  BY DEF Rows
<1>2. ASSUME NEW p \in Pages PROVE ~Earlier(rows, p, p)
  BY <1>0, <1>1 DEF Earlier
<1>3. ASSUME NEW p \in Pages, NEW q \in Pages, p # q PROVE Earlier(rows, p, q) \/ Earlier(rows, q, p)
  BY <1>0, <1>1, <1>3 DEF Earlier
<1>4. ASSUME NEW p \in Pages, NEW q \in Pages, NEW r \in Pages, Earlier(rows, p, q), Earlier(rows, q, r)
      PROVE  Earlier(rows, p, r)
  BY <1>0, <1>1, <1>4 DEF Earlier
<1> QED
  BY <1>2, <1>3, <1>4

\* The oldest of some pages is one of them and earlier than the others.
LEMMA OldestFirst ==
    ASSUME NEW rows \in [Pages -> Rows], NEW S \in SUBSET Pages, S # {}
    PROVE  Oldest(rows, S) \in S /\ \A q \in S \ {Oldest(rows, S)} : Earlier(rows, Oldest(rows, S), q)
<1> DEFINE R == {e \in Pages \X Pages : Earlier(rows, e[1], e[2])}
<1>1. \A a, b \in Pages : <<a, b>> \in R <=> Earlier(rows, a, b)
  OBVIOUS
<1>2. IsFiniteSet(S)
  BY DirectoryAssumption, FS_Subset
<1>3. PICK m \in S : \A q \in S : <<q, m>> \notin R
  <2>1. \A a \in S : <<a, a>> \notin R
    BY <1>1, EarlierOrders
  <2>2. \A a, b, c \in S : <<a, b>> \in R /\ <<b, c>> \in R => <<a, c>> \in R
    <3> HIDE DEF R
    <3> QED
      BY <1>1, EarlierOrders
  <2> HIDE DEF R
  <2> QED
    BY <1>2, <2>1, <2>2, FirstElement
<1>4. \A q \in S \ {m} : Earlier(rows, m, q)
  <2> HIDE DEF R
  <2> QED
    BY <1>1, <1>3, EarlierOrders
<1> QED
  BY <1>4 DEF Oldest

\* What a function makes of finitely many arguments is finite.
LEMMA ImageFinite ==
    ASSUME NEW S, IsFiniteSet(S), NEW f
    PROVE  IsFiniteSet({f[x] : x \in S})
<1> DEFINE T == {f[x] : x \in S}
           g == [x \in S |-> f[x]]
<1>1. g \in Surjection(S, T)
  BY DEF Surjection
<1> QED
  BY <1>1, FS_Surjection

\* The lines of a body are finitely many.
LEMMA LinesFinite == \A b \in Bodies : IsFiniteSet(Lines(b))
<1> TAKE b \in Bodies
<1>1. IsFiniteSet(b.own) /\ IsFiniteSet(b.loads)
  BY DirectoryAssumption, FS_Subset
<1> DEFINE f == [l \in b.own |-> <<"own", l>>]
           g == [p \in b.loads |-> <<"load", p>>]
<1>2. IsFiniteSet({f[l] : l \in b.own}) /\ IsFiniteSet({g[p] : p \in b.loads})
  <2> HIDE DEF f, g
  <2> QED
    BY <1>1, ImageFinite
<1>3. Lines(b) = {f[l] : l \in b.own} \cup {g[p] : p \in b.loads}
  BY DEF Lines
<1> HIDE DEF f, g
<1> QED
  BY <1>2, <1>3, FS_Union

\* How much two bodies share, and have between them.
LEMMA SharedCounts ==
    ASSUME NEW b \in Bodies, NEW c \in Bodies
    PROVE  /\ Shared(b, c) \in Nat /\ Either(b, c) \in Nat /\ Shared(b, c) <= Either(b, c)
           /\ Shared(b, c) = Shared(c, b) /\ Either(b, c) = Either(c, b)
<1> DEFINE X == Lines(b)  Y == Lines(c)
<1>0. IsFiniteSet(X) /\ IsFiniteSet(Y)
  BY LinesFinite
<1> HIDE DEF X, Y
<1>1. IsFiniteSet(X \cap Y) /\ IsFiniteSet(X \cup Y)
  BY <1>0, FS_Subset, FS_Union
<1>2. X \cap Y = Y \cap X /\ X \cup Y = Y \cup X /\ X \cap Y \subseteq X \cup Y
  OBVIOUS
<1>3. Cardinality(X \cap Y) \in Nat /\ Cardinality(X \cup Y) \in Nat /\ Cardinality(X \cap Y) <= Cardinality(X \cup Y)
  BY <1>1, <1>2, FS_Subset, FS_CardinalityType
<1> QED
  BY <1>2, <1>3 DEF Shared, Either, X, Y

\* A body with lines is like itself; likeness is mutual, and a matter of the lines alone.
LEMMA NearSelf ==
    ASSUME NEW b \in Bodies, Lines(b) # {}
    PROVE  Near(b, b)
<1>1. Lines(b) \cap Lines(b) = Lines(b) /\ Lines(b) \cup Lines(b) = Lines(b)
  OBVIOUS
<1>2. Cardinality(Lines(b)) \in Nat \ {0}
  BY LinesFinite, FS_EmptySet, FS_CardinalityType
<1> DEFINE n == Cardinality(Lines(b))
<1>3. Shared(b, b) = n /\ Either(b, b) = n
  BY <1>1 DEF Shared, Either
<1>4. n \in Nat /\ n > 0 /\ NearCopy \in Nat /\ NearCopy <= 100
  BY <1>2, DirectoryAssumption
<1> HIDE DEF n
<1>5. 100 * n >= NearCopy * n
  BY <1>4
<1> QED
  BY <1>3, <1>4, <1>5 DEF Near

LEMMA NearMutual ==
    ASSUME NEW b \in Bodies, NEW c \in Bodies, Near(b, c)
    PROVE  Near(c, b)
  BY SharedCounts DEF Near

LEMMA NearByLines ==
    ASSUME NEW b, NEW c, NEW d, Lines(b) = Lines(c)
    PROVE  /\ Near(b, d) => Near(c, d)
           /\ Near(d, b) => Near(d, c)
  BY DEF Near, Shared, Either

\* Fractions, compared by cross-multiplication, are in order.
LEMMA Fractions ==
    ASSUME NEW s \in Nat, NEW e \in Nat \ {0}, NEW t \in Nat, NEW f \in Nat \ {0},
           NEW u \in Nat, NEW g \in Nat \ {0}, s * f >= t * e, t * g >= u * f
    PROVE  /\ s * g >= u * e
           /\ s * f > t * e \/ t * g > u * f => s * g > u * e
<1> DEFINE x == s * g  y == u * e
<1>1. x \in Nat /\ y \in Nat
  OBVIOUS
<1>2. (s * f) * g >= (t * e) * g /\ (t * g) * e >= (u * f) * e
  <2> DEFINE a == s * f  b == t * e  c == t * g  d == u * f
  <2>1. a \in Nat /\ b \in Nat /\ c \in Nat /\ d \in Nat /\ a >= b /\ c >= d
    OBVIOUS
  <2> HIDE DEF a, b, c, d
  <2>2. a * g >= b * g /\ c * e >= d * e
    BY <2>1
  <2> QED
    BY <2>2 DEF a, b, c, d
<1>3. (s * f) * g = x * f /\ (t * e) * g = (t * g) * e /\ (u * f) * e = y * f
  OBVIOUS
<1>4. x * f >= y * f
  <2> DEFINE a == (s * f) * g  b == (t * e) * g  c == (t * g) * e  d == (u * f) * e
  <2>1. a \in Nat /\ b \in Nat /\ c \in Nat /\ d \in Nat
    OBVIOUS
  <2>2. a >= b /\ b = c /\ c >= d /\ a = x * f /\ d = y * f
    BY <1>2, <1>3, Zenon DEF a, b, c, d
  <2> HIDE DEF a, b, c, d, x, y
  <2> QED
    BY <1>1, <2>1, <2>2
<1>5. ASSUME s * f > t * e \/ t * g > u * f PROVE x * f > y * f
  <2> DEFINE a == s * f  b == t * e  c == t * g  d == u * f
  <2>1. a \in Nat /\ b \in Nat /\ c \in Nat /\ d \in Nat /\ a >= b /\ c >= d
    OBVIOUS
  <2>2. a > b \/ c > d
    BY <1>5
  <2>3. a * g = x * f /\ b * g = c * e /\ d * e = y * f
    BY <1>3, Zenon DEF a, b, c, d
  <2> HIDE DEF a, b, c, d, x, y
  <2>4. a * g >= b * g /\ c * e >= d * e
    BY <2>1
  <2>5. a > b => a * g > b * g
    BY <2>1
  <2>6. c > d => c * e > d * e
    BY <2>1
  <2>7. a * g \in Nat /\ b * g \in Nat /\ c * e \in Nat /\ d * e \in Nat
    BY <2>1
  <2> QED
    BY <1>1, <2>2, <2>3, <2>4, <2>5, <2>6, <2>7
<1> HIDE DEF x, y
<1>6. x >= y
  <2>1. y > x => y * f > x * f
    BY <1>1
  <2> QED
    BY <1>1, <1>4, <2>1
<1>7. (s * f > t * e \/ t * g > u * f) => x > y
  <2>1. x = y => x * f = y * f
    OBVIOUS
  <2>2. x * f \in Nat /\ y * f \in Nat
    BY <1>1
  <2> QED
    BY <1>1, <1>5, <1>6, <2>1, <2>2
<1> QED
  BY <1>6, <1>7 DEF x, y

\* The closest of some pages that a page is like is one of them.
LEMMA ClosestIsOne ==
    ASSUME NEW rows \in [Pages -> Rows], NEW p \in Pages, NEW hosts \in SUBSET Pages, hosts # {},
           \A a \in hosts : Near(rows[a].body, rows[p].body)
    PROVE  Closest(rows, p, hosts) \in hosts
<1> DEFINE s == [a \in Pages |-> Shared(rows[a].body, rows[p].body)]
           e == [a \in Pages |-> Either(rows[a].body, rows[p].body)]
           R == {h \in Pages \X Pages : Closer(rows, p, h[1], h[2])}
<1>1. \A a \in Pages : rows[a].body \in Bodies
  BY DEF Rows
<1>2. \A a \in hosts : a \in Pages /\ s[a] \in Nat \ {0} /\ e[a] \in Nat \ {0}
  <2> TAKE a \in hosts
  <2>1. a \in Pages
    OBVIOUS
  <2>2. /\ Shared(rows[a].body, rows[p].body) \in Nat /\ Either(rows[a].body, rows[p].body) \in Nat
        /\ Shared(rows[a].body, rows[p].body) <= Either(rows[a].body, rows[p].body)
    BY <1>1, <2>1, SharedCounts
  <2>3. Shared(rows[a].body, rows[p].body) > 0
    BY DEF Near
  <2> QED
    BY <2>1, <2>2, <2>3
<1>3. \A a, b \in Pages : <<a, b>> \in R <=>
          (s[a] * e[b] > s[b] * e[a] \/ (s[a] * e[b] = s[b] * e[a] /\ Earlier(rows, a, b)))
  BY DEF Closer
<1> HIDE DEF s, e, R
<1>4. \A a, b \in hosts : s[a] * e[b] \in Nat
  BY <1>2
<1>5. \A a \in hosts : <<a, a>> \notin R
  BY <1>2, <1>3, <1>4, EarlierOrders
<1>6. ASSUME NEW a \in hosts, NEW b \in hosts, NEW c \in hosts, <<a, b>> \in R, <<b, c>> \in R
      PROVE  <<a, c>> \in R
  <2>1. s[a] * e[b] >= s[b] * e[a] /\ s[b] * e[c] >= s[c] * e[b]
    BY <1>2, <1>3, <1>4, <1>6
  <2>2. /\ s[a] * e[c] >= s[c] * e[a]
        /\ s[a] * e[b] > s[b] * e[a] \/ s[b] * e[c] > s[c] * e[b] => s[a] * e[c] > s[c] * e[a]
    BY <1>2, <2>1, Fractions
  <2>3. CASE s[a] * e[b] > s[b] * e[a] \/ s[b] * e[c] > s[c] * e[b]
    BY <1>2, <1>3, <2>2, <2>3
  <2>4. CASE ~(s[a] * e[b] > s[b] * e[a] \/ s[b] * e[c] > s[c] * e[b])
    <3>1. Earlier(rows, a, b) /\ Earlier(rows, b, c)
      BY <1>2, <1>3, <1>6, <2>4
    <3>2. Earlier(rows, a, c)
      BY <1>2, <3>1, EarlierOrders
    <3>3. s[a] * e[c] > s[c] * e[a] \/ s[a] * e[c] = s[c] * e[a]
      BY <1>4, <2>2
    <3> QED
      BY <1>2, <1>3, <3>2, <3>3
  <2> QED
    BY <2>3, <2>4
<1>7. IsFiniteSet(hosts)
  BY DirectoryAssumption, FS_Subset
<1>8. PICK m \in hosts : \A q \in hosts : <<q, m>> \notin R
  BY <1>5, <1>6, <1>7, FirstElement
<1>9. ASSUME NEW b \in hosts \ {m} PROVE Closer(rows, p, m, b)
  <2>1. <<m, b>> \in R
    <3>1. ~(s[b] * e[m] > s[m] * e[b])
      BY <1>2, <1>3, <1>8
    <3>2. s[m] * e[b] = s[b] * e[m] => ~Earlier(rows, b, m)
      BY <1>2, <1>3, <1>8
    <3>3. Earlier(rows, b, m) \/ Earlier(rows, m, b)
      BY <1>2, EarlierOrders
    <3> QED
      BY <1>2, <1>3, <1>4, <3>1, <3>2, <3>3
  <2> QED
    BY <1>2, <2>1 DEF R
<1> QED
  BY <1>9 DEF Closest

\* There is a set of accepted originals: those that none accepted before them is like.
LEMMA SomeAccepted ==
    ASSUME NEW rows \in [Pages -> Rows], NEW all \in SUBSET Pages
    PROVE  \E A \in SUBSET all : A = {p \in all : Like(rows, A, p) = {}}
<1> DEFINE Good(S) == \E A \in SUBSET S : A = {p \in S : Like(rows, A, p) = {}}
           Bad == {S \in SUBSET all : ~Good(S)}
           Sizes == {Cardinality(S) : S \in Bad}
<1>0. \A S \in SUBSET all : IsFiniteSet(S) /\ Cardinality(S) \in Nat
  BY DirectoryAssumption, FS_Subset, FS_CardinalityType
<1>1. SUFFICES ASSUME Bad # {} PROVE FALSE
  OBVIOUS
<1>2. PICK n \in Sizes : \A k \in Sizes : n <= k
  <2>1. Sizes \in SUBSET Nat /\ Sizes # {}
    BY <1>0, <1>1
  <2> HIDE DEF Sizes
  <2> QED
    BY <2>1, LeastNumber
<1>3. PICK S \in Bad : n = Cardinality(S)
  BY <1>2
<1>4. S \in SUBSET all /\ ~Good(S)
  OBVIOUS
<1>5. S # {}
  <2>1. {} = {p \in {} : Like(rows, {}, p) = {}}
    OBVIOUS
  <2> QED
    BY <1>4, <2>1
<1>6. PICK m \in S : \A q \in S \ {m} : Earlier(rows, q, m)
  <2> DEFINE R == {e \in Pages \X Pages : Earlier(rows, e[2], e[1])}
  <2>1. \A a, b \in Pages : <<a, b>> \in R <=> Earlier(rows, b, a)
    OBVIOUS
  <2> HIDE DEF R
  <2>2. \A a \in S : <<a, a>> \notin R
    BY <1>4, <2>1, EarlierOrders
  <2>3. \A a, b, c \in S : <<a, b>> \in R /\ <<b, c>> \in R => <<a, c>> \in R
    BY <1>4, <2>1, EarlierOrders
  <2>4. PICK m \in S : \A q \in S : <<q, m>> \notin R
    BY <1>0, <1>4, <1>5, <2>2, <2>3, FirstElement
  <2>5. \A q \in S \ {m} : Earlier(rows, q, m)
    BY <1>4, <2>1, <2>4, EarlierOrders
  <2> QED
    BY <2>5
<1>7. Good(S \ {m})
  <2>1. S \ {m} \in SUBSET all
    BY <1>4
  <2>2. Cardinality(S \ {m}) < Cardinality(S)
    BY <1>0, <1>4, FS_RemoveElement
  <2>3. S \ {m} \notin Bad
    <3> SUFFICES ASSUME S \ {m} \in Bad PROVE FALSE
      OBVIOUS
    <3>1. Cardinality(S \ {m}) \in Sizes
      OBVIOUS
    <3>2. n <= Cardinality(S \ {m})
      BY <1>2, <3>1
    <3> HIDE DEF Sizes, Bad
    <3> QED
      BY <1>0, <1>3, <1>4, <2>1, <2>2, <3>2
  <2> QED
    BY <2>1, <2>3
<1>8. PICK A \in SUBSET (S \ {m}) : A = {p \in S \ {m} : Like(rows, A, p) = {}}
  BY <1>7
<1> DEFINE B == IF Like(rows, A, m) = {} THEN A \cup {m} ELSE A
<1> HIDE DEF Good, Bad, Sizes
<1>9. \A p \in S : Like(rows, B, p) = Like(rows, A, p)
  <2> TAKE p \in S
  <2>1. ~Earlier(rows, m, p)
    <3>1. p \in Pages /\ m \in Pages
      BY <1>4
    <3> QED
      BY <1>6, <3>1, EarlierOrders
  <2> QED
    BY <2>1 DEF Like
<1>10. B = {p \in S : Like(rows, B, p) = {}}
  <2>1. B = {p \in S : Like(rows, A, p) = {}}
    <3> ASSUME NEW p PROVE p \in B <=> p \in S /\ Like(rows, A, p) = {}
      BY <1>8
    <3> QED
      OBVIOUS
  <2> QED
    BY <1>9, <2>1
<1>11. B \in SUBSET S
  BY <1>8
<1> QED
  BY <1>4, <1>10, <1>11 DEF Good

\* Pages the corpus has are pages with lines.
LEMMA CandidatesHaveLines ==
    ASSUME NEW rows \in [Pages -> Rows]
    PROVE  /\ Candidates(rows) \in SUBSET Pages
           /\ \A p \in Candidates(rows) : rows[p].body \in Bodies /\ Lines(rows[p].body) # {}
  BY DEF Candidates, Live, Rows, Role

\* Copies with the same lines have one home, the oldest of them.
LEMMA ExactCopies ==
    ASSUME NEW rows \in [Pages -> Rows]
    PROVE  LET home == FoldExactCopies(rows)
           IN  /\ DOMAIN home = Candidates(rows)
               /\ \A p \in Candidates(rows) :
                    /\ home[p] \in Originals(home)
                    /\ home[p] = p \/ Earlier(rows, home[p], p)
                    /\ Lines(rows[home[p]].body) = Lines(rows[p].body)
<1> DEFINE C == Candidates(rows)
           Same(p) == {q \in C : Fingerprint(rows[q].body) = Fingerprint(rows[p].body)}
           home == FoldExactCopies(rows)
<1>0. C \in SUBSET Pages
  BY CandidatesHaveLines
<1>1. home = [p \in C |-> Oldest(rows, Same(p))]
  BY DEF FoldExactCopies
<1> HIDE DEF C, home
<1>2. \A p \in C : Same(p) \in SUBSET Pages /\ p \in Same(p)
  BY <1>0
<1>3. \A p \in C : home[p] \in Same(p) /\ \A q \in Same(p) \ {home[p]} : Earlier(rows, home[p], q)
  <2> TAKE p \in C
  <2>1. Same(p) \in SUBSET Pages /\ Same(p) # {}
    BY <1>2
  <2>2. home[p] = Oldest(rows, Same(p))
    BY <1>1
  <2> HIDE DEF Same
  <2> QED
    BY <2>1, <2>2, OldestFirst
<1>4. \A p \in C : home[p] \in C /\ Lines(rows[home[p]].body) = Lines(rows[p].body)
  BY <1>3 DEF Fingerprint
<1>5. \A p \in C : home[home[p]] = home[p]
  <2> TAKE p \in C
  <2>1. Same(home[p]) = Same(p)
    BY <1>4 DEF Fingerprint
  <2>2. home[p] \in C
    BY <1>4
  <2>3. home[home[p]] = Oldest(rows, Same(home[p])) /\ home[p] = Oldest(rows, Same(p))
    BY <1>1, <2>2
  <2> HIDE DEF Same
  <2> QED
    BY <2>1, <2>3
<1>6. DOMAIN home = C
  BY <1>1
<1>7. \A p \in C : home[p] = p \/ Earlier(rows, home[p], p)
  BY <1>2, <1>3
<1> QED
  BY <1>4, <1>5, <1>6, <1>7 DEF Originals, home, C

\* Originals that are alike have one home, the oldest they are like; who is one is like no other.
LEMMA NearCopies ==
    ASSUME NEW rows \in [Pages -> Rows]
    PROVE  LET home == FoldNearCopies(rows, FoldExactCopies(rows))
           IN  /\ DOMAIN home = Candidates(rows)
               /\ Originals(home) \in SUBSET Candidates(rows)
               /\ \A p, q \in Originals(home) : p # q => ~Near(rows[p].body, rows[q].body)
               /\ \A p \in Candidates(rows) :
                    /\ home[p] \in Originals(home)
                    /\ home[p] = p \/ Earlier(rows, home[p], p)
                    /\ Near(rows[home[p]].body, rows[p].body)
<1> DEFINE C == Candidates(rows)
           first == FoldExactCopies(rows)
           O == Originals(first)
           A == Accepted(rows, first)
           like(p) == Like(rows, A, p)
           host == [p \in O |-> IF like(p) = {} THEN p ELSE Closest(rows, p, like(p))]
           home == FoldNearCopies(rows, first)
<1>1. /\ C \in SUBSET Pages
      /\ \A p \in C : rows[p].body \in Bodies /\ Lines(rows[p].body) # {}
  BY CandidatesHaveLines
<1>2. /\ DOMAIN first = C
      /\ \A p \in C : /\ first[p] \in O
                      /\ first[p] = p \/ Earlier(rows, first[p], p)
                      /\ Lines(rows[first[p]].body) = Lines(rows[p].body)
  BY ExactCopies
<1>3. O = {p \in C : first[p] = p}
  BY <1>2 DEF Originals
<1>4. home = [p \in C |-> host[first[p]]]
  BY <1>2 DEF FoldNearCopies
<1>5. A \in SUBSET O /\ A = {p \in O : like(p) = {}}
  <2>1. O \in SUBSET Pages
    BY <1>1, <1>3
  <2>2. \E pages \in SUBSET O : pages = {p \in O : Like(rows, pages, p) = {}}
    <3> HIDE DEF O
    <3> QED
      BY <2>1, SomeAccepted
  <2> QED
    BY <2>2 DEF Accepted
<1> HIDE DEF C, first, O, A, home
<1>6. \A a \in A : host[a] = a /\ a \in O /\ a \in C
  BY <1>3, <1>5
<1>7. ASSUME NEW p \in O
      PROVE  /\ host[p] \in A
             /\ host[p] = p \/ Earlier(rows, host[p], p)
             /\ Near(rows[host[p]].body, rows[p].body)
  <2>0. p \in C /\ p \in Pages
    BY <1>1, <1>3
  <2>1. CASE like(p) = {}
    <3>1. p \in A /\ host[p] = p
      BY <1>5, <2>1
    <3> QED
      BY <1>1, <2>0, <3>1, NearSelf
  <2>2. CASE like(p) # {}
    <3>1. host[p] = Closest(rows, p, like(p))
      BY <2>2
    <3>2. like(p) \in SUBSET A /\ like(p) \in SUBSET Pages /\ \A a \in like(p) : Near(rows[a].body, rows[p].body) /\ Earlier(rows, a, p)
      BY <1>1, <1>3, <1>5 DEF Like
    <3>3. host[p] \in like(p)
      <4> HIDE DEF like, host
      <4> QED
        BY <2>0, <2>2, <3>1, <3>2, ClosestIsOne
    <3> HIDE DEF like, host
    <3> QED
      BY <3>2, <3>3
  <2> QED
    BY <2>1, <2>2
<1> HIDE DEF host
<1>8. Originals(home) = A
  <2>1. DOMAIN home = C /\ \A p \in C : home[p] = host[first[p]]
    BY <1>4
  <2>2. ASSUME NEW p \in A PROVE p \in C /\ home[p] = p
    BY <1>3, <1>6, <2>1
  <2>3. ASSUME NEW p \in C, home[p] = p PROVE p \in A
    BY <1>2, <1>7, <2>1, <2>3
  <2> QED
    BY <2>1, <2>2, <2>3 DEF Originals
<1>9. ASSUME NEW p \in A, NEW q \in A, p # q PROVE ~Near(rows[p].body, rows[q].body)
  <2>1. p \in Pages /\ q \in Pages /\ rows[p].body \in Bodies /\ rows[q].body \in Bodies
    BY <1>1, <1>6
  <2>2. \A a \in A : Earlier(rows, a, p) => ~Near(rows[a].body, rows[p].body)
    BY <1>5 DEF Like
  <2>3. \A a \in A : Earlier(rows, a, q) => ~Near(rows[a].body, rows[q].body)
    BY <1>5 DEF Like
  <2>4. Earlier(rows, p, q) \/ Earlier(rows, q, p)
    BY <1>9, <2>1, EarlierOrders
  <2> QED
    BY <2>1, <2>2, <2>3, <2>4, NearMutual
<1>10. ASSUME NEW p \in C
       PROVE  /\ home[p] \in A
              /\ home[p] = p \/ Earlier(rows, home[p], p)
              /\ Near(rows[home[p]].body, rows[p].body)
  <2> DEFINE o == first[p]  h == home[p]
  <2>1. h = host[o] /\ o \in O
    BY <1>2, <1>4
  <2>2. h \in A /\ (h = o \/ Earlier(rows, h, o)) /\ Near(rows[h].body, rows[o].body)
    BY <1>7, <2>1
  <2>3. (o = p \/ Earlier(rows, o, p)) /\ Lines(rows[o].body) = Lines(rows[p].body)
    BY <1>2
  <2>4. h \in Pages /\ o \in Pages /\ p \in Pages
    BY <1>1, <1>3, <1>6, <2>1, <2>2
  <2> HIDE DEF o, h
  <2>5. h = p \/ Earlier(rows, h, p)
    BY <2>2, <2>3, <2>4, EarlierOrders
  <2>6. Near(rows[h].body, rows[p].body)
    BY <2>2, <2>3, NearByLines
  <2> QED
    BY <2>2, <2>5, <2>6 DEF h
<1>11. DOMAIN home = C /\ A \in SUBSET C
  BY <1>4, <1>6
<1> QED
  BY <1>8, <1>9, <1>10, <1>11 DEF home, first, C

\* What the directory is made of.
LEMMA CollapseSound ==
    ASSUME NEW rows \in [Pages -> Rows]
    PROVE  LET home == Collapse(rows)
           IN  /\ \A p, q \in Originals(home) : p # q => ~Near(rows[p].body, rows[q].body)
               /\ \A p \in DOMAIN home :
                    /\ home[p] \in Originals(home)
                    /\ home[p] = p \/ Earlier(rows, home[p], p)
                    /\ \E q \in DOMAIN home :
                         /\ home[q] = home[p] /\ Basename[q] = Basename[home[p]]
                         /\ q = home[p] \/ ~Near(rows[q].body, rows[home[p]].body)
                         /\ Near(rows[q].body, rows[p].body)
                    /\ Cardinality(Demand(rows, p)) >= IndependentDemand =>
                         Near(rows[home[p]].body, rows[p].body)
<1> DEFINE C == Candidates(rows)
           near == FoldNearCopies(rows, FoldExactCopies(rows))
           A == Originals(near)
           named(p) == {q \in A : Basename[q] = Basename[p]}
           crowded(p) == Cardinality({Owner[q] : q \in named(p)}) >= CrowdedOwners
           loaded(p) == Cardinality(DemandFor(rows, near, p)) >= IndependentDemand
           onto == [p \in A |-> IF crowded(p) /\ ~loaded(p) THEN Oldest(rows, named(p)) ELSE p]
           home == Collapse(rows)
<1>1. C \in SUBSET Pages
  BY CandidatesHaveLines
<1>2. /\ DOMAIN near = C /\ A \in SUBSET C
      /\ \A p, q \in A : p # q => ~Near(rows[p].body, rows[q].body)
      /\ \A p \in C : /\ near[p] \in A
                      /\ near[p] = p \/ Earlier(rows, near[p], p)
                      /\ Near(rows[near[p]].body, rows[p].body)
  BY NearCopies
<1>3. A = {p \in C : near[p] = p}
  BY <1>2 DEF Originals
<1>4. DOMAIN home = C /\ \A p \in C : home[p] = onto[near[p]]
  BY <1>2 DEF Collapse, FoldCrowdedNames
<1> HIDE DEF C, near, A, home
<1>5. ASSUME NEW p \in A
      PROVE  /\ onto[p] \in A /\ Basename[onto[p]] = Basename[p]
             /\ onto[p] = p \/ Earlier(rows, onto[p], p)
             /\ onto[onto[p]] = onto[p]
             /\ loaded(p) => onto[p] = p
  <2> DEFINE o == Oldest(rows, named(p))
  <2>1. named(p) \in SUBSET Pages /\ p \in named(p)
    BY <1>1, <1>2
  <2>2. o \in named(p) /\ \A q \in named(p) \ {o} : Earlier(rows, o, q)
    <3> HIDE DEF named
    <3> QED
      BY <2>1, OldestFirst
  <2>3. named(o) = named(p)
    BY <2>2
  <2>4. o \in A /\ Basename[o] = Basename[p] /\ (o = p \/ Earlier(rows, o, p))
    BY <2>1, <2>2
  <2>5. onto[p] = p \/ onto[p] = o
    BY DEF onto
  <2>6. onto[o] = o
    <3>1. onto[o] = o \/ onto[o] = Oldest(rows, named(o))
      BY <2>4 DEF onto
    <3> HIDE DEF onto, named
    <3> QED
      BY <2>3, <3>1
  <2>7. loaded(p) => onto[p] = p
    BY DEF onto
  <2> HIDE DEF onto, o, named, loaded
  <2> QED
    BY <2>4, <2>5, <2>6, <2>7
<1> HIDE DEF onto, loaded
<1>6. Originals(home) = {p \in A : onto[p] = p}
  <2>1. ASSUME NEW p \in C, home[p] = p PROVE p \in A /\ onto[p] = p
    <3>1. near[p] \in A /\ p = onto[near[p]]
      BY <1>2, <1>4, <2>1
    <3> QED
      BY <1>5, <3>1
  <2>2. ASSUME NEW p \in A, onto[p] = p PROVE p \in C /\ home[p] = p
    BY <1>3, <1>4, <2>2
  <2> QED
    BY <1>4, <2>1, <2>2 DEF Originals
<1>7. \A p, q \in Originals(home) : p # q => ~Near(rows[p].body, rows[q].body)
  BY <1>2, <1>6
<1>8. ASSUME NEW p \in C
      PROVE  /\ home[p] \in Originals(home)
             /\ home[p] = p \/ Earlier(rows, home[p], p)
             /\ \E q \in C : /\ home[q] = home[p] /\ Basename[q] = Basename[home[p]]
                             /\ q = home[p] \/ ~Near(rows[q].body, rows[home[p]].body)
                             /\ Near(rows[q].body, rows[p].body)
             /\ Cardinality(Demand(rows, p)) >= IndependentDemand =>
                  Near(rows[home[p]].body, rows[p].body)
  <2> DEFINE q == near[p]  h == home[p]
  <2>1. /\ q \in A /\ (q = p \/ Earlier(rows, q, p)) /\ Near(rows[q].body, rows[p].body)
        /\ h = onto[q] /\ q \in C /\ near[q] = q
    BY <1>2, <1>3, <1>4
  <2>2. home[q] = h
    BY <1>4, <2>1
  <2>3. /\ h \in A /\ Basename[h] = Basename[q] /\ (h = q \/ Earlier(rows, h, q)) /\ onto[h] = h
        /\ loaded(q) => h = q
    BY <1>5, <2>1
  <2>4. h \in Pages /\ q \in Pages /\ p \in Pages
    BY <1>1, <1>2, <2>1, <2>3
  <2>5. Cardinality(Demand(rows, p)) >= IndependentDemand => loaded(q)
    <3>1. Demand(rows, p) \subseteq DemandFor(rows, near, q)
      BY <1>2 DEF DemandFor
    <3>2. DemandFor(rows, near, q) \subseteq {Owner[x] : x \in Pages}
      BY DEF DemandFor, Demand
    <3>3. IsFiniteSet({Owner[x] : x \in Pages})
      BY DirectoryAssumption, ImageFinite
    <3>4. IsFiniteSet(DemandFor(rows, near, q)) /\ IsFiniteSet(Demand(rows, p))
      BY <3>1, <3>2, <3>3, FS_Subset
    <3>5. /\ Cardinality(Demand(rows, p)) <= Cardinality(DemandFor(rows, near, q))
          /\ Cardinality(Demand(rows, p)) \in Nat /\ Cardinality(DemandFor(rows, near, q)) \in Nat
      BY <3>1, <3>4, FS_Subset, FS_CardinalityType
    <3>6. IndependentDemand \in Nat
      BY DirectoryAssumption
    <3> QED
      BY <3>5, <3>6 DEF loaded
  <2>6. h = p \/ Earlier(rows, h, p)
    <3> HIDE DEF q, h
    <3> QED
      BY <2>1, <2>3, <2>4, EarlierOrders
  <2>7. q = h \/ ~Near(rows[q].body, rows[h].body)
    BY <1>2, <2>1, <2>3
  <2>8. h \in Originals(home)
    BY <1>6, <2>3
  <2> HIDE DEF q, h
  <2>9. Cardinality(Demand(rows, p)) >= IndependentDemand => Near(rows[h].body, rows[p].body)
    BY <2>1, <2>3, <2>5
  <2> QED
    BY <2>1, <2>2, <2>3, <2>6, <2>7, <2>8, <2>9 DEF h
<1> QED
  BY <1>4, <1>7, <1>8 DEF home

---------------------------------------------------------------------------
(***************************************************************************)
(* The census: loops, and the entries of a sequence at some places         *)
(***************************************************************************)
\* What holds at 0, and one further whenever it holds, holds at m.
LEMMA Stepwise ==
    ASSUME NEW m \in Nat, NEW G, 0 \in G, \A k \in Nat : k < m /\ k \in G => k + 1 \in G
    PROVE  m \in G
<1> DEFINE Missing == {k \in 0 .. m : k \notin G}
<1>1. CASE Missing = {}
  BY <1>1
<1>2. CASE Missing # {}
  <2>1. PICK k \in Missing : \A j \in Missing : k <= j
    <3> Missing \in SUBSET Nat
      OBVIOUS
    <3> HIDE DEF Missing
    <3> QED
      BY <1>2, LeastNumber
  <2>2. k # 0 /\ k - 1 \in Nat /\ k - 1 < m /\ k - 1 \notin Missing
    BY <2>1
  <2> QED
    BY <2>1, <2>2
<1> QED
  BY <1>1, <1>2

\* Finitely many numbers have a greatest one, which is what Max chooses.
LEMMA MaxOf ==
    ASSUME NEW S \in SUBSET Nat, IsFiniteSet(S), S # {}
    PROVE  Max(S) \in S /\ \A n \in S : Max(S) >= n
<1> DEFINE R == {e \in Nat \X Nat : e[1] > e[2]}
<1>1. \A a, b \in Nat : <<a, b>> \in R <=> a > b
  OBVIOUS
<1> HIDE DEF R
<1>2. PICK m \in S : \A q \in S : <<q, m>> \notin R
  <2>1. \A a \in S : <<a, a>> \notin R
    BY <1>1
  <2>2. \A a, b, c \in S : <<a, b>> \in R /\ <<b, c>> \in R => <<a, c>> \in R
    BY <1>1
  <2> QED
    BY <2>1, <2>2, FirstElement
<1>3. ASSUME NEW n \in S PROVE m >= n
  <2>1. m \in Nat /\ n \in Nat /\ ~(n > m)
    BY <1>1, <1>2
  <2> QED
    BY <2>1
<1> QED
  BY <1>3 DEF Max

\* A finite set of numbers has a k-th, and each of them is one.
UpTo(I, i) == {j \in I : j <= i}
LEMMA KthOf ==
    ASSUME NEW I \in SUBSET Nat, IsFiniteSet(I)
    PROVE  /\ Cardinality(I) \in Nat
           /\ \A i \in I : Cardinality(UpTo(I, i)) \in 1 .. Cardinality(I)
                           /\ Kth(I, Cardinality(UpTo(I, i))) = i
           /\ \A k \in 1 .. Cardinality(I) : Kth(I, k) \in I /\ Cardinality(UpTo(I, Kth(I, k))) = k
           /\ \A i, j \in I : i < j => Cardinality(UpTo(I, i)) < Cardinality(UpTo(I, j))
<1> DEFINE pos(i) == Cardinality(UpTo(I, i))
           n == Cardinality(I)
<1>0. \A i \in I : i \in Nat
  OBVIOUS
<1>1. n \in Nat
  BY FS_CardinalityType
<1>2. \A i \in Nat : UpTo(I, i) \in SUBSET I /\ IsFiniteSet(UpTo(I, i)) /\ pos(i) \in Nat /\ pos(i) <= n
  <2> TAKE i \in Nat
  <2>1. UpTo(I, i) \in SUBSET I
    BY DEF UpTo
  <2> QED
    BY <2>1, FS_Subset, FS_CardinalityType
<1>3. \A i, j \in I : i < j => pos(i) < pos(j)
  <2> TAKE i, j \in I
  <2> HAVE i < j
  <2>1. UpTo(I, i) \in SUBSET UpTo(I, j) /\ j \in UpTo(I, j) /\ j \notin UpTo(I, i)
    <3>1. i \in Nat /\ j \in Nat /\ \A x \in I : x <= i => x <= j
      BY <1>0
    <3>2. j <= j /\ ~(j <= i)
      BY <3>1
    <3> QED
      BY <3>1, <3>2 DEF UpTo
  <2>2. UpTo(I, i) # UpTo(I, j)
    BY <2>1
  <2>3. IsFiniteSet(UpTo(I, j)) /\ pos(i) \in Nat /\ pos(j) \in Nat
    BY <1>2
  <2>4. pos(i) <= pos(j) /\ (pos(j) = pos(i) => UpTo(I, j) = UpTo(I, i))
    BY <2>1, <2>3, FS_Subset
  <2> QED
    BY <2>2, <2>3, <2>4
<1>4. \A i \in I : pos(i) \in 1 .. n
  <2> TAKE i \in I
  <2>1. i \in UpTo(I, i)
    BY DEF UpTo
  <2>2. pos(i) # 0
    BY <1>2, <2>1, FS_EmptySet
  <2> QED
    BY <1>1, <1>2, <2>2
<1>5. \A k \in 1 .. n : \E i \in I : pos(i) = k
  <2> DEFINE G == {k \in Nat : k = 0 \/ \E i \in I : pos(i) = k}
  <2>1. 0 \in G
    OBVIOUS
  <2>2. ASSUME NEW k \in Nat, k < n, k \in G PROVE k + 1 \in G
    <3> DEFINE Rest == {j \in I : k = 0 \/ \A i \in I : pos(i) = k => i < j}
    <3>1. PICK D \in SUBSET I : Cardinality(D) = k /\ Rest = I \ D /\ \A d \in D, r \in Rest : d < r
      <4>1. CASE k = 0
        <5>1. Rest = I /\ Cardinality({}) = 0
          BY <4>1, FS_EmptySet
        <5> QED
          BY <4>1, <5>1
      <4>2. CASE k # 0
        <5>1. PICK i \in I : pos(i) = k
          BY <2>2, <4>2
        <5>2. \A j \in I : pos(j) = k => j = i
          <6> TAKE j \in I
          <6> HAVE pos(j) = k
          <6>1. i < j => pos(i) < pos(j)
            BY <1>3
          <6>2. j < i => pos(j) < pos(i)
            BY <1>3
          <6> QED
            BY <5>1, <6>1, <6>2
        <5>3. Rest = {j \in I : i < j}
          BY <4>2, <5>1, <5>2
        <5>4. Rest = I \ UpTo(I, i) /\ UpTo(I, i) \in SUBSET I /\ \A d \in UpTo(I, i), r \in Rest : d < r
          <6>1. \A j \in I : i < j <=> ~(j <= i)
            BY <1>0
          <6>2. Rest = I \ UpTo(I, i)
            <7> HIDE DEF Rest
            <7> QED
              BY <5>3, <6>1 DEF UpTo
          <6>3. \A d \in UpTo(I, i), r \in Rest : d < r
            <7> HIDE DEF Rest
            <7> QED
              BY <1>0, <5>3 DEF UpTo
          <6>4. UpTo(I, i) \in SUBSET I
            BY DEF UpTo
          <6> HIDE DEF Rest
          <6> QED
            BY <6>2, <6>3, <6>4
        <5> QED
          BY <5>1, <5>4
      <4> QED
        BY <4>1, <4>2
    <3>2. Rest # {}
      <4>1. D # I
        BY <2>2, <3>1
      <4> QED
        BY <3>1, <4>1
    <3>3. PICK r \in Rest : \A s \in Rest : r <= s
      <4> Rest \in SUBSET Nat
        OBVIOUS
      <4> HIDE DEF Rest
      <4> QED
        BY <3>2, LeastNumber
    <3>4. r \in I /\ r \notin D
      BY <3>1
    <3>5. UpTo(I, r) = D \cup {r}
      <4> HIDE DEF Rest
      <4>1. \A j \in I : j <= r <=> j \in D \/ j = r
        BY <3>1, <3>3, <3>4
      <4> QED
        BY <3>1, <3>4, <4>1 DEF UpTo
    <3>6. pos(r) = k + 1
      <4>1. IsFiniteSet(D)
        BY FS_Subset
      <4> QED
        BY <3>1, <3>4, <3>5, <4>1, FS_AddElement
    <3> QED
      BY <3>4, <3>6
  <2>3. ASSUME NEW k \in 1 .. n PROVE k \in G
    <3> HIDE DEF G
    <3>1. \A j \in Nat : j < k /\ j \in G => j + 1 \in G
      BY <1>1, <2>2
    <3> QED
      BY <1>1, <2>1, <3>1, Stepwise
  <2> QED
    BY <2>3
<1>6. \A k \in 1 .. n : Kth(I, k) \in I /\ pos(Kth(I, k)) = k
  BY <1>5 DEF Kth, UpTo
<1>7. \A i \in I : Kth(I, pos(i)) = i
  <2> TAKE i \in I
  <2>1. Kth(I, pos(i)) \in I /\ pos(Kth(I, pos(i))) = pos(i)
    BY <1>4, <1>6
  <2> DEFINE j == Kth(I, pos(i))
  <2>2. i < j => pos(i) < pos(j)
    BY <1>3, <2>1
  <2>3. j < i => pos(j) < pos(i)
    BY <1>3, <2>1
  <2>4. i \in Nat /\ j \in Nat /\ pos(i) \in Nat /\ pos(j) = pos(i)
    BY <1>2, <2>1
  <2> HIDE DEF j
  <2>5. i = j
    BY <2>2, <2>3, <2>4
  <2> QED
    BY <2>5 DEF j
<1> QED
  BY <1>1, <1>3, <1>4, <1>6, <1>7

\* The entries at some places of a sequence are a sequence of entries, and none is lost.
LEMMA SelectOf ==
    ASSUME NEW T, NEW s \in Seq(T), NEW I \in SUBSET DOMAIN s
    PROVE  /\ Select(s, I) \in Seq(T)
           /\ Len(Select(s, I)) = Cardinality(I) /\ Cardinality(I) \in Nat /\ Cardinality(I) <= Len(s)
           /\ \A k \in DOMAIN Select(s, I) : Kth(I, k) \in I /\ Select(s, I)[k] = s[Kth(I, k)]
           /\ \A i \in I : \E k \in DOMAIN Select(s, I) : Select(s, I)[k] = s[i]
<1>0. Len(s) \in Nat /\ DOMAIN s = 1 .. Len(s) /\ \A i \in 1 .. Len(s) : s[i] \in T
  OBVIOUS
<1>1. I \in SUBSET Nat /\ IsFiniteSet(I) /\ Cardinality(I) <= Len(s)
  <2>1. IsFiniteSet(1 .. Len(s)) /\ Cardinality(1 .. Len(s)) = Len(s)
    BY <1>0, FS_Interval
  <2> QED
    BY <1>0, <2>1, FS_Subset
<1>2. /\ Cardinality(I) \in Nat
      /\ \A i \in I : Cardinality(UpTo(I, i)) \in 1 .. Cardinality(I) /\ Kth(I, Cardinality(UpTo(I, i))) = i
      /\ \A k \in 1 .. Cardinality(I) : Kth(I, k) \in I
  BY <1>1, KthOf
<1>3. Select(s, I) = [k \in 1 .. Cardinality(I) |-> s[Kth(I, k)]]
  BY DEF Select
<1>4. \A k \in 1 .. Cardinality(I) : s[Kth(I, k)] \in T
  BY <1>0, <1>2
<1>5. Select(s, I) \in Seq(T) /\ Len(Select(s, I)) = Cardinality(I) /\ DOMAIN Select(s, I) = 1 .. Cardinality(I)
  BY <1>2, <1>3, <1>4
<1> QED
  BY <1>1, <1>2, <1>3, <1>5

---------------------------------------------------------------------------
(***************************************************************************)
(* The census: what a read of some pages leaves                            *)
(***************************************************************************)
Wiki == [Pages -> [there : BOOLEAN, id : Nat, rev : Nat, body : Bodies]]
Items == [page : Pages, rank : Nat]

\* The rank a new page gets is a number.
LEMMA NextRankIs ==
    ASSUME NEW rows \in [Pages -> Rows]
    PROVE  NextRank(rows) \in Nat
<1> DEFINE S == {q \in Pages : rows[q].rev > 0}
           f == [q \in Pages |-> rows[q].rank]
           T == {f[q] : q \in S}
           U == {0} \cup T
<1>1. IsFiniteSet(S)
  <2>1. S \in SUBSET Pages
    OBVIOUS
  <2> QED
    BY <2>1, DirectoryAssumption, FS_Subset
<1>2. IsFiniteSet(T)
  <2> HIDE DEF f, S
  <2> QED
    BY <1>1, ImageFinite
<1>3. T \in SUBSET Nat
  BY DEF Rows
<1> HIDE DEF T
<1>4. IsFiniteSet(U) /\ U # {} /\ U \in SUBSET Nat
  <2>1. IsFiniteSet(T \cup {0})
    BY <1>2, FS_AddElement
  <2>2. U = T \cup {0}
    OBVIOUS
  <2> QED
    BY <1>3, <2>1, <2>2
<1>5. Max(U) \in Nat
  <2> HIDE DEF U
  <2> QED
    BY <1>4, MaxOf
<1>6. {rows[p].rank : p \in {q \in Pages : rows[q].rev > 0}} = T
  BY DEF T
<1>7. NextRank(rows) = 1 + Max(U)
  BY <1>6 DEF NextRank
<1> QED
  BY <1>5, <1>7

\* A page that is stored is stored as it is; the other rows stay.
LEMMA StorePageIs ==
    ASSUME world \in Wiki, NEW rows \in [Pages -> Rows], NEW p \in Pages, NEW rank \in Nat
    PROVE  /\ StorePage(rows, p, rank) \in [Pages -> Rows]
           /\ \A q \in Pages \ {p} : StorePage(rows, p, rank)[q] = rows[q]
           /\ StorePage(rows, p, rank)[p].rev = world[p].rev
           /\ ~StorePage(rows, p, rank)[p].gone
<1>1. NextRank(rows) \in Nat
  BY NextRankIs
<1>2. /\ rows[p].rank \in Nat /\ rows[p].born \in Nat
      /\ world[p].rev \in Nat /\ world[p].body \in Bodies
  BY DEF Rows, Wiki
<1> DEFINE row == [rev |-> world[p].rev, body |-> world[p].body, gone |-> FALSE, born |-> rows[p].born,
                   rank |-> IF rank > 0 THEN rank
                            ELSE IF rows[p].rev = 0 THEN NextRank(rows) ELSE rows[p].rank]
<1>3. row \in Rows
  BY <1>1, <1>2 DEF Rows
<1>4. StorePage(rows, p, rank) = [rows EXCEPT ![p] = row]
  BY DEF StorePage
<1>5. row.rev = world[p].rev /\ ~row.gone
  OBVIOUS
<1> HIDE DEF row
<1> QED
  BY <1>3, <1>4, <1>5

\* What one title of a chunk makes of the rows.
ReadOne(rows, item) ==
    IF world[item.page].there /\ ~Settled(item.page, item.rank, world[item.page].rev)
    THEN StorePage(rows, item.page, item.rank) ELSE rows

ReadAll(f, rows, chunk, n) ==
    f = [i \in 0 .. n |-> IF i = 0 THEN rows ELSE ReadOne(f[i - 1], chunk[i])]

LEMMA ReadAllBy ==
    ASSUME NEW f, NEW n \in Nat, NEW rows, NEW chunk, f = [i \in 0 .. n |-> f[i]],
           f[0] = rows, \A i \in 1 .. n : f[i] = ReadOne(f[i - 1], chunk[i])
    PROVE  ReadAll(f, rows, chunk, n)
<1> DEFINE R == [i \in 0 .. n |-> IF i = 0 THEN rows ELSE ReadOne(f[i - 1], chunk[i])]
<1>1. R = [i \in 0 .. n |-> R[i]] /\ R[0] = f[0]
  OBVIOUS
<1>2. ASSUME NEW i \in 1 .. n PROVE R[i] = f[i]
  <2>1. i \in 0 .. n /\ i # 0
    OBVIOUS
  <2> QED
    BY <2>1
<1>3. \A i \in 0 .. n : i = 0 \/ i \in 1 .. n
  OBVIOUS
<1> HIDE DEF R
<1>4. \A i \in 0 .. n : R[i] = f[i]
  BY <1>1, <1>2, <1>3
<1>5. [i \in 0 .. n |-> R[i]] = [i \in 0 .. n |-> f[i]]
  BY <1>4, Zenon
<1>6. f = R
  BY <1>1, <1>5, Zenon
<1> QED
  BY <1>6 DEF R, ReadAll

\* The loop over a chunk ends.
LEMMA ReadsEnd ==
    ASSUME NEW n \in Nat, NEW rows, NEW chunk
    PROVE  \E f : ReadAll(f, rows, chunk, n)
<1> DEFINE G == {k \in Nat : \E f : ReadAll(f, rows, chunk, k)}
<1>1. 0 \in G
  <2> DEFINE f == [i \in 0 .. 0 |-> rows]
  <2>1. f = [i \in 0 .. 0 |-> f[i]] /\ f[0] = rows /\ \A i \in 1 .. 0 : f[i] = ReadOne(f[i - 1], chunk[i])
    OBVIOUS
  <2> HIDE DEF f
  <2>2. ReadAll(f, rows, chunk, 0)
    BY <2>1, ReadAllBy
  <2> QED
    BY <2>2
<1>2. ASSUME NEW k \in Nat, k \in G PROVE k + 1 \in G
  <2>1. PICK f : ReadAll(f, rows, chunk, k)
    BY <1>2
  <2>2. f[0] = rows /\ \A i \in 1 .. k : f[i] = ReadOne(f[i - 1], chunk[i])
    <3> HIDE DEF G
    <3> QED
      BY <2>1 DEF ReadAll
  <2> DEFINE h == [i \in 0 .. k + 1 |-> IF i <= k THEN f[i] ELSE ReadOne(f[k], chunk[i])]
  <2>3. h = [i \in 0 .. k + 1 |-> h[i]] /\ h[0] = rows
    BY <2>2
  <2>4. ASSUME NEW i \in 1 .. k + 1 PROVE h[i] = ReadOne(h[i - 1], chunk[i])
    <3>1. h[i - 1] = f[i - 1]
      OBVIOUS
    <3>2. CASE i <= k
      BY <2>2, <3>1, <3>2
    <3>3. CASE i = k + 1
      BY <3>1, <3>3
    <3> QED
      BY <3>2, <3>3
  <2> HIDE DEF h
  <2>5. k + 1 \in Nat
    OBVIOUS
  <2>6. ReadAll(h, rows, chunk, k + 1)
    <3> HIDE DEF G
    <3> QED
      BY <2>3, <2>4, <2>5, ReadAllBy, Zenon
  <2> QED
    BY <2>5, <2>6
<1>3. n \in G
  <2> HIDE DEF G
  <2> QED
    BY <1>1, <1>2, Stepwise
<1> QED
  BY <1>3

LEMMA IngestedRuns ==
    ASSUME NEW rows, NEW chunk, Len(chunk) \in Nat
    PROVE  \E f : /\ f[0] = rows /\ Ingested(rows, chunk) = f[Len(chunk)]
                  /\ \A i \in 1 .. Len(chunk) : f[i] = ReadOne(f[i - 1], chunk[i])
<1> DEFINE n == Len(chunk)
           changed(item) == world[item.page].there /\ ~Settled(item.page, item.rank, world[item.page].rev)
           Is(f) == f = [i \in 0 .. n |->
                            IF i = 0 THEN rows
                            ELSE IF changed(chunk[i]) THEN StorePage(f[i - 1], chunk[i].page, chunk[i].rank)
                            ELSE f[i - 1]]
           F == CHOOSE f : Is(f)
<1>1. PICK f : ReadAll(f, rows, chunk, n)
  BY ReadsEnd
<1>2. Is(f)
  BY <1>1 DEF ReadAll, ReadOne
<1>3. Is(F)
  <2> HIDE DEF Is
  <2> QED
    BY <1>2, Zenon
<1>4. Ingested(rows, chunk) = F[n]
  BY Zenon DEF Ingested
<1> HIDE DEF F
<1>5. F[0] = rows
  BY <1>3
<1>6. ASSUME NEW i \in 1 .. n PROVE F[i] = ReadOne(F[i - 1], chunk[i])
  <2>1. i \in 0 .. n /\ i # 0
    OBVIOUS
  <2> QED
    BY <1>3, <2>1 DEF ReadOne
<1> QED
  BY <1>4, <1>5, <1>6

\* After a read of some pages each row is as it was, or as its page; and who was asked for is.
LEMMA IngestedIs ==
    ASSUME world \in Wiki, stored \in [Pages -> Rows], NEW chunk \in Seq(Items)
    PROVE  LET rows == Ingested(stored, chunk)
           IN  /\ rows \in [Pages -> Rows]
               /\ \A p \in Pages : rows[p] = stored[p] \/ (rows[p].rev = world[p].rev /\ ~rows[p].gone)
               /\ \A i \in DOMAIN chunk : world[chunk[i].page].there =>
                      rows[chunk[i].page].rev = world[chunk[i].page].rev /\ ~rows[chunk[i].page].gone
<1> DEFINE n == Len(chunk)
           fine(rows, p) == rows[p].rev = world[p].rev /\ ~rows[p].gone
<1>1. n \in Nat /\ DOMAIN chunk = 1 .. n /\ \A i \in 1 .. n : chunk[i].page \in Pages /\ chunk[i].rank \in Nat
  <2>1. n \in Nat /\ DOMAIN chunk = 1 .. n /\ \A i \in 1 .. n : chunk[i] \in Items
    OBVIOUS
  <2> QED
    BY <2>1 DEF Items
<1>2. PICK f : /\ f[0] = stored /\ Ingested(stored, chunk) = f[n]
               /\ \A i \in 1 .. n : f[i] = ReadOne(f[i - 1], chunk[i])
  BY <1>1, IngestedRuns
<1> DEFINE Good(k) == /\ f[k] \in [Pages -> Rows]
                      /\ \A p \in Pages : f[k][p] = stored[p] \/ fine(f[k], p)
                      /\ \A i \in 1 .. k : world[chunk[i].page].there => fine(f[k], chunk[i].page)
           G == {k \in 0 .. n : Good(k)}
<1>3. 0 \in G
  BY <1>1, <1>2
<1>4. ASSUME NEW k \in Nat, k < n, k \in G PROVE k + 1 \in G
  <2> DEFINE p == chunk[k + 1].page  rank == chunk[k + 1].rank
  <2>1. k + 1 \in 1 .. n /\ (k + 1) - 1 = k
    BY <1>1, <1>4
  <2>2. f[k + 1] = ReadOne(f[k], chunk[k + 1]) /\ p \in Pages /\ rank \in Nat
    BY <1>1, <1>2, <2>1
  <2>3. Good(k)
    BY <1>4
  <2>4. \A i \in 1 .. k + 1 : i \in 1 .. k \/ i = k + 1
    OBVIOUS
  <2>5. CASE world[p].there /\ ~Settled(p, rank, world[p].rev)
    <3>1. f[k + 1] = StorePage(f[k], p, rank)
      BY <2>2, <2>5 DEF ReadOne
    <3> HIDE DEF p, rank
    <3>2. /\ f[k + 1] \in [Pages -> Rows]
          /\ \A q \in Pages \ {p} : f[k + 1][q] = f[k][q]
          /\ fine(f[k + 1], p)
      <4>1. f[k] \in [Pages -> Rows] /\ p \in Pages /\ rank \in Nat
        BY <2>2, <2>3
      <4> HIDE DEF Good, G
      <4> DEFINE r == f[k]
      <4>2. r \in [Pages -> Rows]
        BY <4>1
      <4> HIDE DEF r
      <4>3. /\ StorePage(r, p, rank) \in [Pages -> Rows]
            /\ \A q \in Pages \ {p} : StorePage(r, p, rank)[q] = r[q]
            /\ fine(StorePage(r, p, rank), p)
        BY <4>1, <4>2, StorePageIs
      <4> QED
        BY <3>1, <4>3 DEF r
    <3>3. \A q \in Pages : f[k + 1][q] = stored[q] \/ fine(f[k + 1], q)
      BY <2>3, <3>2
    <3>4. \A i \in 1 .. k + 1 : world[chunk[i].page].there => fine(f[k + 1], chunk[i].page)
      <4> TAKE i \in 1 .. k + 1
      <4> HAVE world[chunk[i].page].there
      <4>1. CASE chunk[i].page = p
        BY <3>2, <4>1
      <4>2. CASE chunk[i].page # p
        <5>1. i \in 1 .. k /\ i \in 1 .. n
          BY <1>1, <1>4, <2>4, <4>2 DEF p
        <5>2. chunk[i].page \in Pages \ {p} /\ fine(f[k], chunk[i].page)
          BY <1>1, <2>3, <4>2, <5>1
        <5> QED
          BY <3>2, <5>2
      <4> QED
        BY <4>1, <4>2
    <3> QED
      BY <2>1, <3>2, <3>3, <3>4
  <2>6. CASE ~(world[p].there /\ ~Settled(p, rank, world[p].rev))
    <3>1. f[k + 1] = f[k]
      BY <2>2, <2>6 DEF ReadOne
    <3>2. world[p].there => fine(f[k], p)
      <4> HAVE world[p].there
      <4>1. Settled(p, rank, world[p].rev)
        BY <2>6
      <4>2. fine(stored, p)
        BY <4>1 DEF Settled
      <4> HIDE DEF p
      <4> QED
        BY <2>2, <2>3, <4>2
    <3>3. \A i \in 1 .. k + 1 : world[chunk[i].page].there => fine(f[k + 1], chunk[i].page)
      BY <2>3, <2>4, <3>1, <3>2
    <3> HIDE DEF p, rank
    <3> QED
      BY <2>1, <2>3, <3>1, <3>3
  <2> QED
    BY <2>5, <2>6
<1>5. n \in G
  <2> HIDE DEF G
  <2> QED
    BY <1>1, <1>3, <1>4, Stepwise
<1> QED
  BY <1>1, <1>2, <1>5
\* The hypothesis: a wiki whose pages one road names, the replica or the search index.
OneRoad == credentials' = credentials /\ job'.source # "search-fallback"

Road == IF credentials THEN "replica" ELSE "search"

\* A page is owed a read, and a read is due.
Owed(p) == world[p].there /\ IF credentials THEN ~Current(p) ELSE stored[p].gone
Due(p, from) == Owed(p) => p \in Unread(from)
Planned(p) == \E i \in DOMAIN job.todo : job.todo[i].page = p

\* Where the replica names a page.
Place(p) == Cardinality(UpTo(Ids, world[p].id))

\* No two pages of the wiki have one id, and the next page gets a greater one.
IdsDiffer ==
    /\ \A p \in Pages : world[p].id <= Len(First) + ops
    /\ \A p, q \in Pages : world[p].there /\ world[q].there /\ world[p].id = world[q].id => p = q

\* Where a run stands and what it has recorded: one road, and no sweep once a census has ended.
OnTheRoad ==
    /\ census.source \in {"", Road} /\ job.source \in {"", Road}
    /\ census.swept => census.source = Road /\ census.cursor = 0
    /\ job.mode = "sweep" => ~census.swept
    /\ job.mode = "watch" => census.swept
    /\ job.at = "enumerate" => job.mode = "sweep"
    /\ job.at = "window" => job.mode = "watch"
    /\ job.mode = "sweep" /\ job.at \in {"ingest", "lagged"} =>
           job.source = Road /\ (credentials => job.complete) /\ (job.finished => job.next = 0)

\* What the census row stands for: before a census ends nothing is called gone, and behind its
\* place nothing is owed a read that is not due; once it ends, nothing at all is.
Recorded ==
    /\ ~census.swept => \A p \in Pages : ~stored[p].gone
    /\ census.swept => \A p \in Pages : Due(p, census.changes)
    /\ credentials /\ census.cursor > 0 =>
           \A p \in Pages : Place(p) <= census.cursor => Due(p, census.changes)

\* What a run that is under way stands for: the pages a watch owes are due after the place it
\* read, or in the window it reads; those a sweep owes are due, or in what it has still to read.
Underway ==
    /\ job.mode = "watch" => \A p \in Pages : Due(p, job.read)
    /\ job.mode = "watch" /\ job.at = "ingest" =>
           \A p \in Pages : Due(p, job.next) \/ Planned(p)
    /\ job.mode = "sweep" /\ job.at = "ingest" =>
           /\ job.complete => \A p \in Pages \ job.names : world[p].there => p \in Unread(census.changes)
           /\ credentials => \A p \in Pages : job.finished \/ Place(p) <= job.next =>
                                 Due(p, census.changes) \/ Planned(p)

CensusInv == CensusTypes /\ IdsDiffer /\ OnTheRoad /\ Recorded /\ Underway

---------------------------------------------------------------------------
(***************************************************************************)
(* The census: naming the pages                                            *)
(***************************************************************************)
There == {p \in Pages : world[p].there}

\* The pages of a wiki have finitely many ids, and no more of them than pages.
LEMMA IdsAre ==
    ASSUME world \in Wiki
    PROVE  /\ Ids \in SUBSET Nat /\ IsFiniteSet(Ids)
           /\ Cardinality(Ids) \in Nat /\ Cardinality(Ids) <= Cardinality(Pages) /\ Cardinality(Pages) \in Nat
           /\ \A p \in There : world[p].id \in Ids
           /\ \A i \in Ids : \E p \in There : world[p].id = i
<1> DEFINE f == [p \in There |-> world[p].id]
<1>1. Ids = {f[p] : p \in There}
  BY DEF Ids, There
<1>2. There \in SUBSET Pages
  BY DEF There
<1>3. IsFiniteSet(Pages)
  BY DirectoryAssumption
<1>4. /\ IsFiniteSet(There) /\ Cardinality(There) <= Cardinality(Pages)
      /\ Cardinality(There) \in Nat /\ Cardinality(Pages) \in Nat
  BY <1>2, <1>3, FS_Subset, FS_CardinalityType
<1>5. f \in Surjection(There, Ids)
  BY <1>1 DEF Surjection
<1>6. IsFiniteSet(Ids) /\ Cardinality(Ids) <= Cardinality(There)
  BY <1>4, <1>5, FS_Surjection
<1>7. \A p \in There : world[p].id \in Nat
  BY <1>2 DEF Wiki
<1>8. Cardinality(Ids) \in Nat
  BY <1>6, FS_CardinalityType
<1>9. Cardinality(Ids) <= Cardinality(Pages)
  BY <1>4, <1>6, <1>8
<1>10. Ids \in SUBSET Nat
  BY <1>1, <1>7
<1> QED
  BY <1>1, <1>4, <1>6, <1>8, <1>9, <1>10

\* The replica names pages of the wiki, in the order of their ids.
LEMMA ListedIs ==
    ASSUME world \in Wiki
    PROVE  /\ Listed \in Seq(Pages) /\ Len(Listed) = Cardinality(Ids)
           /\ \A k \in 1 .. Len(Listed) : world[Listed[k]].there /\ world[Listed[k]].id = Kth(Ids, k)
<1> DEFINE n == Cardinality(Ids)
<1>1. Ids \in SUBSET Nat /\ IsFiniteSet(Ids) /\ n \in Nat /\ \A i \in Ids : \E p \in There : world[p].id = i
  BY IdsAre
<1>2. \A k \in 1 .. n : Kth(Ids, k) \in Ids
  <2> HIDE DEF n
  <2> QED
    BY <1>1, KthOf DEF n
<1>3. Listed = [k \in 1 .. n |-> CHOOSE p \in Pages : world[p].there /\ world[p].id = Kth(Ids, k)]
  BY DEF Listed
<1>4. ASSUME NEW k \in 1 .. n
      PROVE  Listed[k] \in Pages /\ world[Listed[k]].there /\ world[Listed[k]].id = Kth(Ids, k)
  <2>1. \E p \in Pages : world[p].there /\ world[p].id = Kth(Ids, k)
    BY <1>1, <1>2 DEF There
  <2> QED
    BY <1>3, <2>1
<1> HIDE DEF n
<1>5. Listed = [k \in 1 .. n |-> Listed[k]]
  BY <1>3
<1>6. Listed \in Seq(Pages)
  BY <1>1, <1>4, <1>5
<1>7. Len(Listed) = n
  BY <1>1, <1>5
<1> QED
  BY <1>4, <1>6, <1>7 DEF n

\* It names each of them.
LEMMA ListedAll ==
    ASSUME world \in Wiki, IdsDiffer, NEW p \in There
    PROVE  Place(p) \in 1 .. Len(Listed) /\ Listed[Place(p)] = p
<1>1. /\ Ids \in SUBSET Nat /\ IsFiniteSet(Ids) /\ world[p].id \in Ids /\ Cardinality(Ids) \in Nat
  BY IdsAre
<1>2. Place(p) \in 1 .. Cardinality(Ids) /\ Kth(Ids, Place(p)) = world[p].id
  BY <1>1, KthOf DEF Place
<1>3. Place(p) \in 1 .. Len(Listed) /\ world[Listed[Place(p)]].there /\ world[Listed[Place(p)]].id = world[p].id
  BY <1>2, ListedIs
<1>4. Listed[Place(p)] \in Pages /\ p \in Pages /\ world[p].there
  <2>1. Listed \in Seq(Pages)
    BY ListedIs
  <2> QED
    BY <1>3, <2>1, ElementOfSeq DEF There
<1> QED
  BY <1>3, <1>4 DEF IdsDiffer

\* What an enumeration is: names of pages, a word on whether they are all, and a source.
Found(found, source) ==
    /\ found.names \in Seq(Pages) /\ Len(found.names) <= Cardinality(Pages)
    /\ found.complete \in BOOLEAN /\ found.source = source

LEMMA ByReplicaIs ==
    ASSUME world \in Wiki
    PROVE  Found(ByReplica, "replica") /\ ByReplica.names = Listed /\ ByReplica.complete
  BY IdsAre, ListedIs DEF ByReplica, Found

\* A search that is whole names each page of the wiki.
LEMMA BySearchIs ==
    ASSUME world \in Wiki, NEW source
    PROVE  LET found == BySearch(source)
           IN  /\ Found(found, source)
               /\ IdsDiffer /\ found.complete => There \subseteq ToSet(found.names)
<1> DEFINE at(css) == {i \in DOMAIN Listed : (Listed[i] \in Css) = css}
           of(css) == Select(Listed, at(css))
           names(css) == IF Len(of(css)) > Cap THEN SubSeq(of(css), 1, Cap) ELSE of(css)
           found == BySearch(source)
           n == Len(Listed)
<1>1. Listed \in Seq(Pages) /\ n \in Nat /\ DOMAIN Listed = 1 .. n /\ n <= Cardinality(Pages) /\ Cardinality(Pages) \in Nat
  BY IdsAre, ListedIs
<1>2. ASSUME NEW css \in BOOLEAN
      PROVE  /\ of(css) \in Seq(Pages) /\ Len(of(css)) = Cardinality(at(css)) /\ Cardinality(at(css)) \in Nat
             /\ \A i \in at(css) : \E k \in DOMAIN of(css) : of(css)[k] = Listed[i]
  <2>1. at(css) \in SUBSET DOMAIN Listed
    OBVIOUS
  <2> HIDE DEF at
  <2> QED
    BY <1>1, <2>1, SelectOf
<1>3. Cap \in Nat /\ Cap > 0
  BY ScriptsAssumption
<1>4. ASSUME NEW css \in BOOLEAN
      PROVE  /\ names(css) \in Seq(Pages) /\ Len(names(css)) \in Nat /\ Len(names(css)) <= Len(of(css))
             /\ Len(of(css)) <= Cap => names(css) = of(css)
  <2> DEFINE s == of(css)
  <2>1. s \in Seq(Pages) /\ Len(s) \in Nat
    BY <1>2
  <2> HIDE DEF s
  <2>2. CASE Len(s) > Cap
    <3>1. SubSeq(s, 1, Cap) \in Seq(Pages) /\ Len(SubSeq(s, 1, Cap)) = Cap
      BY <1>3, <2>1, <2>2, SubSeqProperties
    <3>2. names(css) = SubSeq(s, 1, Cap)
      BY <2>2 DEF s
    <3> HIDE DEF names
    <3> QED
      BY <1>3, <2>1, <2>2, <3>1, <3>2 DEF s
  <2>3. CASE ~(Len(s) > Cap)
    <3>1. names(css) = s
      BY <2>3 DEF s
    <3> HIDE DEF names
    <3> QED
      BY <2>1, <3>1 DEF s
  <2> QED
    BY <2>2, <2>3
<1>5. found.names = names(FALSE) \o names(TRUE) /\ found.source = source /\ found.complete \in BOOLEAN
      /\ (found.complete <=> \A css \in BOOLEAN : Len(of(css)) <= Cap)
  BY DEF BySearch
<1>6. Cardinality(at(FALSE)) + Cardinality(at(TRUE)) = n
  <2>1. at(FALSE) \cup at(TRUE) = 1 .. n /\ at(FALSE) \cap at(TRUE) = {}
    BY <1>1
  <2>2. IsFiniteSet(1 .. n) /\ Cardinality(1 .. n) = n
    <3>1. n \in Nat
      BY <1>1
    <3> HIDE DEF n
    <3> QED
      BY <3>1, FS_Interval
  <2> DEFINE X == at(FALSE)  Y == at(TRUE)
  <2>3. X \cup Y = 1 .. n /\ X \cap Y = {}
    BY <2>1
  <2> HIDE DEF X, Y
  <2>4. IsFiniteSet(X) /\ IsFiniteSet(Y)
    <3>1. X \in SUBSET (1 .. n) /\ Y \in SUBSET (1 .. n)
      BY <2>3
    <3> QED
      BY <2>2, <3>1, FS_Subset
  <2>5. Cardinality(X \cup Y) = Cardinality(X) + Cardinality(Y) - Cardinality(X \cap Y)
    BY <2>4, FS_Union
  <2>6. Cardinality(X) + Cardinality(Y) = n
    <3>1. Cardinality(X) \in Nat /\ Cardinality(Y) \in Nat
      BY <2>4, FS_CardinalityType
    <3>2. Cardinality({}) = 0
      BY FS_EmptySet
    <3> HIDE DEF n
    <3> QED
      <4>1. Cardinality(X \cup Y) = n /\ Cardinality(X \cap Y) = 0
        BY <2>2, <2>3, <3>2, Zenon
      <4>2. n = Cardinality(X) + Cardinality(Y) - 0
        BY <2>5, <4>1, Zenon
      <4> QED
        BY <3>1, <4>2
  <2> QED
    BY <2>6 DEF X, Y
<1> HIDE DEF at, of, names, found, n
<1> DEFINE s == names(FALSE)  t == names(TRUE)
<1>7. /\ s \in Seq(Pages) /\ t \in Seq(Pages) /\ Len(s) \in Nat /\ Len(t) \in Nat
      /\ Len(s) <= Len(of(FALSE)) /\ Len(t) <= Len(of(TRUE))
  BY <1>4
<1> HIDE DEF s, t
<1>8. /\ s \o t \in Seq(Pages) /\ Len(s \o t) = Len(s) + Len(t)
      /\ \A k \in 1 .. Len(s) : (s \o t)[k] = s[k]
      /\ \A k \in 1 .. Len(t) : k + Len(s) \in 1 .. Len(s \o t) /\ (s \o t)[k + Len(s)] = t[k]
  BY <1>7
<1>9. found.names \in Seq(Pages) /\ Len(found.names) <= Cardinality(Pages)
  <2>1. Len(of(FALSE)) + Len(of(TRUE)) = n /\ Len(of(FALSE)) \in Nat /\ Len(of(TRUE)) \in Nat
    BY <1>2, <1>6
  <2>2. found.names = s \o t
    BY <1>5 DEF s, t
  <2>3. n \in Nat /\ n <= Cardinality(Pages) /\ Cardinality(Pages) \in Nat
    BY <1>1
  <2>4. Len(s) + Len(t) <= Cardinality(Pages)
    <3> DEFINE a == Len(s)  b == Len(t)  c == Len(of(FALSE))  d == Len(of(TRUE))
    <3>1. /\ a \in Nat /\ b \in Nat /\ c \in Nat /\ d \in Nat
          /\ a <= c /\ b <= d /\ c + d = n
      BY <1>7, <2>1
    <3> HIDE DEF a, b, c, d
    <3>2. a + b <= Cardinality(Pages)
      BY <2>3, <3>1
    <3> QED
      BY <3>2 DEF a, b
  <2> QED
    BY <1>8, <2>2, <2>4
<1>10. ASSUME IdsDiffer, found.complete, NEW p \in There PROVE p \in ToSet(found.names)
  <2>1. Place(p) \in DOMAIN Listed /\ Listed[Place(p)] = p
    BY <1>1, <1>10, ListedAll DEF n
  <2>2. Place(p) \in at(TRUE) \/ Place(p) \in at(FALSE)
    BY <2>1 DEF at
  <2>3. s = of(FALSE) /\ t = of(TRUE)
    <3>1. Len(of(FALSE)) <= Cap /\ Len(of(TRUE)) <= Cap
      BY <1>5, <1>10
    <3> QED
      BY <1>4, <3>1 DEF s, t
  <2>4. found.names = s \o t
    BY <1>5 DEF s, t
  <2>5. CASE Place(p) \in at(FALSE)
    <3>1. PICK k \in DOMAIN s : s[k] = p
      BY <1>2, <2>1, <2>3, <2>5
    <3>2. k \in 1 .. Len(s)
      BY <1>7, <3>1
    <3>3. k \in 1 .. Len(s \o t) /\ (s \o t)[k] = p
      BY <1>7, <1>8, <3>1, <3>2
    <3> QED
      BY <1>8, <2>4, <3>3 DEF ToSet
  <2>6. CASE Place(p) \in at(TRUE)
    <3>1. PICK k \in DOMAIN t : t[k] = p
      BY <1>2, <2>1, <2>3, <2>6
    <3>2. k \in 1 .. Len(t)
      BY <1>7, <3>1
    <3>3. k + Len(s) \in 1 .. Len(s \o t) /\ (s \o t)[k + Len(s)] = p
      BY <1>7, <1>8, <3>1, <3>2
    <3> QED
      BY <1>8, <2>4, <3>3 DEF ToSet
  <2> QED
    BY <2>2, <2>5, <2>6
<1> QED
  BY <1>5, <1>9, <1>10 DEF Found, found

\* The titles of a run: those of its window that are not known to be settled.
LEMMA WindowIs ==
    ASSUME NEW found, NEW source, Found(found, source), census.cursor \in Nat
    PROVE  LET start == ResumeFrom(found)
               todo == Window(found).todo
               end == Window(found).end
           IN  /\ todo \in Seq(Items)
               /\ start = 0 \/ start = census.cursor
               /\ start \in Nat /\ end \in Nat /\ start <= end /\ end <= Len(found.names)
               /\ \A i \in start + 1 .. end :
                     \/ \E k \in DOMAIN todo : todo[k].page = found.names[i]
                     \/ /\ found.names[i] \in DOMAIN found.revisions
                        /\ Settled(found.names[i], i, found.revisions[found.names[i]])
<1> DEFINE n == Len(found.names)
           start == ResumeFrom(found)
           end == IF n - start < Limit THEN n ELSE start + Limit
           known(i) == found.names[i] \in DOMAIN found.revisions
                           /\ Settled(found.names[i], i, found.revisions[found.names[i]])
           all == [i \in DOMAIN found.names |-> [page |-> found.names[i], rank |-> i]]
           I == {i \in start + 1 .. end : ~known(i)}
           todo == Select(all, I)
<1>1. /\ found.names \in Seq(Pages) /\ n \in Nat /\ DOMAIN found.names = 1 .. n
      /\ \A i \in 1 .. n : found.names[i] \in Pages
  BY DEF Found
<1>2. Limit \in Nat /\ Limit > 0
  BY ScriptsAssumption
<1>3. start \in Nat /\ start <= n /\ (start = 0 \/ start = census.cursor)
  BY <1>1 DEF ResumeFrom
<1>4. end \in Nat /\ start <= end /\ end <= n
  <2> HIDE DEF start
  <2> QED
    BY <1>1, <1>2, <1>3
<1>5. Window(found).todo = todo /\ Window(found).end = end
  BY DEF Window
<1> HIDE DEF n, start, end, known
<1>6. all \in Seq(Items) /\ DOMAIN all = 1 .. n
  <2>1. \A i \in 1 .. n : [page |-> found.names[i], rank |-> i] \in Items
    BY <1>1 DEF Items
  <2>2. all = [i \in 1 .. n |-> [page |-> found.names[i], rank |-> i]]
    BY <1>1
  <2> QED
    BY <1>1, <2>1, <2>2
<1>7. I \in SUBSET DOMAIN all
  BY <1>1, <1>3, <1>4, <1>6
<1>8. /\ todo \in Seq(Items)
      /\ \A i \in I : \E k \in DOMAIN todo : todo[k] = all[i]
  <2> HIDE DEF all, I
  <2> QED
    BY <1>6, <1>7, SelectOf
<1>9. ASSUME NEW i \in start + 1 .. end
      PROVE  known(i) \/ \E k \in DOMAIN todo : todo[k].page = found.names[i]
  <2>1. CASE i \in I
    <3>1. PICK k \in DOMAIN todo : todo[k] = all[i]
      BY <1>8, <2>1
    <3>2. all[i].page = found.names[i]
      BY <1>1, <1>3, <1>4
    <3> HIDE DEF todo, all
    <3> QED
      BY <3>1, <3>2
  <2>2. CASE i \notin I
    BY <2>2
  <2> QED
    BY <2>1, <2>2
<1> HIDE DEF todo
<1> QED
  BY <1>3, <1>4, <1>5, <1>8, <1>9 DEF start, end, known, n

\* A chunk and what comes after it.
LEMMA ChunkIs ==
    ASSUME NEW todo \in Seq(Items)
    PROVE  /\ ChunkOf(todo) \in Seq(Items) /\ After(todo) \in Seq(Items)
           /\ Len(ChunkOf(todo)) \in Nat /\ Len(ChunkOf(todo)) <= Len(todo)
           /\ \A i \in DOMAIN todo :
                 \/ \E k \in DOMAIN ChunkOf(todo) : ChunkOf(todo)[k] = todo[i]
                 \/ \E k \in DOMAIN After(todo) : After(todo)[k] = todo[i]
<1> DEFINE n == Len(todo)
           c == IF n < Chunk THEN n ELSE Chunk
           first == SubSeq(todo, 1, c)
           rest == SubSeq(todo, c + 1, n)
<1>1. n \in Nat /\ DOMAIN todo = 1 .. n /\ Chunk \in Nat
  BY ScriptsAssumption
<1>2. c \in Nat /\ c <= n
  BY <1>1
<1>3. ChunkOf(todo) = first
  BY DEF ChunkOf
<1> HIDE DEF n, c
<1>4. /\ first \in Seq(Items) /\ Len(first) = c /\ DOMAIN first = 1 .. c
      /\ \A k \in 1 .. c : first[k] = todo[k]
  <2>1. n = Len(todo)
    BY DEF n
  <2>2. \A k \in 1 .. c : k \in 1 .. n /\ todo[k] \in Items
    BY <1>1, <1>2, <2>1
  <2>3. first = [k \in 1 .. c |-> todo[k]]
    BY <1>1, <1>2, <2>1
  <2> QED
    BY <1>2, <2>2, <2>3
<1>5. After(todo) = rest
  BY <1>3, <1>4 DEF After, n
<1>6. /\ rest \in Seq(Items) /\ Len(rest) = n - c /\ DOMAIN rest = 1 .. n - c
      /\ \A k \in 1 .. n - c : rest[k] = todo[c + k]
  <2>1. n = Len(todo)
    BY DEF n
  <2>2. \A k \in 1 .. n - c : c + k \in 1 .. n /\ todo[c + k] \in Items
    BY <1>1, <1>2, <2>1
  <2>3. rest = [k \in 1 .. n - c |-> todo[c + k]]
    BY <1>1, <1>2, <2>1
  <2> HIDE DEF rest
  <2> QED
    BY <1>1, <1>2, <2>2, <2>3
<1> HIDE DEF first, rest
<1>7. ASSUME NEW i \in DOMAIN todo
      PROVE  (\E k \in DOMAIN first : first[k] = todo[i]) \/ (\E k \in DOMAIN rest : rest[k] = todo[i])
  <2>1. CASE i <= c
    BY <1>1, <1>2, <1>4, <2>1
  <2>2. CASE ~(i <= c)
    <3>1. i - c \in 1 .. n - c /\ c + (i - c) = i
      BY <1>1, <1>2, <2>2
    <3> QED
      BY <1>6, <3>1
  <2> QED
    BY <2>1, <2>2
<1> QED
  BY <1>1, <1>2, <1>3, <1>4, <1>5, <1>6, <1>7 DEF n

\* The pages of a window of the feed, each once.
LEMMA ReportedIs ==
    ASSUME NEW window \in Seq(Pages)
    PROVE  /\ Reported(window) \in Seq(Pages)
           /\ \A i \in DOMAIN window : \E k \in DOMAIN Reported(window) : Reported(window)[k] = window[i]
<1> DEFINE I == {i \in DOMAIN window : \A j \in 1 .. i - 1 : window[j] # window[i]}
<1>1. I \in SUBSET DOMAIN window
  OBVIOUS
<1>2. Reported(window) = Select(window, I)
  BY DEF Reported
<1> HIDE DEF I
<1>3. /\ Reported(window) \in Seq(Pages)
      /\ \A i \in I : \E k \in DOMAIN Reported(window) : Reported(window)[k] = window[i]
  BY <1>1, <1>2, SelectOf
<1>4. ASSUME NEW i \in DOMAIN window PROVE \E m \in I : window[m] = window[i]
  <2> DEFINE S == {j \in DOMAIN window : window[j] = window[i]}
  <2>1. S \in SUBSET Nat /\ S # {} /\ DOMAIN window = 1 .. Len(window) /\ Len(window) \in Nat
    OBVIOUS
  <2>2. PICK m \in S : \A j \in S : m <= j
    <3> HIDE DEF S
    <3> QED
      BY <2>1, LeastNumber
  <2>3. m \in 1 .. Len(window) /\ window[m] = window[i]
    BY <2>1
  <2>4. \A j \in 1 .. m - 1 : window[j] # window[m]
    BY <2>1, <2>2, <2>3
  <2> QED
    BY <2>1, <2>3, <2>4 DEF I
<1> QED
  BY <1>3, <1>4

---------------------------------------------------------------------------
(***************************************************************************)
(* The census: types                                                       *)
(***************************************************************************)
WorldTypes ==
    /\ world \in Wiki
    /\ feed \in Seq(Pages) /\ ops \in Nat /\ troubles \in Nat /\ credentials \in BOOLEAN
CensusRows == [swept : BOOLEAN, cursor : Places, changes : 0 .. Len(feed), source : Roads]
JobStates == [at : Stages, mode : {"none", "sweep", "watch"}, todo : Seq(Items),
         names : SUBSET Pages, complete : BOOLEAN, source : Roads, finished : BOOLEAN,
         next : Nat, windows : Nat, read : 0 .. Len(feed)]
RecordTypes ==
    /\ \A i \in DOMAIN directory : i \in Nat /\ directory[i].tier \in {"active", "archive"}
    /\ \A n \in Names : catalog[n] = None \/ Name[catalog[n].page] = n
JobTypes ==
    /\ job \in JobStates
    /\ job.mode = "sweep" => job.next \in Places
    /\ job.mode = "watch" => job.next <= Len(feed)

TypeParts ==
    WorldTypes /\ stored \in [Pages -> Rows] /\ census \in CensusRows /\ RecordTypes /\ JobTypes
LEMMA TypesAre == (CensusTypes <=> TypeParts) /\ (CensusTypes' <=> TypeParts')
  BY DEF TypeParts, CensusTypes, WorldTypes, Wiki, CensusRows, RecordTypes, JobTypes, JobStates, Items

\* The numbers among the constants.
LEMMA Bounds ==
    /\ Cardinality(Pages) \in Nat /\ Len(First) \in Nat
    /\ Limit \in Nat /\ Limit > 0 /\ WatchLimit \in Nat /\ WatchLimit > 0 /\ Chunk \in Nat /\ Chunk > 0
<1>1. Cardinality(Pages) \in Nat
  BY DirectoryAssumption, FS_CardinalityType
<1>2. Len(First) \in Nat
  BY ScriptsAssumption
<1> QED
  BY <1>1, <1>2, ScriptsAssumption

\* An idle job.
LEMMA IdleIs ==
    ASSUME feed \in Seq(Pages)
    PROVE  Idle \in JobStates /\ Idle.mode = "none" /\ Idle.next = 0
<1>1. Len(feed) \in Nat
  OBVIOUS
<1>2. << >> \in Seq(Items)
  OBVIOUS
<1> QED
  BY <1>1, <1>2 DEF Idle, JobStates, Stages, Roads

LEMMA CensusStarts == CensusInit => CensusTypes
<1> SUFFICES ASSUME CensusInit PROVE CensusTypes
  OBVIOUS
<1>1. NoRow \in Rows
  <2>1. (CHOOSE b \in Bodies : TRUE) \in Bodies
    BY DirectoryAssumption
  <2> QED
    BY <2>1 DEF NoRow, Rows
<1>2. feed \in Seq(Pages) /\ Len(feed) = 0
  <2>1. feed = << >>
    BY DEF CensusInit
  <2> QED
    BY <2>1, EmptySeq
<1>3. world \in Wiki
  <2>1. PICK bodies \in [ToSet(First) -> Bodies] :
          world = [p \in Pages |->
                     IF p \in ToSet(First)
                     THEN [there |-> TRUE, id |-> CHOOSE i \in DOMAIN First : First[i] = p,
                           rev |-> 1, body |-> bodies[p]]
                     ELSE [there |-> FALSE, id |-> 0, rev |-> 0, body |-> NoRow.body]]
    BY DEF CensusInit
  <2>2. ASSUME NEW p \in ToSet(First) PROVE (CHOOSE i \in DOMAIN First : First[i] = p) \in Nat
    <3>1. \E i \in DOMAIN First : First[i] = p
      BY DEF ToSet
    <3>2. DOMAIN First \subseteq Nat
      BY ScriptsAssumption
    <3> QED
      BY <3>1, <3>2
  <2>3. NoRow.body \in Bodies
    BY <1>1 DEF Rows
  <2>4. ASSUME NEW p \in Pages
        PROVE  world[p] \in [there : BOOLEAN, id : Nat, rev : Nat, body : Bodies]
    <3>1. CASE p \in ToSet(First)
      BY <2>1, <2>2, <3>1
    <3>2. CASE p \notin ToSet(First)
      BY <2>1, <2>3, <3>2
    <3> QED
      BY <3>1, <3>2
  <2>5. world = [p \in Pages |-> world[p]]
    BY <2>1
  <2> QED
    BY <2>4, <2>5 DEF Wiki
<1>4. stored \in [Pages -> Rows]
  BY <1>1 DEF CensusInit
<1>5. census \in CensusRows
  <2>1. census = [swept |-> FALSE, cursor |-> 0, changes |-> 0, source |-> ""]
    BY DEF CensusInit
  <2> QED
    <3>1. 0 \in Places /\ 0 \in 0 .. Len(feed) /\ "" \in Roads
      BY <1>2, Bounds DEF Places, Roads
    <3> QED
      BY <2>1, <3>1 DEF CensusRows
<1>6. RecordTypes
  <2>1. directory = << >> /\ catalog = [n \in Names |-> None]
    BY DEF CensusInit
  <2> QED
    BY <2>1 DEF RecordTypes
<1>7. JobTypes
  BY <1>2, IdleIs DEF CensusInit, JobTypes
<1>8. WorldTypes
  BY <1>2, <1>3 DEF CensusInit, WorldTypes
<1> QED
  BY <1>4, <1>5, <1>6, <1>7, <1>8, TypesAre DEF TypeParts

\* Outside.
LEMMA OutsideTypes ==
    ASSUME CensusTypes,
           (\E p \in Pages, b \in Bodies : Save(p, b)) \/ (\E p \in Pages : Delete(p)) \/ Equip
    PROVE  CensusTypes'
<1> USE DEF wiki, rowsOf
<1>0. WorldTypes /\ stored \in [Pages -> Rows] /\ census \in CensusRows /\ RecordTypes /\ JobTypes
  BY TypesAre DEF TypeParts
<1>1. CASE \E p \in Pages, b \in Bodies : Save(p, b)
  <2>1. PICK p \in Pages, b \in Bodies : Save(p, b)
    BY <1>1
  <2>2. feed' \in Seq(Pages) /\ Len(feed') = Len(feed) + 1 /\ Len(feed) \in Nat
    BY <1>0, <2>1 DEF Save, WorldTypes
  <2>3. world' \in Wiki /\ ops' \in Nat
    BY <1>0, <2>1, Bounds DEF Save, WorldTypes, Wiki
  <2>4. census' \in CensusRows' /\ stored' \in [Pages -> Rows] /\ RecordTypes' /\ WorldTypes'
    BY <1>0, <2>1, <2>2, <2>3 DEF Save, CensusRows, RecordTypes, WorldTypes
  <2>5. JobTypes'
    <3>1. job' = job
      BY <2>1 DEF Save
    <3>2. 0 .. Len(feed) \subseteq 0 .. Len(feed')
      BY <2>2
    <3>3. job \in JobStates'
      BY <1>0, <3>2 DEF JobTypes, JobStates
    <3>4. job.mode = "watch" => job.next <= Len(feed')
      BY <1>0, <2>2 DEF JobTypes, JobStates
    <3> QED
      BY <1>0, <3>1, <3>3, <3>4 DEF JobTypes
  <2> QED
    BY <2>4, <2>5, TypesAre DEF TypeParts
<1>2. CASE \E p \in Pages : Delete(p)
  <2>1. PICK p \in Pages : Delete(p)
    BY <1>2
  <2>2. WorldTypes'
    <3>1. world' = [world EXCEPT ![p].there = FALSE] /\ world \in Wiki
      BY <1>0, <2>1 DEF Delete, WorldTypes
    <3>2. world' \in Wiki
      <4>1. world[p] \in [there : BOOLEAN, id : Nat, rev : Nat, body : Bodies]
        BY <3>1 DEF Wiki
      <4>2. [world[p] EXCEPT !.there = FALSE] \in [there : BOOLEAN, id : Nat, rev : Nat, body : Bodies]
        BY <4>1
      <4> QED
        BY <3>1, <4>2 DEF Wiki
    <3> QED
      BY <1>0, <2>1, <3>2 DEF Delete, WorldTypes
  <2>3. census' \in CensusRows' /\ stored' \in [Pages -> Rows] /\ RecordTypes' /\ JobTypes'
    BY <1>0, <2>1 DEF Delete, CensusRows, RecordTypes, JobTypes, JobStates
  <2> QED
    BY <2>2, <2>3, TypesAre DEF TypeParts
<1>3. CASE Equip
  <2>1. WorldTypes' /\ census' \in CensusRows' /\ stored' \in [Pages -> Rows] /\ RecordTypes' /\ JobTypes'
    BY <1>0, <1>3 DEF Equip, CensusRows, RecordTypes, JobTypes, JobStates, WorldTypes
  <2> QED
    BY <2>1, TypesAre DEF TypeParts
<1> QED
  BY <1>1, <1>2, <1>3

\* Between runs, and a run cut short.
LEMMA QuietTypes ==
    ASSUME CensusTypes, StartSweep \/ StartWatch \/ Stop
    PROVE  CensusTypes'
<1> USE DEF wiki, rowsOf
<1>0. WorldTypes /\ stored \in [Pages -> Rows] /\ census \in CensusRows /\ RecordTypes /\ JobTypes
  BY TypesAre DEF TypeParts
<1>1. feed' = feed /\ feed \in Seq(Pages) /\ Len(feed) \in Nat
  BY <1>0 DEF StartSweep, StartWatch, Stop, WorldTypes
<1>2. WorldTypes' /\ stored' \in [Pages -> Rows] /\ RecordTypes'
  BY <1>0 DEF StartSweep, StartWatch, Stop, WorldTypes, RecordTypes
<1>3. census' \in CensusRows'
  BY <1>0, <1>1 DEF StartSweep, StartWatch, Stop, CensusRows, SeedChanges
<1>4. Idle \in JobStates /\ Idle.mode = "none" /\ Idle.next = 0
  BY <1>1, IdleIs
<1>5. JobTypes'
  <2>1. CASE StartSweep
    <3>1. job' = [Idle EXCEPT !.at = "enumerate", !.mode = "sweep"]
      BY <2>1 DEF StartSweep
    <3>2. job' \in JobStates /\ job'.next = 0 /\ job'.mode = "sweep"
      BY <1>4, <3>1 DEF JobStates, Stages
    <3> QED
      BY <1>1, <3>2, Bounds DEF JobTypes, JobStates, Places
  <2>2. CASE StartWatch
    <3>1. job' = [Idle EXCEPT !.at = "window", !.mode = "watch", !.read = census.changes]
      BY <2>2 DEF StartWatch
    <3>2. job' \in JobStates /\ job'.next = 0 /\ job'.mode = "watch"
      BY <1>0, <1>4, <3>1 DEF JobStates, Stages, CensusRows
    <3> QED
      BY <1>1, <3>2 DEF JobTypes, JobStates
  <2>3. CASE Stop
    BY <1>1, <1>4, <2>3 DEF Stop, JobTypes, JobStates
  <2> QED
    BY <2>1, <2>2, <2>3
<1> QED
  BY <1>2, <1>3, <1>5, TypesAre DEF TypeParts

\* Naming the pages.
LEMMA EnumeratedTypes ==
    ASSUME CensusTypes, NEW found, NEW source \in Roads, Found(found, source), job.mode = "sweep",
           Enumerated(found), UNCHANGED <<wiki, rowsOf, credentials>>, troubles' \in Nat
    PROVE  CensusTypes'
<1>0. WorldTypes /\ stored \in [Pages -> Rows] /\ census \in CensusRows /\ RecordTypes /\ JobTypes
  BY TypesAre DEF TypeParts
<1>1. UNCHANGED <<world, feed, ops, stored, census, directory, catalog, credentials>>
  BY DEF wiki, rowsOf
<1> DEFINE w == Window(found)
<1>2. /\ w.todo \in Seq(Items) /\ w.end \in Nat /\ w.end <= Len(found.names)
  <2>1. census.cursor \in Nat
    BY <1>0, Bounds DEF CensusRows, Places
  <2> QED
    BY <2>1, WindowIs
<1>3. /\ found.names \in Seq(Pages) /\ Len(found.names) \in Nat /\ Len(found.names) <= Cardinality(Pages)
      /\ found.complete \in BOOLEAN /\ found.source = source
  BY DEF Found
<1>4. job' = [job EXCEPT !.at = "ingest", !.todo = w.todo, !.names = ToSet(found.names),
                         !.complete = found.complete, !.source = found.source,
                         !.finished = w.end = Len(found.names),
                         !.next = IF w.end = Len(found.names) THEN 0 ELSE w.end]
  BY DEF Enumerated
<1> HIDE DEF w
<1>5. (IF w.end = Len(found.names) THEN 0 ELSE w.end) \in Places
  BY <1>2, <1>3, Bounds DEF Places
<1>6. ToSet(found.names) \in SUBSET Pages
  BY <1>3 DEF ToSet
<1>7. job' \in JobStates /\ job'.mode = "sweep" /\ job'.next \in Places
  BY <1>0, <1>2, <1>3, <1>4, <1>5, <1>6, Bounds DEF JobTypes, JobStates, Stages, Places
<1>8. JobTypes'
  BY <1>1, <1>7 DEF JobTypes, JobStates
<1>9. WorldTypes' /\ stored' \in [Pages -> Rows] /\ census' \in CensusRows' /\ RecordTypes'
  BY <1>0, <1>1 DEF WorldTypes, CensusRows, RecordTypes
<1> QED
  BY <1>8, <1>9, TypesAre DEF TypeParts

\* Reading what is named.
LEMMA IngestTypes ==
    ASSUME CensusTypes, IngestChunk \/ IngestLagged
    PROVE  CensusTypes'
<1>0. WorldTypes /\ stored \in [Pages -> Rows] /\ census \in CensusRows /\ RecordTypes /\ JobTypes
  BY TypesAre DEF TypeParts
<1>1. UNCHANGED <<world, feed, ops, census, directory, catalog, credentials>>
  BY DEF IngestChunk, IngestLagged, wiki
<1>2. /\ job.todo \in Seq(Items) /\ job \in JobStates
      /\ ChunkOf(job.todo) \in Seq(Items) /\ After(job.todo) \in Seq(Items) /\ << >> \in Seq(Items)
      /\ Len(ChunkOf(job.todo)) \in Nat /\ Len(ChunkOf(job.todo)) <= Len(job.todo)
  <2>1. job.todo \in Seq(Items) /\ job \in JobStates
    BY <1>0 DEF JobTypes, JobStates
  <2> QED
    BY <2>1, ChunkIs
<1>3. stored' \in [Pages -> Rows]
  <2>0. \A chunk \in Seq(Items) : Ingested(stored, chunk) \in [Pages -> Rows]
    BY <1>0, IngestedIs DEF WorldTypes
  <2>1. CASE IngestChunk
    <3> DEFINE chunk == ChunkOf(job.todo)
    <3>1. PICK lost : stored' = Ingested(stored, Select(chunk, DOMAIN chunk \ lost))
      BY <2>1 DEF IngestChunk
    <3>2. DOMAIN chunk \ lost \in SUBSET DOMAIN chunk /\ chunk \in Seq(Items)
      BY <1>2
    <3> HIDE DEF chunk
    <3>3. Select(chunk, DOMAIN chunk \ lost) \in Seq(Items)
      BY <3>2, SelectOf
    <3> QED
      BY <2>0, <3>1, <3>3
  <2>2. CASE IngestLagged
    <3>1. PICK n \in 0 .. Len(ChunkOf(job.todo)) - 1 : stored' = Ingested(stored, SubSeq(job.todo, 1, n))
      BY <2>2 DEF IngestLagged
    <3>2. n \in Nat /\ n <= Len(job.todo) /\ Len(job.todo) \in Nat
      BY <1>2, <3>1
    <3>3. SubSeq(job.todo, 1, n) \in Seq(Items)
      <4>1. SubSeq(job.todo, 1, n) = [k \in 1 .. n |-> job.todo[k]]
        BY <1>2, <3>2
      <4>2. \A k \in 1 .. n : job.todo[k] \in Items
        BY <1>2, <3>2
      <4> QED
        BY <3>2, <4>1, <4>2
    <3> QED
      BY <2>0, <3>1, <3>3
  <2> QED
    BY <2>1, <2>2
<1>4. \/ job' = [job EXCEPT !.todo = After(@)]
      \/ job' = [job EXCEPT !.todo = <<>>, !.at = "lagged"]
  BY DEF IngestChunk, IngestLagged
<1>5. job' \in JobStates /\ job'.mode = job.mode /\ job'.next = job.next
  BY <1>2, <1>4 DEF JobStates, Stages
<1>6. JobTypes'
  BY <1>0, <1>1, <1>5 DEF JobTypes, JobStates
<1>7. WorldTypes' /\ census' \in CensusRows' /\ RecordTypes'
  <2>1. troubles' \in Nat
    BY <1>0 DEF IngestChunk, IngestLagged, WorldTypes
  <2> QED
    BY <1>0, <1>1, <2>1 DEF WorldTypes, CensusRows, RecordTypes
<1> QED
  BY <1>3, <1>6, <1>7, TypesAre DEF TypeParts

\* The end of a sweep.
LEMMA FinishTypes ==
    ASSUME CensusTypes, job.mode = "sweep", NEW lagged \in BOOLEAN, FinishPass(lagged)
    PROVE  CensusTypes'
<1>0. WorldTypes /\ stored \in [Pages -> Rows] /\ census \in CensusRows /\ RecordTypes /\ JobTypes
  BY TypesAre DEF TypeParts
<1>1. UNCHANGED <<world, feed, ops, troubles, directory, catalog, credentials>>
  BY DEF FinishPass, wiki
<1>2. stored' \in [Pages -> Rows]
  <2>1. stored' = MarkMissing(Whole(lagged))
    BY DEF FinishPass
  <2>2. \A p \in Pages : [stored[p] EXCEPT !.gone = TRUE] \in Rows
    BY <1>0 DEF Rows
  <2> QED
    BY <1>0, <2>1, <2>2 DEF MarkMissing
<1>3. census' \in CensusRows'
  <2>1. job.finished \in BOOLEAN /\ job.source \in Roads /\ job.next \in Places
    BY <1>0 DEF JobTypes, JobStates
  <2>2. census' = [census EXCEPT !.swept = @ \/ (job.finished /\ ~lagged),
                                 !.source = job.source,
                                 !.cursor = IF lagged THEN @ ELSE job.next]
    BY DEF FinishPass
  <2> QED
    BY <1>0, <1>1, <2>1, <2>2 DEF CensusRows
<1>4. JobTypes'
  <2>1. Idle \in JobStates /\ Idle.mode = "none"
    BY <1>0, IdleIs DEF WorldTypes
  <2>2. job' = [Idle EXCEPT !.at = "stamp"]
    BY DEF FinishPass
  <2>3. job' \in JobStates /\ job'.mode = "none"
    BY <2>1, <2>2 DEF JobStates, Stages
  <2> QED
    BY <1>1, <2>3 DEF JobTypes, JobStates
<1>5. WorldTypes' /\ RecordTypes'
  BY <1>0, <1>1 DEF WorldTypes, RecordTypes
<1> QED
  BY <1>2, <1>3, <1>4, <1>5, TypesAre DEF TypeParts

\* A watch.
LEMMA WatchTypes ==
    ASSUME CensusTypes, ReadWindow \/ NextWindow \/ FinishWatch, job.at = "window" => job.mode = "watch"
    PROVE  CensusTypes'
<1>0. WorldTypes /\ stored \in [Pages -> Rows] /\ census \in CensusRows /\ RecordTypes /\ JobTypes
  BY TypesAre DEF TypeParts
<1>1. UNCHANGED <<world, feed, ops, troubles, stored, directory, catalog, credentials>>
  BY DEF ReadWindow, NextWindow, FinishWatch, wiki, rowsOf
<1>2. /\ job \in JobStates /\ job.read \in 0 .. Len(feed) /\ job.next \in Nat /\ job.windows \in Nat
      /\ feed \in Seq(Pages) /\ Len(feed) \in Nat
  BY <1>0 DEF JobTypes, JobStates, WorldTypes
<1>3. WorldTypes' /\ stored' \in [Pages -> Rows] /\ RecordTypes'
  BY <1>0, <1>1 DEF WorldTypes, RecordTypes
<1>4. census' \in CensusRows'
  <2>1. census' = census \/ census' = [census EXCEPT !.changes = job.read]
    BY DEF ReadWindow, NextWindow, FinishWatch, rowsOf
  <2> QED
    BY <1>0, <1>1, <1>2, <2>1 DEF CensusRows
<1>5. JobStates' = JobStates
  BY <1>1 DEF JobStates
<1>6. JobTypes'
  <2>1. CASE ReadWindow
    <3> DEFINE end == IF Len(feed) - job.read < WatchLimit THEN Len(feed) ELSE job.read + WatchLimit
               pages == Reported(SubSeq(feed, job.read + 1, end))
               todo == [i \in DOMAIN pages |-> [page |-> pages[i], rank |-> 0]]
    <3>1. job' = [job EXCEPT !.at = "ingest", !.windows = @ + 1, !.next = end, !.todo = todo]
      BY <2>1 DEF ReadWindow
    <3>2. end \in Nat /\ end <= Len(feed) /\ job.read + 1 \in Nat
      BY <1>2, Bounds
    <3> HIDE DEF end
    <3>3. SubSeq(feed, job.read + 1, end) \in Seq(Pages)
      BY <1>2, <3>2, SubSeqProperties
    <3>4. pages \in Seq(Pages)
      BY <3>3, ReportedIs
    <3> HIDE DEF pages
    <3>5. todo \in Seq(Items)
      <4>1. \A i \in DOMAIN pages : [page |-> pages[i], rank |-> 0] \in Items
        BY <3>4 DEF Items
      <4>2. DOMAIN pages = 1 .. Len(pages) /\ Len(pages) \in Nat
        BY <3>4
      <4> QED
        BY <4>1, <4>2
    <3> HIDE DEF todo
    <3>6. job.windows + 1 \in Nat /\ "ingest" \in Stages
      BY <1>2 DEF Stages
    <3>7. job' \in JobStates
      BY <1>2, <3>1, <3>2, <3>5, <3>6 DEF JobStates
    <3>8. job'.mode = job.mode /\ job'.next = end /\ job'.read = job.read
      BY <1>2, <3>1 DEF JobStates
    <3>9. job.mode = "watch"
      BY <2>1 DEF ReadWindow
    <3> QED
      BY <1>1, <1>5, <3>2, <3>7, <3>8, <3>9 DEF JobTypes
  <2>2. CASE NextWindow
    <3>1. job' = [job EXCEPT !.at = "window", !.read = job.next] /\ job.mode = "watch"
      BY <2>2 DEF NextWindow
    <3>2. job.next <= Len(feed)
      BY <1>0, <3>1 DEF JobTypes
    <3>3. job.next \in 0 .. Len(feed) /\ "window" \in Stages
      BY <1>2, <3>2 DEF Stages
    <3>4. job' \in JobStates
      BY <1>2, <3>1, <3>3 DEF JobStates
    <3>5. job'.mode = "watch" /\ job'.next = job.next /\ job'.read = job.next
      BY <1>2, <3>1 DEF JobStates
    <3> QED
      BY <1>1, <1>5, <3>2, <3>4, <3>5 DEF JobTypes
  <2>3. CASE FinishWatch
    <3>1. Idle \in JobStates /\ Idle.mode = "none"
      BY <1>2, IdleIs
    <3>2. job' = [Idle EXCEPT !.at = "stamp"]
      BY <2>3 DEF FinishWatch
    <3>3. job' \in JobStates /\ job'.mode = "none"
      BY <3>1, <3>2 DEF JobStates, Stages
    <3> QED
      BY <1>1, <3>3 DEF JobTypes, JobStates
  <2> QED
    BY <2>1, <2>2, <2>3
<1> QED
  BY <1>3, <1>4, <1>6, TypesAre DEF TypeParts

\* The rest of a run.
LEMMA RestTypes ==
    ASSUME CensusTypes, Stamp \/ Project \/ Synchronize
    PROVE  CensusTypes'
<1>0. WorldTypes /\ stored \in [Pages -> Rows] /\ census \in CensusRows /\ RecordTypes /\ JobTypes
  BY TypesAre DEF TypeParts
<1>1. UNCHANGED <<world, feed, ops, troubles, census, credentials>>
  BY DEF Stamp, Project, Synchronize, wiki
<1>2. WorldTypes' /\ census' \in CensusRows'
  BY <1>0, <1>1 DEF WorldTypes, CensusRows
<1>3. stored' \in [Pages -> Rows]
  <2>1. stored' = stored \/ stored' = Dated
    BY DEF Stamp, Project, Synchronize
  <2>2. \A p \in Pages : [stored[p] EXCEPT !.born = world[p].id] \in Rows
    BY <1>0 DEF Rows, WorldTypes, Wiki
  <2> QED
    BY <1>0, <2>1, <2>2 DEF Dated
<1>4. JobTypes'
  <2>1. Idle \in JobStates /\ Idle.mode = "none"
    BY <1>0, IdleIs DEF WorldTypes
  <2>2. \/ job' = [job EXCEPT !.at = "project"] \/ job' = [job EXCEPT !.at = "synchronize"] \/ job' = Idle
    BY DEF Stamp, Project, Synchronize
  <2>3. job' \in JobStates /\ (job'.mode = "none" \/ (job'.mode = job.mode /\ job'.next = job.next))
    BY <1>0, <2>1, <2>2 DEF JobTypes, JobStates, Stages
  <2> QED
    BY <1>0, <1>1, <2>3 DEF JobTypes, JobStates
<1>5. RecordTypes'
  <2>1. CASE Stamp
    BY <1>0, <2>1 DEF Stamp, RecordTypes
  <2>2. CASE Project
    <3>1. directory' = Directory(stored) /\ catalog' = catalog
      BY <2>2 DEF Project
    <3> DEFINE home == Collapse(stored)
               order == RankedByDemand(stored, home)
    <3>2. directory' = [i \in DOMAIN order |-> Entry(stored, home, order[i])]
      BY <3>1 DEF Directory
    <3>3. DOMAIN order = 1 .. Cardinality(Originals(home))
      BY DEF RankedByDemand
    <3>4. DOMAIN order \subseteq Int /\ \A i \in DOMAIN order : i \in Nat
      BY <3>3
    <3>5. \A p : Entry(stored, home, p).tier \in {"active", "archive"}
      BY DEF Entry, TierOf
    <3> HIDE DEF home, order
    <3> QED
      BY <1>0, <3>1, <3>2, <3>4, <3>5 DEF RecordTypes
  <2>3. CASE Synchronize
    <3>1. directory' = directory /\ catalog' = WriteRecords(catalog, directory)
      BY <2>3 DEF Synchronize
    <3>2. ASSUME NEW n \in DOMAIN Wanted(directory) PROVE Name[Wanted(directory)[n].page] = n
      <4> DEFINE I == Named(directory, n)
                 first == CHOOSE i \in I : \A j \in I : i <= j
      <4>1. n \in Names /\ I # {} /\ Wanted(directory)[n] = Record(directory[first])
        BY <3>2 DEF Wanted
      <4>2. I \in SUBSET Nat
        BY <1>0 DEF Named, RecordTypes
      <4>3. \E i \in I : \A j \in I : i <= j
        <5> HIDE DEF I
        <5> QED
          BY <4>1, <4>2, LeastNumber
      <4>4. first \in I
        <5> HIDE DEF I
        <5> QED
          BY <4>3
      <4>5. Name[directory[first].page] = n
        <5> HIDE DEF first
        <5> QED
          BY <4>4 DEF Named
      <4> HIDE DEF first
      <4> QED
        BY <4>1, <4>5 DEF Record
    <3>3. \A n \in Names : catalog'[n] = None \/ Name[catalog'[n].page] = n
      BY <3>1, <3>2 DEF WriteRecords
    <3> QED
      BY <1>0, <3>1, <3>3 DEF RecordTypes
  <2> QED
    BY <2>1, <2>2, <2>3
<1> QED
  BY <1>2, <1>3, <1>4, <1>5, TypesAre DEF TypeParts

\* What the step of a run says of its kind.
StageOf ==
    /\ job.at = "enumerate" => job.mode = "sweep"
    /\ job.at = "window" => job.mode = "watch"
TypedInv == CensusTypes /\ StageOf

\* Each step of the lane keeps the types.
LEMMA TypesKept ==
    ASSUME TypedInv, [CensusNext]_censusVars
    PROVE  TypedInv'
<1> USE DEF TypedInv
<1>0. WorldTypes /\ JobTypes
  BY TypesAre DEF TypeParts
<1>1. job \in JobStates /\ credentials \in BOOLEAN /\ world \in Wiki /\ troubles \in Nat
      /\ Idle \in JobStates /\ Idle.at = "idle" /\ Idle.mode = "none"
  <2>1. Idle \in JobStates /\ Idle.mode = "none"
    BY <1>0, IdleIs DEF WorldTypes
  <2> QED
    BY <1>0, <2>1 DEF WorldTypes, JobTypes, Idle
<1>2. CASE UNCHANGED censusVars
  <2>1. TypeParts
    BY TypesAre
  <2>2. TypeParts' /\ StageOf'
    BY <1>2, <2>1 DEF censusVars, TypeParts, WorldTypes, CensusRows, RecordTypes, JobTypes, JobStates, StageOf
  <2> QED
    BY <2>2, TypesAre
<1>3. CASE \/ \E p \in Pages, b \in Bodies : Save(p, b)
           \/ \E p \in Pages : Delete(p)
           \/ Equip
  <2>1. job' = job
    BY <1>3 DEF Save, Delete, Equip
  <2>2. StageOf'
    BY <2>1 DEF StageOf
  <2> QED
    BY <1>3, <2>2, OutsideTypes
<1>4. CASE StartSweep \/ StartWatch \/ Stop
  <2>1. \/ job' = [Idle EXCEPT !.at = "enumerate", !.mode = "sweep"]
        \/ job' = [Idle EXCEPT !.at = "window", !.mode = "watch", !.read = census.changes]
        \/ job' = Idle
    BY <1>4 DEF StartSweep, StartWatch, Stop
  <2>2. StageOf'
    BY <1>1, <2>1 DEF StageOf, JobStates
  <2> QED
    BY <1>4, <2>2, QuietTypes
<1>5. CASE Enumerate \/ EnumerateFallback
  <2> DEFINE NamesBy(found, source) == Found(found, source) /\ Enumerated(found)
  <2>1. troubles' \in Nat /\ UNCHANGED <<wiki, rowsOf, credentials>>
    BY <1>1, <1>5 DEF Enumerate, EnumerateFallback
  <2>2. \E source \in Roads : \E found : NamesBy(found, source)
    <3>1. "replica" \in Roads /\ "search" \in Roads /\ "search-fallback" \in Roads
      BY DEF Roads
    <3>2. \/ Enumerated(ByReplica) \/ Enumerated(BySearch("search")) \/ Enumerated(BySearch("search-fallback"))
      <4> HIDE DEF TypedInv
      <4> QED
        BY <1>5 DEF Enumerate, EnumerateFallback
    <3>3. CASE Enumerated(ByReplica)
      <4>1. NamesBy(ByReplica, "replica")
        BY <1>1, <3>3, ByReplicaIs
      <4> HIDE DEF NamesBy
      <4> QED
        BY <3>1, <4>1
    <3>4. ASSUME NEW source \in Roads, Enumerated(BySearch(source))
          PROVE  \E found : NamesBy(found, source)
      <4>1. NamesBy(BySearch(source), source)
        BY <1>1, <3>4, BySearchIs
      <4> HIDE DEF NamesBy
      <4> QED
        BY <4>1
    <3> HIDE DEF NamesBy
    <3> QED
      BY <3>1, <3>2, <3>3, <3>4
  <2>3. PICK source \in Roads : \E found : NamesBy(found, source)
    BY <2>2
  <2>4. PICK found : NamesBy(found, source)
    BY <2>3
  <2>5. job.mode = "sweep"
    BY <1>5 DEF StageOf, Enumerate, EnumerateFallback
  <2>6. StageOf'
    BY <1>1, <2>4, <2>5 DEF Enumerated, StageOf, JobStates
  <2> QED
    BY <2>1, <2>4, <2>5, <2>6, EnumeratedTypes
<1>6. CASE IngestChunk \/ IngestLagged
  <2>1. job'.at \in {"ingest", "lagged"}
    BY <1>1, <1>6 DEF IngestChunk, IngestLagged, JobStates
  <2>2. StageOf'
    BY <2>1 DEF StageOf
  <2> QED
    BY <1>6, <2>2, IngestTypes
<1>7. CASE FinishSweep \/ FinishLagged
  <2>1. PICK lagged \in BOOLEAN : FinishPass(lagged) /\ job.mode = "sweep"
    BY <1>7 DEF FinishSweep, FinishLagged
  <2>2. job'.at = "stamp"
    BY <1>1, <2>1 DEF FinishPass, JobStates
  <2>3. StageOf'
    BY <2>2 DEF StageOf
  <2> QED
    BY <2>1, <2>3, FinishTypes
<1>8. CASE ReadWindow \/ NextWindow \/ FinishWatch
  <2>1. job'.at \in {"ingest", "stamp"} \/ (job'.at = "window" /\ job'.mode = "watch")
    BY <1>1, <1>8 DEF ReadWindow, NextWindow, FinishWatch, JobStates
  <2>2. StageOf'
    BY <2>1 DEF StageOf
  <2> QED
    BY <1>8, <2>2, WatchTypes DEF StageOf
<1>9. CASE Stamp \/ Project \/ Synchronize
  <2>1. job'.at \in {"project", "synchronize", "idle"}
    BY <1>1, <1>9 DEF Stamp, Project, Synchronize, JobStates
  <2>2. StageOf'
    BY <2>1 DEF StageOf
  <2> QED
    BY <1>9, <2>2, RestTypes
<1> QED
  BY <1>2, <1>3, <1>4, <1>5, <1>6, <1>7, <1>8, <1>9 DEF CensusNext, Run

LEMMA CensusTyped == CensusSpec => []TypedInv
<1>1. CensusInit => TypedInv
  <2>1. CensusInit => StageOf
    <3>1. Idle.at = "idle"
      BY DEF Idle
    <3> QED
      BY <3>1 DEF CensusInit, StageOf
  <2> QED
    BY <2>1, CensusStarts DEF TypedInv
<1>2. TypedInv /\ [CensusNext]_censusVars => TypedInv'
  BY TypesKept
<1> QED
  BY <1>1, <1>2, PTL DEF CensusSpec

\* DirectorySound, for every wiki and every way its pages change: two entries of a directory are
\* never copies of one another, every page is filed under a page it is like or shares its file
\* name with, and a page that others load is never filed for its file name alone.
THEOREM ScriptsApart == CensusSpec => []DirectorySound
<1>1. TypedInv => DirectorySound
  <2> SUFFICES ASSUME TypedInv PROVE DirectorySound
    OBVIOUS
  <2>1. stored \in [Pages -> Rows]
    BY TypesAre DEF TypedInv, TypeParts
  <2> QED
    BY <2>1, CollapseSound DEF DirectorySound, ScriptsDistinct, LoadedStands
<1> QED
  BY <1>1, CensusTyped, PTL

---------------------------------------------------------------------------
(***************************************************************************)
(* The census: nothing is missed                                           *)
(***************************************************************************)
\* What CensusInv says with types.
LEMMA InvTyped == CensusInv => TypedInv
  BY DEF CensusInv, TypedInv, StageOf, OnTheRoad

\* The pages that changed after a place of the feed.
LEMMA SuffixIs ==
    ASSUME NEW T, NEW s \in Seq(T), NEW n \in Nat, n <= Len(s)
    PROVE  \A x : x \in ToSet(SubSeq(s, n + 1, Len(s))) <=> \E i \in n + 1 .. Len(s) : s[i] = x
<1> DEFINE t == SubSeq(s, n + 1, Len(s))
<1>1. Len(s) \in Nat /\ n + 1 \in Nat
  OBVIOUS
<1>2. DOMAIN t = 1 .. Len(s) - n /\ \A k \in 1 .. Len(s) - n : t[k] = s[n + k]
  <2>1. t = [k \in 1 .. Len(s) - n |-> s[n + k]]
    BY <1>1
  <2> HIDE DEF t
  <2> QED
    BY <2>1
<1>3. ToSet(t) = {t[k] : k \in DOMAIN t}
  BY DEF ToSet
<1> HIDE DEF t
<1>4. ASSUME NEW i \in n + 1 .. Len(s) PROVE s[i] \in ToSet(t)
  <2>1. i - n \in 1 .. Len(s) - n /\ n + (i - n) = i
    BY <1>1
  <2> QED
    BY <1>2, <1>3, <2>1
<1>5. ASSUME NEW x \in ToSet(t) PROVE \E i \in n + 1 .. Len(s) : s[i] = x
  <2>1. PICK k \in 1 .. Len(s) - n : x = t[k]
    BY <1>2, <1>3
  <2>2. n + k \in n + 1 .. Len(s)
    BY <1>1
  <2> QED
    BY <1>2, <2>1, <2>2
<1>6. \A x : x \in ToSet(t) <=> \E i \in n + 1 .. Len(s) : s[i] = x
  BY <1>4, <1>5
<1> QED
  BY <1>6 DEF t

\* Where the places a run and the census remember lie in the feed.
LEMMA InFeed ==
    ASSUME CensusTypes
    PROVE  /\ feed \in Seq(Pages) /\ Len(feed) \in Nat
           /\ census.changes \in Nat /\ census.changes <= Len(feed)
           /\ job.read \in Nat /\ job.read <= Len(feed)
           /\ job.next \in Nat /\ (job.mode = "watch" => job.next <= Len(feed))
<1>1. feed \in Seq(Pages) /\ census \in CensusRows /\ JobTypes
  BY TypesAre DEF TypeParts, WorldTypes
<1>2. Len(feed) \in Nat
  BY <1>1
<1>3. census.changes \in 0 .. Len(feed) /\ job.read \in 0 .. Len(feed) /\ job.next \in Nat
  BY <1>1 DEF CensusRows, JobTypes, JobStates
<1> QED
  BY <1>1, <1>2, <1>3 DEF JobTypes

\* Ids stay apart.
LEMMA IdsKept ==
    ASSUME CensusInv, CensusNext
    PROVE  IdsDiffer'
<1>0. world \in Wiki /\ ops \in Nat /\ Len(First) \in Nat /\ IdsDiffer
  BY TypesAre, Bounds DEF CensusInv, TypeParts, WorldTypes
<1>1. CASE UNCHANGED <<world, ops>>
  BY <1>0, <1>1 DEF IdsDiffer
<1>2. CASE \E p \in Pages, b \in Bodies : Save(p, b)
  <2>1. PICK p \in Pages, b \in Bodies : Save(p, b)
    BY <1>2
  <2>2. /\ ops' = ops + 1
        /\ world' = [world EXCEPT ![p] =
                        [there |-> TRUE, rev |-> @.rev + 1, body |-> b,
                         id |-> IF @.there THEN @.id ELSE Len(First) + 1 + ops]]
    BY <2>1 DEF Save
  <2>3. \A q \in Pages \ {p} : world'[q] = world[q]
    BY <1>0, <2>2 DEF Wiki
  <2>4. world'[p].id = IF world[p].there THEN world[p].id ELSE Len(First) + 1 + ops
    BY <1>0, <2>2 DEF Wiki
  <2>5. \A q \in Pages : world[q].id \in Nat /\ world[q].id <= Len(First) + ops
    BY <1>0 DEF Wiki, IdsDiffer
  <2>6. \A q \in Pages : world'[q].id <= Len(First) + ops'
    BY <1>0, <2>2, <2>3, <2>4, <2>5
  <2>7. \A q \in Pages \ {p} : world[q].there => world'[p].id # world[q].id
    BY <1>0, <2>4, <2>5 DEF IdsDiffer
  <2>8. \A q, r \in Pages : world'[q].there /\ world'[r].there /\ world'[q].id = world'[r].id => q = r
    BY <1>0, <2>3, <2>7 DEF IdsDiffer
  <2> QED
    BY <2>6, <2>8 DEF IdsDiffer
<1>3. CASE \E p \in Pages : Delete(p)
  <2>1. PICK p \in Pages : world' = [world EXCEPT ![p].there = FALSE] /\ ops' = ops + 1
    BY <1>3 DEF Delete
  <2>2. \A q \in Pages : world'[q].id = world[q].id /\ (world'[q].there => world[q].there)
    BY <1>0, <2>1 DEF Wiki
  <2>3. \A q \in Pages : world[q].id \in Nat /\ world[q].id <= Len(First) + ops
    BY <1>0 DEF Wiki, IdsDiffer
  <2>4. \A q \in Pages : world'[q].id <= Len(First) + ops'
    BY <1>0, <2>1, <2>2, <2>3
  <2>5. \A q, r \in Pages : world'[q].there /\ world'[r].there /\ world'[q].id = world'[r].id => q = r
    BY <1>0, <2>2 DEF IdsDiffer
  <2> QED
    BY <2>4, <2>5 DEF IdsDiffer
<1>4. CASE Equip \/ Stop \/ Run
  <2>1. UNCHANGED wiki
    BY <1>4 DEF Equip, Stop, Run, StartSweep, Enumerate, EnumerateFallback, IngestChunk, IngestLagged,
                FinishSweep, FinishLagged, FinishPass, StartWatch, ReadWindow, NextWindow, FinishWatch,
                Stamp, Project, Synchronize
  <2> QED
    BY <1>1, <2>1 DEF wiki
<1> QED
  BY <1>2, <1>3, <1>4 DEF CensusNext

\* One road names the pages, and a census ends once.
LEMMA RoadKept ==
    ASSUME CensusInv, CensusNext, OneRoad
    PROVE  OnTheRoad'
<1>0. /\ OnTheRoad /\ job \in JobStates /\ census \in CensusRows /\ world \in Wiki
      /\ credentials' = credentials /\ Road' = Road /\ Road \in {"replica", "search"}
      /\ Idle \in JobStates /\ Idle.at = "idle" /\ Idle.mode = "none" /\ Idle.source = ""
  <2>1. Idle \in JobStates /\ Idle.mode = "none"
    BY IdleIs, TypesAre DEF CensusInv, TypeParts, WorldTypes
  <2>2. job \in JobStates /\ census \in CensusRows /\ world \in Wiki
    BY TypesAre DEF CensusInv, TypeParts, WorldTypes, JobTypes
  <2>3. credentials' = credentials /\ Road' = Road /\ Road \in {"replica", "search"}
    BY DEF OneRoad, Road
  <2> QED
    BY <2>1, <2>2, <2>3 DEF CensusInv, Idle
<1> HIDE DEF Road
<1>1. CASE (\E p \in Pages, b \in Bodies : Save(p, b)) \/ (\E p \in Pages : Delete(p))
  <2>1. job' = job /\ census' = census
    BY <1>1 DEF Save, Delete, rowsOf
  <2> QED
    BY <1>0, <2>1 DEF OnTheRoad
<1>2. CASE Equip
  <2>1. ~credentials /\ credentials' = TRUE
    BY <1>2 DEF Equip
  <2>2. credentials' = credentials
    BY <1>0
  <2> QED
    BY <2>1, <2>2
<1>3. CASE Stop
  <2>1. job' = Idle /\ census' = census
    BY <1>3 DEF Stop, rowsOf
  <2> QED
    BY <1>0, <2>1 DEF OnTheRoad
<1>4. CASE StartSweep
  <2>1. census.swept = FALSE
    <3> SUFFICES ASSUME census.swept PROVE FALSE
      BY <1>0 DEF CensusRows
    <3>1. census.source = Road /\ census.cursor = 0
      BY <1>0 DEF OnTheRoad
    <3>2. ~Superseded(Road)
      BY DEF Superseded, Road
    <3> QED
      BY <1>4, <3>1, <3>2 DEF StartSweep, SweepDue
  <2>2. census'.swept = census.swept /\ census'.source = census.source
    BY <1>0, <1>4 DEF StartSweep, CensusRows
  <2>3. job'.at = "enumerate" /\ job'.mode = "sweep" /\ job'.source = ""
    BY <1>0, <1>4 DEF StartSweep, JobStates
  <2> QED
    BY <1>0, <2>1, <2>2, <2>3 DEF OnTheRoad
<1>5. CASE Enumerate
  <2> DEFINE found == IF credentials THEN ByReplica ELSE BySearch("search")
  <2>1. found.source = Road /\ (credentials => found.complete)
    <3>1. CASE credentials
      BY <1>0, <3>1, ByReplicaIs DEF Found, Road
    <3>2. CASE ~credentials
      BY <1>0, <3>2, BySearchIs DEF Found, Road
    <3> QED
      BY <3>1, <3>2
  <2>2. Enumerated(found) /\ census' = census /\ job.at = "enumerate"
    BY <1>5 DEF Enumerate, rowsOf
  <2> HIDE DEF found
  <2>3. /\ job'.at = "ingest" /\ job'.mode = job.mode
        /\ job'.source = found.source /\ job'.complete = found.complete
        /\ job'.finished => job'.next = 0
    BY <1>0, <2>2 DEF Enumerated, JobStates
  <2> QED
    BY <1>0, <2>1, <2>2, <2>3 DEF OnTheRoad
<1>6. CASE EnumerateFallback
  <2>1. job'.source = "search-fallback"
    <3>1. BySearch("search-fallback").source = "search-fallback"
      BY DEF BySearch
    <3>2. Enumerated(BySearch("search-fallback"))
      BY <1>6 DEF EnumerateFallback
    <3> QED
      BY <1>0, <3>1, <3>2 DEF Enumerated, JobStates
  <2> QED
    BY <2>1 DEF OneRoad
<1>7. CASE IngestChunk \/ IngestLagged
  <2>1. /\ job.at = "ingest" /\ census' = census
        /\ \/ job' = [job EXCEPT !.todo = After(@)]
           \/ job' = [job EXCEPT !.todo = <<>>, !.at = "lagged"]
    BY <1>7 DEF IngestChunk, IngestLagged
  <2>2. /\ job'.at \in {"ingest", "lagged"} /\ job'.mode = job.mode /\ job'.source = job.source
        /\ job'.complete = job.complete /\ job'.finished = job.finished /\ job'.next = job.next
    BY <1>0, <2>1 DEF JobStates
  <2> QED
    BY <1>0, <2>1, <2>2 DEF OnTheRoad
<1>8. CASE FinishSweep \/ FinishLagged
  <2>1. PICK lagged \in BOOLEAN : FinishPass(lagged) /\ job.mode = "sweep" /\ job.at \in {"ingest", "lagged"}
    BY <1>8 DEF FinishSweep, FinishLagged
  <2>2. /\ census' = [census EXCEPT !.swept = @ \/ (job.finished /\ ~lagged),
                                    !.source = job.source,
                                    !.cursor = IF lagged THEN @ ELSE job.next]
        /\ job' = [Idle EXCEPT !.at = "stamp"]
    BY <2>1 DEF FinishPass
  <2>3. /\ census'.source = job.source /\ census'.swept = (census.swept \/ (job.finished /\ ~lagged))
        /\ census'.cursor = IF lagged THEN census.cursor ELSE job.next
    BY <1>0, <2>2 DEF CensusRows
  <2>4. job'.at = "stamp" /\ job'.mode = "none" /\ job'.source = ""
    BY <1>0, <2>2 DEF JobStates
  <2> QED
    BY <1>0, <2>1, <2>3, <2>4 DEF OnTheRoad
<1>9. CASE StartWatch \/ ReadWindow \/ NextWindow
  <2>1. census' = census
    BY <1>9 DEF StartWatch, ReadWindow, NextWindow, rowsOf
  <2>2. \/ ~SweepDue /\ job' = [Idle EXCEPT !.at = "window", !.mode = "watch", !.read = census.changes]
        \/ job.mode = "watch" /\ job'.mode = job.mode /\ job'.source = job.source /\ job'.at \in {"ingest", "window"}
    <3>1. CASE StartWatch
      BY <3>1 DEF StartWatch
    <3>2. CASE ReadWindow
      BY <1>0, <3>2 DEF ReadWindow, JobStates, OnTheRoad
    <3>3. CASE NextWindow
      BY <1>0, <3>3 DEF NextWindow, JobStates
    <3> QED
      BY <1>9, <3>1, <3>2, <3>3
  <2>3. /\ job'.mode = "watch" /\ job'.source \in {"", Road} /\ job'.at \in {"ingest", "window"}
        /\ census.swept
    BY <1>0, <2>2 DEF JobStates, OnTheRoad, SweepDue
  <2> QED
    BY <1>0, <2>1, <2>3 DEF OnTheRoad
<1>10. CASE FinishWatch
  <2>1. census' = [census EXCEPT !.changes = job.read] /\ job' = [Idle EXCEPT !.at = "stamp"]
    BY <1>10 DEF FinishWatch
  <2>2. /\ census'.swept = census.swept /\ census'.source = census.source /\ census'.cursor = census.cursor
        /\ job'.at = "stamp" /\ job'.mode = "none" /\ job'.source = ""
    BY <1>0, <2>1 DEF CensusRows, JobStates
  <2> QED
    BY <1>0, <2>2 DEF OnTheRoad
<1>11. CASE Stamp \/ Project \/ Synchronize
  <2>1. census' = census
    BY <1>11 DEF Stamp, Project, Synchronize
  <2>2. \/ job' = [job EXCEPT !.at = "project"] \/ job' = [job EXCEPT !.at = "synchronize"] \/ job' = Idle
    BY <1>11 DEF Stamp, Project, Synchronize
  <2>3. /\ job'.at \in {"project", "synchronize", "idle"} /\ job'.source \in {"", Road}
        /\ job'.mode = "none" \/ job'.mode = job.mode
    BY <1>0, <2>2 DEF JobStates, OnTheRoad
  <2> QED
    BY <1>0, <2>1, <2>3 DEF OnTheRoad
<1> QED
  BY <1>1, <1>2, <1>3, <1>4, <1>5, <1>6, <1>7, <1>8, <1>9, <1>10, <1>11 DEF CensusNext, Run

\* A page that is edited is due, and what was due stays due.
LEMMA SaveGrows ==
    ASSUME CensusInv, NEW p \in Pages, NEW b \in Bodies, Save(p, b), NEW f \in Nat, f <= Len(feed)
    PROVE  /\ p \in ToSet(SubSeq(feed', f + 1, Len(feed')))
           /\ \A q \in Unread(f) : q \in ToSet(SubSeq(feed', f + 1, Len(feed')))
           /\ \A q \in Pages : Due(q, f) => (Owed(q)' => q \in ToSet(SubSeq(feed', f + 1, Len(feed'))))
<1>1. feed \in Seq(Pages) /\ Len(feed) \in Nat
  BY InFeed DEF CensusInv
<1>2. feed' = Append(feed, p)
  BY DEF Save
<1>3. /\ feed' \in Seq(Pages) /\ Len(feed') = Len(feed) + 1
      /\ feed'[Len(feed) + 1] = p /\ \A i \in 1 .. Len(feed) : feed'[i] = feed[i]
  BY <1>1, <1>2
<1>4. \A x : x \in Unread(f) <=> \E i \in f + 1 .. Len(feed) : feed[i] = x
  BY <1>1, SuffixIs DEF Unread
<1>5. \A x : x \in ToSet(SubSeq(feed', f + 1, Len(feed'))) <=> \E i \in f + 1 .. Len(feed') : feed'[i] = x
  <2>1. f <= Len(feed')
    BY <1>1, <1>3
  <2> QED
    BY <1>3, <2>1, SuffixIs
<1>6. p \in ToSet(SubSeq(feed', f + 1, Len(feed')))
  BY <1>1, <1>3, <1>5
<1>7. \A q \in Unread(f) : q \in ToSet(SubSeq(feed', f + 1, Len(feed')))
  <2> TAKE q \in Unread(f)
  <2>1. PICK i \in f + 1 .. Len(feed) : feed[i] = q
    BY <1>4
  <2>2. i \in f + 1 .. Len(feed') /\ feed'[i] = q
    BY <1>1, <1>3, <2>1
  <2> QED
    BY <1>5, <2>2
<1>8. ASSUME NEW q \in Pages, q # p, Owed(q)' PROVE Owed(q)
  <2>1. world'[q] = world[q] /\ stored' = stored /\ credentials' = credentials
    BY <1>8, TypesAre DEF CensusInv, TypeParts, WorldTypes, Wiki, Save, rowsOf
  <2> QED
    BY <1>8, <2>1 DEF Owed, Current
<1> QED
  BY <1>6, <1>7, <1>8 DEF Due

\* A new page comes after those there are: they keep their places.
LEMMA SaveKeepsPlaces ==
    ASSUME CensusInv, NEW p \in Pages, NEW b \in Bodies, Save(p, b)
    PROVE  \A q \in Pages \ {p} : Place(q)' = Place(q)
<1>0. world \in Wiki /\ ops \in Nat /\ Len(First) \in Nat /\ IdsDiffer
  BY TypesAre, Bounds DEF CensusInv, TypeParts, WorldTypes
<1>1. /\ world' = [world EXCEPT ![p] =
                     [there |-> TRUE, rev |-> @.rev + 1, body |-> b,
                      id |-> IF @.there THEN @.id ELSE Len(First) + 1 + ops]]
  BY DEF Save
<1>2. \A q \in Pages \ {p} : world'[q] = world[q]
  BY <1>0, <1>1 DEF Wiki
<1>3. world'[p].id = (IF world[p].there THEN world[p].id ELSE Len(First) + 1 + ops) /\ world'[p].there
  BY <1>0, <1>1 DEF Wiki
<1>4. \A q \in Pages : world[q].id \in Nat /\ world[q].id <= Len(First) + ops
  BY <1>0 DEF Wiki, IdsDiffer
<1>5. ASSUME NEW q \in Pages \ {p} PROVE UpTo(Ids, world[q].id)' = UpTo(Ids, world[q].id)
  <2> DEFINE x == world[q].id
             is(j) == \E r \in Pages : world[r].there /\ world[r].id = j
             isNow(j) == \E r \in Pages : world'[r].there /\ world'[r].id = j
  <2>1. x \in Nat /\ x <= Len(First) + ops /\ world'[q].id = x
    BY <1>2, <1>4
  <2>2. \A j : j \in UpTo(Ids, world[q].id) <=> is(j) /\ j <= x
    BY DEF UpTo, Ids
  <2>3. \A j : j \in UpTo(Ids, world[q].id)' <=> isNow(j) /\ j <= x
    BY <2>1 DEF UpTo, Ids
  <2>4. ASSUME NEW j, is(j) PROVE isNow(j)
    <3>1. PICK r \in Pages : world[r].there /\ world[r].id = j
      BY <2>4
    <3>2. world'[r].there /\ world'[r].id = j
      BY <1>2, <1>3, <3>1
    <3> QED
      BY <3>2
  <2>5. ASSUME NEW j, isNow(j), j <= x PROVE is(j)
    <3>1. PICK r \in Pages : world'[r].there /\ world'[r].id = j
      BY <2>5
    <3>2. CASE r = p
      <4>1. world[p].there
        BY <1>0, <1>3, <2>1, <2>5, <3>1, <3>2
      <4> QED
        BY <1>3, <3>1, <3>2, <4>1
    <3>3. CASE r # p
      BY <1>2, <3>1, <3>3
    <3> QED
      BY <3>2, <3>3
  <2> HIDE DEF is, isNow, x
  <2>6. \A j : j \in UpTo(Ids, world[q].id)' <=> j \in UpTo(Ids, world[q].id)
    BY <2>2, <2>3, <2>4, <2>5
  <2>7. UpTo(Ids, world[q].id) \subseteq Ids /\ UpTo(Ids, world[q].id)' \subseteq Ids'
    BY DEF UpTo
  <2> QED
    BY <2>6, <2>7
<1> QED
  BY <1>5 DEF Place

\* An edit, or a new page.
LEMMA SaveKeeps ==
    ASSUME CensusInv, NEW p \in Pages, NEW b \in Bodies, Save(p, b)
    PROVE  Recorded' /\ Underway'
<1>1. job' = job /\ census' = census /\ stored' = stored /\ credentials' = credentials
  BY DEF Save, rowsOf
<1>2. /\ census.changes \in Nat /\ census.changes <= Len(feed)
      /\ job.read \in Nat /\ job.read <= Len(feed)
      /\ job.next \in Nat /\ (job.mode = "watch" => job.next <= Len(feed))
  BY InFeed DEF CensusInv
<1>3. \A q \in Pages \ {p} : Place(q)' = Place(q)
  BY SaveKeepsPlaces
<1>4. \A q \in Pages \ {p} : world'[q] = world[q]
  BY TypesAre DEF CensusInv, TypeParts, WorldTypes, Wiki, Save
<1>5. \A q \in Pages : Due(q, census.changes) => Due(q, census.changes)'
  BY <1>1, <1>2, SaveGrows DEF Due, Unread
<1>6. Due(p, census.changes)' /\ p \in Unread(census.changes)'
  BY <1>1, <1>2, SaveGrows DEF Due, Unread
<1>7. \A q \in Unread(census.changes) : q \in Unread(census.changes)'
  <2>1. Unread(census.changes)' = ToSet(SubSeq(feed', census.changes + 1, Len(feed')))
    BY <1>1 DEF Unread
  <2> QED
    BY <1>2, <2>1, SaveGrows
<1>8. \A q \in Pages : Due(q, job.read) => Due(q, job.read)'
  BY <1>1, <1>2, SaveGrows DEF Due, Unread
<1>9. job.mode = "watch" => \A q \in Pages : Due(q, job.next) => Due(q, job.next)'
  BY <1>1, <1>2, SaveGrows DEF Due, Unread
<1>10. \A q \in Pages : Planned(q)' <=> Planned(q)
  BY <1>1 DEF Planned
<1>11. Recorded /\ Underway
  BY DEF CensusInv
<1>12. Recorded'
  BY <1>1, <1>3, <1>5, <1>6, <1>11 DEF Recorded
<1>13. Underway'
  <2>1. job.mode = "watch" => \A q \in Pages : Due(q, job.read)'
    BY <1>8, <1>11 DEF Underway
  <2>2. job.mode = "watch" /\ job.at = "ingest" => \A q \in Pages : Due(q, job.next)' \/ Planned(q)'
    BY <1>9, <1>10, <1>11 DEF Underway
  <2>3. job.mode = "sweep" /\ job.at = "ingest" /\ job.complete =>
          \A q \in Pages \ job.names : world'[q].there => q \in Unread(census.changes)'
    BY <1>4, <1>6, <1>7, <1>11 DEF Underway
  <2>4. job.mode = "sweep" /\ job.at = "ingest" /\ credentials =>
          \A q \in Pages : job.finished \/ Place(q)' <= job.next => Due(q, census.changes)' \/ Planned(q)'
    BY <1>3, <1>5, <1>6, <1>10, <1>11 DEF Underway
  <2> QED
    BY <1>1, <2>1, <2>2, <2>3, <2>4 DEF Underway
<1> QED
  BY <1>12, <1>13

\* A deletion.
LEMMA DeleteKeeps ==
    ASSUME CensusInv, NEW p \in Pages, Delete(p)
    PROVE  Recorded' /\ Underway'
<1>1. /\ job' = job /\ census' = census /\ stored' = stored /\ credentials' = credentials /\ feed' = feed
      /\ census.cursor = 0 /\ job.mode # "sweep"
  BY DEF Delete, rowsOf
<1>2. \A q \in Pages : world'[q].rev = world[q].rev /\ (world'[q].there => world[q].there)
  BY TypesAre DEF CensusInv, TypeParts, WorldTypes, Wiki, Delete
<1>3. \A q \in Pages : Owed(q)' => Owed(q)
  BY <1>1, <1>2 DEF Owed, Current
<1>4. \A q \in Pages : /\ Due(q, census.changes) => Due(q, census.changes)'
                       /\ Due(q, job.read) => Due(q, job.read)'
                       /\ Due(q, job.next) => Due(q, job.next)'
  BY <1>1, <1>3 DEF Due, Unread
<1>5. \A q \in Pages : Planned(q)' <=> Planned(q)
  BY <1>1 DEF Planned
<1>6. Recorded /\ Underway
  BY DEF CensusInv
<1>7. Recorded'
  BY <1>1, <1>4, <1>6 DEF Recorded
<1>8. Underway'
  <2>1. job.mode = "watch" => \A q \in Pages : Due(q, job.read)'
    BY <1>4, <1>6 DEF Underway
  <2>2. job.mode = "watch" /\ job.at = "ingest" => \A q \in Pages : Due(q, job.next)' \/ Planned(q)'
    BY <1>4, <1>5, <1>6 DEF Underway
  <2> QED
    BY <1>1, <2>1, <2>2 DEF Underway
<1> QED
  BY <1>7, <1>8

\* The wiki stands still and a page of it is left as it was stored, or read.
NoWorse ==
    /\ UNCHANGED <<world, feed, credentials>>
    /\ \A p \in Pages :
         \/ stored'[p].rev = stored[p].rev /\ stored'[p].gone = stored[p].gone
         \/ stored'[p].rev = world[p].rev /\ ~stored'[p].gone

\* A read takes from what is owed, and what is then still owed was not read.
LEMMA LessOwed ==
    ASSUME NoWorse
    PROVE  \A p \in Pages : /\ Owed(p)' => Owed(p) /\ ~(stored'[p].rev = world[p].rev /\ ~stored'[p].gone)
                            /\ stored'[p].gone => stored[p].gone
                            /\ Place(p)' = Place(p)
<1>1. \A p \in Pages : Place(p)' = Place(p)
  BY DEF NoWorse, Place, UpTo, Ids
<1>2. ASSUME NEW p \in Pages, Owed(p)'
      PROVE  Owed(p) /\ ~(stored'[p].rev = world[p].rev /\ ~stored'[p].gone)
  <2>1. world' = world /\ credentials' = credentials
    BY DEF NoWorse
  <2>2. /\ world[p].there
        /\ IF credentials THEN ~(stored'[p].rev = world[p].rev /\ ~stored'[p].gone) ELSE stored'[p].gone
    BY <1>2, <2>1 DEF Owed, Current
  <2>3. ~(stored'[p].rev = world[p].rev /\ ~stored'[p].gone)
    BY <2>2
  <2>4. stored'[p].rev = stored[p].rev /\ stored'[p].gone = stored[p].gone
    BY <2>3 DEF NoWorse
  <2> QED
    BY <2>2, <2>3, <2>4 DEF Owed, Current
<1> QED
  BY <1>1, <1>2 DEF NoWorse

\* What the census row stands for outlives such a step that leaves the row alone.
LEMMA RecordKept ==
    ASSUME CensusInv, NoWorse, census'.swept = census.swept, census'.cursor = census.cursor,
           census'.changes = census.changes \/ (~census.swept /\ census.cursor = 0)
    PROVE  Recorded'
<1>1. world' = world /\ feed' = feed /\ credentials' = credentials /\ Recorded
  BY DEF NoWorse, CensusInv
<1>2. \A p \in Pages : /\ Owed(p)' => Owed(p)
                       /\ stored'[p].gone => stored[p].gone
                       /\ Place(p)' = Place(p)
  BY LessOwed
<1>3. CASE census'.changes = census.changes
  <2>1. \A p \in Pages : Due(p, census.changes) => Due(p, census.changes)'
    BY <1>1, <1>2, <1>3 DEF Due, Unread
  <2> QED
    BY <1>1, <1>2, <2>1 DEF Recorded
<1>4. CASE ~census.swept /\ census.cursor = 0
  BY <1>1, <1>2, <1>4 DEF Recorded
<1> QED
  BY <1>3, <1>4

\* The kinds of a step that read nothing of the wiki.
LEMMA NoRead ==
    ASSUME CensusInv,
           \/ StartSweep \/ StartWatch \/ Stop \/ Enumerate
           \/ ReadWindow \/ NextWindow \/ FinishWatch \/ Stamp \/ Project \/ Synchronize
    PROVE  NoWorse
<1>1. UNCHANGED <<world, feed, credentials>>
  BY DEF StartSweep, StartWatch, Stop, Enumerate, ReadWindow, NextWindow, FinishWatch, Stamp, Project, Synchronize, wiki
<1>2. stored' = stored \/ stored' = Dated
  BY DEF StartSweep, StartWatch, Stop, Enumerate, ReadWindow, NextWindow, FinishWatch, Stamp, Project, Synchronize, rowsOf
<1>3. \A p \in Pages : Dated[p].rev = stored[p].rev /\ Dated[p].gone = stored[p].gone
  <2>1. \A p \in Pages : stored[p] \in Rows
    BY TypesAre DEF CensusInv, TypeParts
  <2> QED
    BY <2>1 DEF Dated, Rows
<1> QED
  BY <1>1, <1>2, <1>3 DEF NoWorse

\* Between runs, and the end of one.
LEMMA QuietKeeps ==
    ASSUME CensusInv, StartSweep \/ StartWatch \/ Stop \/ Stamp \/ Project \/ Synchronize
    PROVE  Recorded' /\ Underway'
<1>0. /\ census \in CensusRows /\ job \in JobStates /\ Idle \in JobStates /\ Idle.mode = "none" /\ Idle.at = "idle"
      /\ Recorded /\ Underway
  <2>1. Idle \in JobStates /\ Idle.mode = "none"
    BY IdleIs, TypesAre DEF CensusInv, TypeParts, WorldTypes
  <2> QED
    BY <2>1, TypesAre DEF CensusInv, TypeParts, JobTypes, Idle
<1>1. NoWorse
  BY NoRead
<1>2. world' = world /\ feed' = feed /\ credentials' = credentials
  BY <1>1 DEF NoWorse
<1>3. \A p \in Pages : Owed(p)' => Owed(p)
  BY <1>1, LessOwed
<1>4. CASE StartSweep
  <2>1. /\ census'.swept = census.swept /\ census'.cursor = census.cursor
        /\ census'.changes = census.changes \/ (~census.swept /\ census.cursor = 0)
    <3>1. census' = [census EXCEPT !.changes = SeedChanges]
      BY <1>4 DEF StartSweep
    <3>2. SeedChanges = census.changes \/ census.cursor = 0
      BY DEF SeedChanges
    <3>3. census.cursor = 0 => ~census.swept
      <4> SUFFICES ASSUME census.swept, census.cursor = 0 PROVE FALSE
        OBVIOUS
      <4>1. census.source = Road
        BY DEF CensusInv, OnTheRoad
      <4>2. ~Superseded(Road)
        BY DEF Superseded, Road
      <4> QED
        BY <1>4, <4>1, <4>2 DEF StartSweep, SweepDue
    <3> QED
      BY <1>0, <3>1, <3>2, <3>3 DEF CensusRows
  <2>2. job'.mode = "sweep" /\ job'.at = "enumerate"
    BY <1>0, <1>4 DEF StartSweep, JobStates
  <2> QED
    BY <1>1, <2>1, <2>2, RecordKept DEF Underway
<1>5. CASE StartWatch
  <2>1. census' = census /\ ~SweepDue /\ job' = [Idle EXCEPT !.at = "window", !.mode = "watch", !.read = census.changes]
    BY <1>5 DEF StartWatch, rowsOf
  <2>2. job'.mode = "watch" /\ job'.at = "window" /\ job'.read = census.changes /\ census.swept
    BY <1>0, <2>1 DEF JobStates, SweepDue
  <2>3. \A p \in Pages : Due(p, job.read)'
    BY <1>0, <1>2, <1>3, <2>2 DEF Recorded, Due, Unread
  <2> QED
    BY <1>1, <2>1, <2>2, <2>3, RecordKept DEF Underway
<1>6. CASE Stop
  <2>1. census' = census /\ job' = Idle
    BY <1>6 DEF Stop, rowsOf
  <2> QED
    BY <1>0, <1>1, <2>1, RecordKept DEF Underway
<1>7. CASE Stamp \/ Project \/ Synchronize
  <2>1. census' = census
    BY <1>7 DEF Stamp, Project, Synchronize
  <2>2. \/ job' = [job EXCEPT !.at = "project"] \/ job' = [job EXCEPT !.at = "synchronize"] \/ job' = Idle
    BY <1>7 DEF Stamp, Project, Synchronize
  <2>3. job'.at # "ingest" /\ (job'.mode = "none" \/ (job'.mode = job.mode /\ job'.read = job.read))
    BY <1>0, <2>2 DEF JobStates
  <2>4. job'.mode = "watch" => \A p \in Pages : Due(p, job.read)'
    BY <1>0, <1>2, <1>3, <2>3 DEF Underway, Due, Unread
  <2> QED
    BY <1>1, <2>1, <2>3, <2>4, RecordKept DEF Underway
<1> QED
  BY <1>4, <1>5, <1>6, <1>7

\* Reading the pages named.
LEMMA IngestKeeps ==
    ASSUME CensusInv, Unreadable = FALSE, IngestChunk \/ IngestLagged
    PROVE  Recorded' /\ Underway'
<1>0. /\ world \in Wiki /\ stored \in [Pages -> Rows] /\ job \in JobStates /\ Recorded /\ Underway
  BY TypesAre DEF CensusInv, TypeParts, WorldTypes, JobTypes
<1>1. UNCHANGED <<world, feed, credentials, census>> /\ job.at = "ingest"
  BY DEF IngestChunk, IngestLagged, wiki
<1>2. /\ job.todo \in Seq(Items) /\ ChunkOf(job.todo) \in Seq(Items) /\ After(job.todo) \in Seq(Items)
      /\ \A i \in DOMAIN job.todo :
            \/ \E k \in DOMAIN ChunkOf(job.todo) : ChunkOf(job.todo)[k] = job.todo[i]
            \/ \E k \in DOMAIN After(job.todo) : After(job.todo)[k] = job.todo[i]
      /\ Len(ChunkOf(job.todo)) \in Nat /\ Len(ChunkOf(job.todo)) <= Len(job.todo)
  <2>1. job.todo \in Seq(Items)
    BY <1>0 DEF JobStates
  <2> QED
    BY <2>1, ChunkIs
<1>3. ASSUME NEW items \in Seq(Items), stored' = Ingested(stored, items)
      PROVE  /\ NoWorse
             /\ \A i \in DOMAIN items : world[items[i].page].there =>
                    stored'[items[i].page].rev = world[items[i].page].rev /\ ~stored'[items[i].page].gone
  BY <1>0, <1>1, <1>3, IngestedIs DEF NoWorse
<1>4. CASE IngestLagged
  <2>1. PICK n \in 0 .. Len(ChunkOf(job.todo)) - 1 : stored' = Ingested(stored, SubSeq(job.todo, 1, n))
    BY <1>4 DEF IngestLagged
  <2>2. SubSeq(job.todo, 1, n) \in Seq(Items)
    <3>1. n \in Nat /\ n <= Len(job.todo) /\ Len(job.todo) \in Nat
      BY <1>2, <2>1
    <3>2. SubSeq(job.todo, 1, n) = [k \in 1 .. n |-> job.todo[k]]
      BY <1>2, <3>1
    <3>3. \A k \in 1 .. n : job.todo[k] \in Items
      BY <1>2, <3>1
    <3> QED
      BY <3>1, <3>2, <3>3
  <2>3. NoWorse
    BY <1>3, <2>1, <2>2
  <2>4. job'.at = "lagged" /\ job'.mode = job.mode /\ job'.read = job.read
    BY <1>0, <1>4 DEF IngestLagged, JobStates
  <2>5. job.mode = "watch" => \A p \in Pages : Due(p, job.read)'
    <3>1. \A p \in Pages : Owed(p)' => Owed(p)
      BY <2>3, LessOwed
    <3> QED
      BY <1>0, <1>1, <2>4, <3>1 DEF Underway, Due, Unread
  <2>6. Recorded'
    BY <1>1, <2>3, RecordKept
  <2> QED
    BY <2>4, <2>5, <2>6 DEF Underway
<1>5. CASE IngestChunk
  <2> DEFINE chunk == ChunkOf(job.todo)
             all == Select(chunk, DOMAIN chunk)
  <2>1. stored' = Ingested(stored, all) /\ job' = [job EXCEPT !.todo = After(@)]
    <3>1. PICK lost \in {{}} : stored' = Ingested(stored, Select(chunk, DOMAIN chunk \ lost))
      BY <1>5 DEF IngestChunk
    <3>2. DOMAIN chunk \ lost = DOMAIN chunk
      BY <3>1
    <3> HIDE DEF chunk
    <3> QED
      BY <1>5, <3>1, <3>2 DEF IngestChunk
  <2>2. /\ all \in Seq(Items)
        /\ \A i \in DOMAIN chunk : \E k \in DOMAIN all : all[k] = chunk[i]
    <3>1. chunk \in Seq(Items) /\ DOMAIN chunk \in SUBSET DOMAIN chunk
      BY <1>2
    <3> HIDE DEF chunk
    <3> QED
      BY <3>1, SelectOf
  <2> HIDE DEF all
  <2>3. NoWorse
    BY <1>3, <2>1, <2>2
  <2>4. \A i \in DOMAIN chunk : world[chunk[i].page].there =>
            stored'[chunk[i].page].rev = world[chunk[i].page].rev /\ ~stored'[chunk[i].page].gone
    <3> HIDE DEF chunk
    <3>1. \A k \in DOMAIN all : world[all[k].page].there =>
            stored'[all[k].page].rev = world[all[k].page].rev /\ ~stored'[all[k].page].gone
      BY <1>3, <2>1, <2>2
    <3> TAKE i \in DOMAIN chunk
    <3>2. PICK k \in DOMAIN all : all[k] = chunk[i]
      BY <2>2
    <3> QED
      BY <3>1, <3>2
  <2>5. /\ job'.at = "ingest" /\ job'.mode = job.mode /\ job'.read = job.read /\ job'.next = job.next
        /\ job'.todo = After(job.todo) /\ job'.complete = job.complete /\ job'.names = job.names
        /\ job'.finished = job.finished
    BY <1>0, <1>1, <2>1 DEF JobStates
  <2>6. \A p \in Pages : Owed(p)' => Owed(p) /\ ~(stored'[p].rev = world[p].rev /\ ~stored'[p].gone)
    BY <2>3, LessOwed
  <2>7. ASSUME NEW p \in Pages, Owed(p)', Planned(p) PROVE Planned(p)'
    <3>1. PICK i \in DOMAIN job.todo : job.todo[i].page = p
      BY <2>7 DEF Planned
    <3>2. world[p].there
      BY <2>6, <2>7 DEF Owed
    <3>3. ~\E k \in DOMAIN chunk : chunk[k] = job.todo[i]
      BY <2>4, <2>6, <2>7, <3>1, <3>2
    <3>4. PICK k \in DOMAIN After(job.todo) : After(job.todo)[k] = job.todo[i]
      BY <1>2, <3>3
    <3> QED
      BY <2>5, <3>1, <3>4 DEF Planned
  <2>8. Recorded'
    BY <1>1, <2>3, RecordKept
  <2>9. job.mode = "watch" => \A p \in Pages : Due(p, job.read)'
    BY <1>0, <1>1, <2>5, <2>6 DEF Underway, Due, Unread
  <2>10. job.mode = "watch" => \A p \in Pages : Due(p, job.next)' \/ Planned(p)'
    BY <1>0, <1>1, <2>5, <2>6, <2>7 DEF Underway, Due, Unread
  <2>11. job.mode = "sweep" /\ job.complete =>
           \A p \in Pages \ job.names : world'[p].there => p \in Unread(census.changes)'
    BY <1>0, <1>1 DEF Underway, Unread
  <2>12. job.mode = "sweep" /\ credentials =>
           \A p \in Pages : job.finished \/ Place(p)' <= job.next => Due(p, census.changes)' \/ Planned(p)'
    <3>1. \A p \in Pages : Place(p)' = Place(p)
      BY <2>3, LessOwed
    <3>2. \A p \in Pages : Due(p, census.changes) => Due(p, census.changes)'
      BY <1>1, <2>6 DEF Due, Unread
    <3>3. \A p \in Pages : Planned(p) => Due(p, census.changes)' \/ Planned(p)'
      BY <2>7 DEF Due
    <3> QED
      BY <1>0, <1>1, <3>1, <3>2, <3>3 DEF Underway
  <2> QED
    BY <1>1, <2>5, <2>8, <2>9, <2>10, <2>11, <2>12 DEF Underway
<1> QED
  BY <1>4, <1>5

\* Naming the pages: those that are passed over are stored as they are, or due.
LEMMA EnumerateKeeps ==
    ASSUME CensusInv, Enumerate
    PROVE  Recorded' /\ Underway'
<1> DEFINE found == IF credentials THEN ByReplica ELSE BySearch("search")
           start == ResumeFrom(found)
           todo == Window(found).todo
           end == Window(found).end
<1>0. /\ world \in Wiki /\ job \in JobStates /\ IdsDiffer /\ Recorded
      /\ census.cursor \in Nat /\ job.mode = "sweep"
  <2>1. census.cursor \in Nat
    BY TypesAre, Bounds DEF CensusInv, TypeParts, CensusRows, Places
  <2>2. job.mode = "sweep"
    BY DEF Enumerate, CensusInv, OnTheRoad
  <2> QED
    BY <2>1, <2>2, TypesAre DEF CensusInv, TypeParts, WorldTypes, JobTypes
<1>1. Enumerated(found) /\ census' = census /\ stored' = stored
  BY DEF Enumerate, rowsOf
<1>2. NoWorse
  BY NoRead
<1>3. UNCHANGED <<world, feed, credentials>>
  BY <1>2 DEF NoWorse
<1>4. /\ found.complete => There \subseteq ToSet(found.names)
      /\ \E source : Found(found, source)
      /\ credentials => found = ByReplica
  <2>1. CASE credentials
    <3>1. Found(found, "replica") /\ found = ByReplica /\ found.names = Listed
      BY <1>0, <2>1, ByReplicaIs
    <3>2. There \subseteq ToSet(Listed)
      <4> SUFFICES ASSUME NEW p \in There PROVE p \in ToSet(Listed)
        OBVIOUS
      <4>1. Place(p) \in 1 .. Len(Listed) /\ Listed[Place(p)] = p
        BY <1>0, ListedAll
      <4>2. Listed \in Seq(Pages)
        BY <1>0, ListedIs
      <4> HIDE DEF Listed, Place
      <4> QED
        BY <4>1, <4>2 DEF ToSet
    <3> HIDE DEF found
    <3> QED
      BY <3>1, <3>2
  <2>2. CASE ~credentials
    <3>1. found = BySearch("search")
      BY <2>2
    <3>2. Found(BySearch("search"), "search")
          /\ (BySearch("search").complete => There \subseteq ToSet(BySearch("search").names))
      BY <1>0, BySearchIs
    <3> HIDE DEF found
    <3> QED
      BY <2>2, <3>1, <3>2
  <2> QED
    BY <2>1, <2>2
<1>5. /\ todo \in Seq(Items) /\ (start = 0 \/ start = census.cursor)
      /\ start \in Nat /\ end \in Nat /\ start <= end /\ end <= Len(found.names)
      /\ \A i \in start + 1 .. end :
            \/ \E k \in DOMAIN todo : todo[k].page = found.names[i]
            \/ /\ found.names[i] \in DOMAIN found.revisions
               /\ Settled(found.names[i], i, found.revisions[found.names[i]])
      /\ Len(found.names) \in Nat
  <2>1. PICK source : Found(found, source)
    BY <1>4
  <2>2. Len(found.names) \in Nat
    BY <2>1 DEF Found
  <2> HIDE DEF found
  <2> QED
    BY <1>0, <2>1, <2>2, WindowIs
<1>6. job' = [job EXCEPT !.at = "ingest", !.todo = todo, !.names = ToSet(found.names),
                         !.complete = found.complete, !.source = found.source,
                         !.finished = end = Len(found.names),
                         !.next = IF end = Len(found.names) THEN 0 ELSE end]
  BY <1>1 DEF Enumerated
<1> HIDE DEF todo, end, start, found
<1>7. /\ job'.at = "ingest" /\ job'.mode = "sweep" /\ job'.todo = todo /\ job'.names = ToSet(found.names)
      /\ job'.complete = found.complete /\ (job'.finished => end = Len(found.names))
      /\ job'.next = IF end = Len(found.names) THEN 0 ELSE end
  BY <1>0, <1>6 DEF JobStates
<1>8. found.complete => \A p \in Pages \ ToSet(found.names) : ~world[p].there
  BY <1>4 DEF There
<1>9. ASSUME credentials, NEW p \in Pages, job'.finished \/ Place(p) <= job'.next, Owed(p)
      PROVE  p \in Unread(census.changes) \/ \E k \in DOMAIN todo : todo[k].page = p
  <2>1. p \in There /\ ~Current(p)
    BY <1>9 DEF Owed, There
  <2>2. Place(p) \in 1 .. Len(Listed) /\ Listed[Place(p)] = p
    BY <1>0, <2>1, ListedAll
  <2>3. found = ByReplica /\ found.names = Listed
    BY <1>0, <1>4, <1>9, ByReplicaIs
  <2>4. found.revisions = [q \in {r \in Pages : world[r].there} |-> world[q].rev]
    BY <2>3 DEF ByReplica
  <2> HIDE DEF Place, Listed
  <2>5. Place(p) <= end
    <3>1. CASE end = Len(found.names)
      BY <1>5, <2>2, <2>3, <3>1
    <3>2. CASE end # Len(found.names)
      <4>1. ~job'.finished /\ job'.next = end
        BY <1>7, <3>2
      <4> QED
        BY <1>9, <4>1
    <3> QED
      BY <3>1, <3>2
  <2>6. CASE Place(p) <= start
    <3>1. start = census.cursor /\ census.cursor > 0
      BY <1>0, <1>5, <2>2, <2>6
    <3> QED
      BY <1>0, <1>9, <2>6, <3>1 DEF Recorded, Due
  <2>7. CASE Place(p) > start
    <3>1. Place(p) \in start + 1 .. end /\ found.names[Place(p)] = p
      BY <1>5, <2>2, <2>3, <2>5, <2>7
    <3>2. ~Settled(p, Place(p), world[p].rev)
      BY <2>1 DEF Settled, Current
    <3>3. found.revisions[p] = world[p].rev
      BY <2>1, <2>4 DEF There
    <3> QED
      BY <1>5, <3>1, <3>2, <3>3
  <2> QED
    BY <1>5, <2>2, <2>6, <2>7
<1>10. \A p \in Pages : (Owed(p)' => Owed(p)) /\ Place(p)' = Place(p)
  BY <1>2, LessOwed
<1>11. Recorded'
  BY <1>1, <1>2, RecordKept
<1>12. job'.complete => \A p \in Pages \ job'.names : world'[p].there => p \in Unread(census.changes)'
  BY <1>3, <1>7, <1>8
<1>13. credentials' => \A p \in Pages : job'.finished \/ Place(p)' <= job'.next =>
                          Due(p, census.changes)' \/ Planned(p)'
  <2> SUFFICES ASSUME credentials, NEW p \in Pages, job'.finished \/ Place(p) <= job'.next, Owed(p),
                      p \notin Unread(census.changes)
               PROVE  Planned(p)'
    BY <1>1, <1>3, <1>10 DEF Due, Unread
  <2>1. \E k \in DOMAIN todo : todo[k].page = p
    BY <1>9
  <2> QED
    BY <1>7, <2>1 DEF Planned
<1> QED
  BY <1>7, <1>11, <1>12, <1>13 DEF Underway

\* The end of a sweep.
LEMMA FinishKeeps ==
    ASSUME CensusInv, FinishSweep \/ FinishLagged
    PROVE  Recorded' /\ Underway'
<1>0. /\ job \in JobStates /\ census \in CensusRows /\ stored \in [Pages -> Rows]
      /\ Idle \in JobStates /\ Idle.mode = "none" /\ Recorded /\ Underway /\ OnTheRoad
  <2>1. Idle \in JobStates /\ Idle.mode = "none"
    BY IdleIs, TypesAre DEF CensusInv, TypeParts, WorldTypes
  <2> QED
    BY <2>1, TypesAre DEF CensusInv, TypeParts, JobTypes
<1>1. PICK lagged \in BOOLEAN : /\ FinishPass(lagged) /\ job.mode = "sweep"
                                /\ ~lagged => job.at = "ingest" /\ job.todo = <<>>
                                /\ job.at \in {"ingest", "lagged"}
  BY DEF FinishSweep, FinishLagged
<1>2. /\ stored' = MarkMissing(Whole(lagged))
      /\ census' = [census EXCEPT !.swept = @ \/ (job.finished /\ ~lagged),
                                  !.source = job.source,
                                  !.cursor = IF lagged THEN @ ELSE job.next]
      /\ job' = [Idle EXCEPT !.at = "stamp"]
      /\ UNCHANGED <<world, feed, credentials>>
  BY <1>1 DEF FinishPass, wiki
<1>3. job'.mode = "none"
  BY <1>0, <1>2 DEF JobStates
<1>4. ~census.swept /\ (job.finished => job.next = 0) /\ (credentials => job.complete)
  BY <1>0, <1>1 DEF OnTheRoad
<1>5. /\ census'.swept = (job.finished /\ ~lagged) /\ census'.changes = census.changes
      /\ census'.cursor = IF lagged THEN census.cursor ELSE job.next
  BY <1>0, <1>2, <1>4 DEF CensusRows
<1>6. \A p \in Pages : ~stored[p].gone
  BY <1>0, <1>4 DEF Recorded
<1>7. \A p \in Pages : /\ stored'[p].rev = stored[p].rev
                       /\ stored'[p].gone => Whole(lagged) /\ p \notin job.names
                       /\ p \in job.names => stored'[p] = stored[p]
                       /\ Place(p)' = Place(p)
  <2>1. \A p \in Pages : Place(p)' = Place(p)
    BY <1>2 DEF Place, UpTo, Ids
  <2>2. \A p \in Pages : stored[p] \in Rows
    BY <1>0
  <2> QED
    BY <1>2, <1>6, <2>1, <2>2 DEF MarkMissing, Rows
<1>8. Underway'
  BY <1>3 DEF Underway
<1>9. ~lagged => \A p \in Pages : ~Planned(p)
  BY <1>1 DEF Planned
<1>10. CASE job.finished /\ ~lagged
  <2>1. job.at = "ingest" /\ job.mode = "sweep" /\ (Whole(lagged) => job.complete) /\ (job.complete => Whole(lagged))
    BY <1>1, <1>10 DEF Whole
  <2>2. ASSUME NEW p \in Pages, Owed(p)' PROVE p \in Unread(census.changes)
    <3>1. world[p].there
      BY <1>2, <2>2 DEF Owed
    <3>2. CASE credentials
      <4>1. CASE p \in job.names
        <5>1. Owed(p)
          BY <1>2, <1>7, <2>2, <3>2, <4>1 DEF Owed, Current
        <5> QED
          BY <1>0, <1>9, <1>10, <2>1, <3>2, <5>1 DEF Underway, Due
      <4>2. CASE p \notin job.names
        BY <1>0, <1>4, <2>1, <3>1, <3>2, <4>2 DEF Underway
      <4> QED
        BY <4>1, <4>2
    <3>3. CASE ~credentials
      <4>1. stored'[p].gone
        BY <1>2, <2>2, <3>3 DEF Owed
      <4>2. job.complete /\ p \notin job.names
        BY <1>7, <2>1, <4>1
      <4> QED
        BY <1>0, <2>1, <3>1, <4>2 DEF Underway
    <3> QED
      BY <3>2, <3>3
  <2>3. \A p \in Pages : Due(p, census.changes)'
    BY <1>2, <1>5, <2>2 DEF Due, Unread
  <2>4. census'.swept /\ census'.cursor = 0
    BY <1>4, <1>5, <1>10
  <2> QED
    BY <1>8, <2>3, <2>4 DEF Recorded
<1>11. CASE ~job.finished \/ lagged
  <2>1. ~census'.swept /\ ~Whole(lagged)
    BY <1>5, <1>11 DEF Whole
  <2>2. \A p \in Pages : stored'[p].rev = stored[p].rev /\ ~stored'[p].gone
    BY <1>7, <2>1
  <2>3. \A p \in Pages : Due(p, census.changes) => Due(p, census.changes)'
    BY <1>2, <1>5, <1>6, <2>2 DEF Due, Owed, Current, Unread
  <2>4. credentials' /\ census'.cursor > 0 =>
          \A p \in Pages : Place(p)' <= census'.cursor => Due(p, census.changes)'
    <3>1. CASE lagged
      BY <1>0, <1>2, <1>5, <1>7, <2>3, <3>1 DEF Recorded
    <3>2. CASE ~lagged
      <4>1. credentials => \A p \in Pages : Place(p) <= job.next => Due(p, census.changes)
        BY <1>0, <1>1, <1>9, <3>2 DEF Underway
      <4> QED
        BY <1>2, <1>5, <1>7, <2>3, <3>2, <4>1
    <3> QED
      BY <3>1, <3>2
  <2> QED
    BY <1>8, <2>1, <2>2, <2>4 DEF Recorded
<1> QED
  BY <1>10, <1>11

\* A watch.
LEMMA WatchKeeps ==
    ASSUME CensusInv, ReadWindow \/ NextWindow \/ FinishWatch
    PROVE  Recorded' /\ Underway'
<1>0. /\ job \in JobStates /\ census \in CensusRows /\ Idle \in JobStates /\ Idle.mode = "none"
      /\ Recorded /\ Underway /\ OnTheRoad
  <2>1. Idle \in JobStates /\ Idle.mode = "none"
    BY IdleIs, TypesAre DEF CensusInv, TypeParts, WorldTypes
  <2> QED
    BY <2>1, TypesAre DEF CensusInv, TypeParts, JobTypes
<1>1. job.mode = "watch" /\ census.swept /\ census.cursor = 0
  BY <1>0 DEF ReadWindow, NextWindow, FinishWatch, OnTheRoad
<1>2. NoWorse
  BY NoRead
<1>3. UNCHANGED <<world, feed, credentials>>
  BY <1>2 DEF NoWorse
<1>4. \A p \in Pages : Owed(p)' => Owed(p)
  BY <1>2, LessOwed
<1>5. /\ feed \in Seq(Pages) /\ Len(feed) \in Nat /\ job.read \in Nat /\ job.read <= Len(feed)
      /\ job.next \in Nat /\ job.next <= Len(feed)
  BY <1>1, InFeed DEF CensusInv
<1>6. \A p \in Pages : Due(p, job.read)
  BY <1>0, <1>1 DEF Underway
<1>7. CASE ReadWindow
  <2> DEFINE end == IF Len(feed) - job.read < WatchLimit THEN Len(feed) ELSE job.read + WatchLimit
             window == SubSeq(feed, job.read + 1, end)
             pages == Reported(window)
  <2>1. /\ census' = census
        /\ job' = [job EXCEPT !.at = "ingest", !.windows = @ + 1, !.next = end,
                              !.todo = [i \in DOMAIN pages |-> [page |-> pages[i], rank |-> 0]]]
    BY <1>7 DEF ReadWindow, rowsOf
  <2>2. end \in Nat /\ job.read <= end /\ end <= Len(feed)
    BY <1>5, Bounds
  <2> HIDE DEF end
  <2>3. window \in Seq(Pages) /\ \A i \in job.read + 1 .. end : \E k \in DOMAIN window : window[k] = feed[i]
    <3>1. window = [k \in 1 .. end - job.read |-> feed[job.read + k]]
      <4>1. window = [k \in 1 .. end - (job.read + 1) + 1 |-> feed[job.read + 1 + k - 1]]
        BY <1>5, <2>2 DEF window
      <4>2. end - (job.read + 1) + 1 = end - job.read
        BY <1>5, <2>2
      <4>3. \A k \in 1 .. end - job.read : job.read + 1 + k - 1 = job.read + k
        BY <1>5, <2>2
      <4> HIDE DEF window
      <4> QED
        BY <4>1, <4>2, <4>3
    <3>2. window \in Seq(Pages)
      <4>1. end - job.read \in Nat /\ \A k \in 1 .. end - job.read : feed[job.read + k] \in Pages
        BY <1>5, <2>2
      <4> HIDE DEF window
      <4> QED
        BY <3>1, <4>1
    <3>3. ASSUME NEW i \in job.read + 1 .. end PROVE \E k \in DOMAIN window : window[k] = feed[i]
      <4>1. i - job.read \in 1 .. end - job.read /\ job.read + (i - job.read) = i
        BY <1>5, <2>2
      <4> HIDE DEF window
      <4> QED
        BY <3>1, <4>1
    <3> QED
      BY <3>2, <3>3
  <2> HIDE DEF window
  <2>4. \A i \in DOMAIN window : \E k \in DOMAIN pages : pages[k] = window[i]
    BY <2>3, ReportedIs
  <2> HIDE DEF pages
  <2>5. /\ job'.at = "ingest" /\ job'.mode = "watch" /\ job'.read = job.read /\ job'.next = end
        /\ job'.todo = [i \in DOMAIN pages |-> [page |-> pages[i], rank |-> 0]]
    BY <1>0, <1>1, <2>1 DEF JobStates
  <2>6. \A p \in Pages : Due(p, job.read)'
    BY <1>3, <1>4, <1>6, <2>5 DEF Due, Unread
  <2>7. ASSUME NEW p \in Pages, Owed(p) PROVE p \in Unread(end) \/ \E k \in DOMAIN pages : pages[k] = p
    <3>1. p \in Unread(job.read)
      BY <1>6, <2>7 DEF Due
    <3>2. PICK i \in job.read + 1 .. Len(feed) : feed[i] = p
      BY <1>5, <3>1, SuffixIs DEF Unread
    <3>3. CASE i <= end
      BY <1>5, <2>2, <2>3, <2>4, <3>2, <3>3
    <3>4. CASE i > end
      <4>1. i \in end + 1 .. Len(feed)
        BY <1>5, <2>2, <3>2, <3>4
      <4> QED
        BY <1>5, <2>2, <3>2, <4>1, SuffixIs DEF Unread
    <3> QED
      BY <1>5, <2>2, <3>2, <3>3, <3>4
  <2>8. ASSUME NEW p \in Pages PROVE Due(p, job.next)' \/ Planned(p)'
    <3> SUFFICES ASSUME Owed(p), p \notin Unread(end) PROVE Planned(p)'
      BY <1>3, <1>4, <2>5 DEF Due, Unread
    <3>1. PICK k \in DOMAIN pages : pages[k] = p
      BY <2>7
    <3>2. k \in DOMAIN job'.todo /\ job'.todo[k].page = p
      BY <2>5, <3>1
    <3> QED
      BY <3>2 DEF Planned
  <2>9. Recorded'
    BY <1>2, <2>1, RecordKept
  <2> QED
    BY <2>5, <2>6, <2>8, <2>9 DEF Underway
<1>8. CASE NextWindow
  <2>1. /\ census' = census /\ job.at = "ingest" /\ job.todo = <<>>
        /\ job' = [job EXCEPT !.at = "window", !.read = job.next]
    BY <1>8 DEF NextWindow, rowsOf
  <2>2. job'.at = "window" /\ job'.mode = "watch" /\ job'.read = job.next
    BY <1>0, <1>1, <2>1 DEF JobStates
  <2>3. \A p \in Pages : Due(p, job.next)
    <3>1. \A p \in Pages : ~Planned(p)
      BY <2>1 DEF Planned
    <3> QED
      BY <1>0, <1>1, <2>1, <3>1 DEF Underway
  <2>4. \A p \in Pages : Due(p, job.read)'
    BY <1>3, <1>4, <2>2, <2>3 DEF Due, Unread
  <2>5. Recorded'
    BY <1>2, <2>1, RecordKept
  <2> QED
    BY <2>2, <2>4, <2>5 DEF Underway
<1>9. CASE FinishWatch
  <2>1. census' = [census EXCEPT !.changes = job.read] /\ job' = [Idle EXCEPT !.at = "stamp"]
    BY <1>9 DEF FinishWatch
  <2>2. census'.swept /\ census'.cursor = 0 /\ census'.changes = job.read /\ job'.mode = "none"
    BY <1>0, <1>1, <2>1 DEF CensusRows, JobStates
  <2>3. \A p \in Pages : Due(p, census.changes)'
    BY <1>3, <1>4, <1>6, <2>2 DEF Due, Unread
  <2> QED
    BY <2>2, <2>3 DEF Recorded, Underway
<1> QED
  BY <1>7, <1>8, <1>9

\* Every step of a wiki whose pages one road names keeps the invariant.
LEMMA CensusKept ==
    ASSUME CensusInv, Unreadable = FALSE, [CensusNext]_censusVars, [OneRoad]_censusVars
    PROVE  CensusInv'
<1>1. CensusTypes'
  BY InvTyped, TypesKept DEF TypedInv
<1>2. CASE UNCHANGED censusVars
  <2>1. IdsDiffer' /\ OnTheRoad'
    BY <1>2 DEF censusVars, CensusInv, IdsDiffer, OnTheRoad, Road
  <2>2. UNCHANGED <<world, feed, stored, census, credentials, job>>
    BY <1>2 DEF censusVars
  <2>3. NoWorse
    BY <2>2 DEF NoWorse
  <2>4. \A p \in Pages : /\ Due(p, census.changes) => Due(p, census.changes)'
                         /\ Due(p, job.read) => Due(p, job.read)'
                         /\ Due(p, job.next) => Due(p, job.next)'
    BY <2>2 DEF Due, Owed, Current, Unread
  <2>5. \A p \in Pages : (Planned(p) => Planned(p)') /\ Place(p)' = Place(p)
    BY <2>2, <2>3, LessOwed DEF Planned
  <2>6. Unread(census.changes)' = Unread(census.changes)
    BY <2>2 DEF Unread
  <2>7. Recorded'
    BY <2>2, <2>3, RecordKept
  <2>8. Underway'
    BY <2>2, <2>4, <2>5, <2>6 DEF CensusInv, Underway
  <2> QED
    BY <1>1, <2>1, <2>7, <2>8 DEF CensusInv
<1>3. CASE CensusNext /\ OneRoad
  <2>1. IdsDiffer' /\ OnTheRoad'
    BY <1>3, IdsKept, RoadKept
  <2>2. Recorded' /\ Underway'
    <3>1. CASE \E p \in Pages, b \in Bodies : Save(p, b)
      BY <3>1, SaveKeeps
    <3>2. CASE \E p \in Pages : Delete(p)
      BY <3>2, DeleteKeeps
    <3>3. CASE Equip
      <4>1. ~credentials /\ credentials' = TRUE
        BY <3>3 DEF Equip
      <4>2. credentials' = credentials
        BY <1>3 DEF OneRoad
      <4> QED
        BY <4>1, <4>2
    <3>4. CASE EnumerateFallback
      <4>1. job \in JobStates
        BY TypesAre DEF CensusInv, TypeParts, JobTypes
      <4>2. Enumerated(BySearch("search-fallback")) /\ BySearch("search-fallback").source = "search-fallback"
        BY <3>4 DEF EnumerateFallback, BySearch
      <4>3. job'.source = "search-fallback"
        BY <4>1, <4>2 DEF Enumerated, JobStates
      <4> QED
        BY <1>3, <4>3 DEF OneRoad
    <3>5. CASE StartSweep \/ StartWatch \/ Stop \/ Stamp \/ Project \/ Synchronize
      BY <3>5, QuietKeeps
    <3>6. CASE Enumerate
      BY <3>6, EnumerateKeeps
    <3>7. CASE IngestChunk \/ IngestLagged
      BY <3>7, IngestKeeps
    <3>8. CASE FinishSweep \/ FinishLagged
      BY <3>8, FinishKeeps
    <3>9. CASE ReadWindow \/ NextWindow \/ FinishWatch
      BY <3>9, WatchKeeps
    <3> QED
      BY <1>3, <3>1, <3>2, <3>3, <3>4, <3>5, <3>6, <3>7, <3>8, <3>9 DEF CensusNext, Run
  <2> QED
    BY <1>1, <2>1, <2>2 DEF CensusInv
<1> QED
  BY <1>2, <1>3

LEMMA CensusBegins == CensusInit => CensusInv
<1> SUFFICES ASSUME CensusInit PROVE CensusInv
  OBVIOUS
<1>1. CensusTypes
  BY CensusStarts
<1>2. job = Idle /\ Idle.at = "idle" /\ Idle.mode = "none" /\ Idle.source = ""
  BY DEF CensusInit, Idle
<1>3. census = [swept |-> FALSE, cursor |-> 0, changes |-> 0, source |-> ""] /\ ops = 0
  BY DEF CensusInit
<1>4. OnTheRoad
  BY <1>2, <1>3 DEF OnTheRoad
<1>5. Recorded /\ Underway
  <2>1. \A p \in Pages : ~stored[p].gone
    BY DEF CensusInit, NoRow
  <2>2. ~census.swept /\ census.cursor = 0
    BY <1>3
  <2>3. ~(census.cursor > 0)
    BY <2>2
  <2>4. Recorded
    BY <2>1, <2>2, <2>3 DEF Recorded
  <2>5. job.mode = "none"
    BY <1>2
  <2> QED
    BY <2>4, <2>5 DEF Underway
<1>6. IdsDiffer
  <2>1. PICK bodies \in [ToSet(First) -> Bodies] :
          world = [p \in Pages |->
                     IF p \in ToSet(First)
                     THEN [there |-> TRUE, id |-> CHOOSE i \in DOMAIN First : First[i] = p,
                           rev |-> 1, body |-> bodies[p]]
                     ELSE [there |-> FALSE, id |-> 0, rev |-> 0, body |-> NoRow.body]]
    BY DEF CensusInit
  <2>2. First \in Seq(Pages) /\ Len(First) \in Nat
    BY ScriptsAssumption
  <2>3. ASSUME NEW p \in Pages, p \in ToSet(First)
        PROVE  world[p].id \in 1 .. Len(First) /\ First[world[p].id] = p
    <3>1. \E i \in DOMAIN First : First[i] = p
      BY <2>3 DEF ToSet
    <3>2. world[p].id = CHOOSE i \in DOMAIN First : First[i] = p
      BY <2>1, <2>3
    <3>3. world[p].id \in DOMAIN First /\ First[world[p].id] = p
      BY <3>1, <3>2
    <3> QED
      BY <2>2, <3>3
  <2>4. ASSUME NEW p \in Pages, p \notin ToSet(First)
        PROVE  world[p].id = 0 /\ ~world[p].there
    BY <2>1, <2>4
  <2>5. ASSUME NEW p \in Pages PROVE world[p].id <= Len(First) + ops
    <3>1. ops = 0
      BY <1>3
    <3>2. world[p].id \in 0 .. Len(First)
      <4>1. CASE p \in ToSet(First)
        BY <2>2, <2>3, <4>1
      <4>2. CASE p \notin ToSet(First)
        BY <2>2, <2>4, <4>2
      <4> QED
        BY <4>1, <4>2
    <3> QED
      BY <2>2, <3>1, <3>2
  <2>6. \A p, q \in Pages : world[p].there /\ world[q].there /\ world[p].id = world[q].id => p = q
    BY <2>3, <2>4
  <2> QED
    BY <2>5, <2>6 DEF IdsDiffer
<1> QED
  BY <1>1, <1>4, <1>5, <1>6 DEF CensusInv

\* CensusSound, for every wiki whose reads succeed and whose pages one road names, the replica or
\* the search index: between sweeps every page of the wiki is stored as it is or among the changes
\* the next watch reads, and none is called gone that is neither gone nor about to be read.
THEOREM NothingLost ==
    Unreadable = FALSE => (CensusSpec /\ [][OneRoad]_censusVars => []CensusSound)
<1> SUFFICES ASSUME Unreadable = FALSE
             PROVE  CensusSpec /\ [][OneRoad]_censusVars => []CensusSound
  OBVIOUS
<1>1. CensusInit => CensusInv
  BY CensusBegins
<1>2. CensusInv /\ [CensusNext]_censusVars /\ [OneRoad]_censusVars => CensusInv'
  BY CensusKept
<1>3. CensusInv => CensusSound
  <2> SUFFICES ASSUME CensusInv PROVE CensusSound
    OBVIOUS
  <2>1. CensusTypes /\ OnTheRoad /\ Recorded
    BY DEF CensusInv
  <2>2. ASSUME ~SweepDue PROVE \A p \in Pages : Due(p, census.changes)
    <3>1. census.swept
      BY <2>2 DEF SweepDue
    <3> QED
      BY <2>1, <3>1 DEF Recorded
  <2>3. NothingMissed
    <3> SUFFICES ASSUME ~SweepDue, census.source = "replica", NEW p \in Pages, world[p].there, ~Current(p)
                 PROVE  p \in Unread(census.changes)
      BY DEF NothingMissed
    <3>1. credentials
      BY <2>1 DEF OnTheRoad, Road
    <3> QED
      BY <2>2, <3>1 DEF Due, Owed
  <2>4. TombstonesTrue
    <3> SUFFICES ASSUME ~SweepDue, NEW p \in Pages, stored[p].gone, world[p].there
                 PROVE  p \in Unread(census.changes)
      BY DEF TombstonesTrue
    <3>1. Owed(p)
      BY DEF Owed, Current
    <3> QED
      BY <2>2, <3>1 DEF Due
  <2> QED
    BY <2>1, <2>3, <2>4 DEF CensusSound
<1> QED
  BY <1>1, <1>2, <1>3, PTL DEF CensusSpec

---------------------------------------------------------------------------
(***************************************************************************)
(* The locks                                                               *)
(***************************************************************************)
USE GuardAssumption, LockAssumption, RunsAssumption

GuardSteps == {"off", "reclaim", "remake", "check", "child", "cleanup"}
ChildSteps == {"none", "enter", "intent", "lock", "body", "adrift", "cut"} \cup Exits
LockStates == {"free", "fresh", "stale"}

GuardTypes ==
    /\ lockdir \in [Jobs -> LockStates]
    /\ guard \in [Pods -> GuardSteps]
    /\ streak \in [Jobs -> 0 .. MaxFailures]
    /\ cooled \in [Jobs -> BOOLEAN]
LockTypes ==
    /\ intent \in Pods \cup {NoPod} /\ mutex \in Pods \cup {NoPod}
    /\ child \in [Pods -> ChildSteps]
    /\ retried \in [Pods -> BOOLEAN]
Types == GuardTypes /\ LockTypes

---------------------------------------------------------------------------
(* Types.                                                                  *)

LEMMA InitTypes == Init => Types
  BY DEF Init, GuardInit, LockInit, Types, GuardTypes, LockTypes, GuardSteps, ChildSteps, LockStates

LEMMA GuardStepTypes ==
  ASSUME Types, NEW p \in Pods, GuardStep(p)
  PROVE  Types'
<1>1. LockTypes'
  BY DEF Types, LockTypes, GuardStep, lockVars
<1>2. JobOf[p] \in Jobs
  OBVIOUS
<1>3. GuardTypes'
  BY <1>2 DEF Types, GuardTypes, GuardStep, GuardSteps, LockStates, Invoke, RemoveStale, RetakeLock,
              Refuse, Release, At, Goto, SetLock
<1>4. QED  BY <1>1, <1>3 DEF Types

LEMMA StartTypes ==
  ASSUME Types, NEW p \in Pods, Start(p)
  PROVE  Types'
  BY DEF Types, GuardTypes, LockTypes, Start, StartChild, StartRun, At, Goto, GuardSteps, ChildSteps

LEMMA LockStepTypes ==
  ASSUME Types, NEW p \in Pods, LockStep(p)
  PROVE  Types'
<1>1. GuardTypes'
  BY DEF Types, GuardTypes, LockStep, guardVars
<1>2. LockTypes'
  <2>1. CASE Enter(p) \/ TakeIntent(p) \/ TakeMutex(p) \/ GiveUp(p)
    BY <2>1 DEF Types, LockTypes, Enter, TakeIntent, TakeMutex, GiveUp, Step, ChildSteps, Exits
  <2>2. CASE NoticeDrop(p)
    BY <2>2 DEF Types, LockTypes, NoticeDrop, Retry, RetriesAt, Drop, ChildSteps, Exits
  <2>3. CASE Finish(p) \/ BodyFails(p)
    BY <2>3 DEF Types, LockTypes, Finish, BodyFails, Drop, ChildSteps, Exits
  <2>4. CASE WaitRunsOut(p)
    <3>1. child' = [child EXCEPT ![p] = "skipped"] /\ Drop(p) /\ UNCHANGED retried
      BY <2>4 DEF WaitRunsOut, Step
    <3> QED
      BY <3>1 DEF Types, LockTypes, Drop, ChildSteps, Exits
  <2>5. QED  BY <2>1, <2>2, <2>3, <2>4 DEF LockStep
<1>3. QED  BY <1>1, <1>2 DEF Types

LEMMA ExitTypes ==
  ASSUME Types, NEW p \in Pods, Exit(p)
  PROVE  Types'
<1>1. JobOf[p] \in Jobs
  OBVIOUS
<1>2. LockTypes'
  BY DEF Types, LockTypes, Exit, ChildSteps
<1>3. lockdir' = lockdir /\ guard' \in [Pods -> GuardSteps]
  BY DEF Types, GuardTypes, Exit, StoreState, At, Goto, GuardSteps
<1>4. streak' \in [Jobs -> 0 .. MaxFailures]
  BY <1>1 DEF Types, GuardTypes, Exit, StoreState, Counted
<1>5. cooled' \in [Jobs -> BOOLEAN]
  BY <1>1 DEF Types, GuardTypes, Exit, StoreState, Counted
<1>6. QED  BY <1>2, <1>3, <1>4, <1>5 DEF Types, GuardTypes

LEMMA KillTypes ==
  ASSUME Types, NEW p \in Pods, Kill(p)
  PROVE  Types'
  BY DEF Types, GuardTypes, LockTypes, Kill, Terminate, Vanish, Dies, Drop, Goto, GuardSteps, ChildSteps

LEMMA LosesTimeTypes ==
  ASSUME Types, NEW p \in Pods, LosesTime(p)
  PROVE  Types'
<1>1. GuardTypes'
  BY DEF Types, GuardTypes, LosesTime, guardVars
<1>2. LockTypes'
  <2>1. CASE WaitRunsOut(p)
    <3>1. child' = [child EXCEPT ![p] = "skipped"] /\ Drop(p) /\ UNCHANGED retried
      BY <2>1 DEF WaitRunsOut, Step
    <3> QED
      BY <3>1 DEF Types, LockTypes, Drop, ChildSteps, Exits
  <2>2. CASE LoseRowLock(p)
    <3>1. /\ \E c \in {"failed", "enter"} : child' = [child EXCEPT ![p] = c]
          /\ Drop(p) /\ retried' = [retried EXCEPT ![p] = TRUE]
      BY <2>2 DEF LoseRowLock, Retry, RetriesAt
    <3> QED
      BY <3>1 DEF Types, LockTypes, Drop, ChildSteps, Exits
  <2> QED
    BY <2>1, <2>2 DEF LosesTime
<1>3. QED  BY <1>1, <1>2 DEF Types

LEMMA JobEventTypes ==
  ASSUME Types, NEW j \in Jobs, TimePasses(j) \/ Breaks(j) \/ Mended(j)
  PROVE  Types'
  BY DEF Types, GuardTypes, LockTypes, TimePasses, LockAges, Cools, Breaks, Mended, guardVars, lockVars,
         LockStates

LEMMA DisconnectTypes ==
  ASSUME Types, Disconnect
  PROVE  Types'
<1>1. GuardTypes'
  BY DEF Types, GuardTypes, Disconnect, guardVars
<1>2. LockTypes'
  <2>1. CASE ServerDrops
    BY <2>1 DEF Types, LockTypes, ServerDrops, ChildSteps
  <2>2. CASE \E p \in Pods : LockConnectionDrops(p)
    BY <2>2 DEF Types, LockTypes, LockConnectionDrops, Step, ChildSteps
  <2> QED
    BY <2>1, <2>2 DEF Disconnect
<1>3. QED  BY <1>1, <1>2 DEF Types

LEMMA StutterTypes ==
  ASSUME Types, UNCHANGED vars
  PROVE  Types'
  BY DEF Types, GuardTypes, LockTypes, vars, guardVars, lockVars

\* Every variable of the jobs and of their locks has its type; in particular the streak
\* of failures stays within the breaker's limit.
THEOREM TypesHold == Spec => []Types
<1>1. Types /\ [Next]_vars => Types'
  BY GuardStepTypes, StartTypes, LockStepTypes, ExitTypes, KillTypes, LosesTimeTypes, JobEventTypes,
     DisconnectTypes, StutterTypes DEF Next, PodStep
<1>2. QED  BY InitTypes, <1>1, PTL DEF Spec

---------------------------------------------------------------------------
(* The lock directory.                                                     *)

\* Whoever is past mkdir finds the directory as it left it; an abandoned directory stays
\* abandoned until its one reclaimer has removed it.
OwnerKeepsFresh == \A p \in Pods : guard[p] \in Holding => lockdir[JobOf[p]] = "fresh"
ReclaimsStale == \A p \in Pods : guard[p] = "reclaim" => lockdir[JobOf[p]] = "stale"
OneReclaimer ==
    \A p, q \in Pods :
      p # q /\ JobOf[p] = JobOf[q] => ~(guard[p] \in Reclaiming /\ guard[q] \in Reclaiming)
DirectoryInv == OwnerKeepsFresh /\ ReclaimsStale /\ OneReclaimer /\ OneChild

LEMMA InitDirectory == Init => DirectoryInv
  BY DEF Init, GuardInit, DirectoryInv, OwnerKeepsFresh, ReclaimsStale, OneReclaimer, OneChild,
         Holding, Reclaiming

\* A guard that goes on without touching the directory, from one place to another of the
\* same standing, disturbs nobody.
LEMMA DirectoryKept ==
  ASSUME DirectoryInv, NEW p \in Pods, NEW there, guard \in [Pods -> GuardSteps],
         guard' = [guard EXCEPT ![p] = there],
         lockdir' = lockdir,
         there = "off" \/ (there \in Holding /\ guard[p] \in Holding)
  PROVE  DirectoryInv'
  BY DEF DirectoryInv, OwnerKeepsFresh, ReclaimsStale, OneReclaimer, OneChild, Reclaiming, Holding

LEMMA HoldingPlaces == "check" \in Holding /\ "child" \in Holding /\ "cleanup" \in Holding
  BY DEF Holding

LEMMA InvokeDirectory ==
  ASSUME Types, DirectoryInv, ~Simultaneous, NEW p \in Pods, Invoke(p)
  PROVE  DirectoryInv'
<1> USE DEF Types, GuardTypes, DirectoryInv, OwnerKeepsFresh, ReclaimsStale, OneReclaimer, OneChild
<1> USE DEF Holding, Reclaiming
<1>1. CASE lockdir[JobOf[p]] = "free"
  <2>1. /\ lockdir' = [lockdir EXCEPT ![JobOf[p]] = "fresh"]
        /\ guard' = [guard EXCEPT ![p] = "check"]
    BY <1>1 DEF Invoke, SetLock, Goto
  <2>2. \A q \in Pods : JobOf[q] = JobOf[p] => guard[q] \notin Holding /\ guard[q] # "reclaim"
    BY <1>1
  <2>3. QED  BY <2>1, <2>2 DEF GuardSteps
<1>2. CASE lockdir[JobOf[p]] = "stale"
  <2>1. lockdir' = lockdir /\ guard' = [guard EXCEPT ![p] = "reclaim"]
    BY <1>2 DEF Invoke, SetLock, Goto
  <2>2. \A q \in Pods : JobOf[q] = JobOf[p] => guard[q] \notin Reclaiming
    BY <1>2 DEF Invoke
  <2>3. QED  BY <1>2, <2>1, <2>2 DEF GuardSteps
<1>3. CASE lockdir[JobOf[p]] \notin {"free", "stale"}
  BY <1>3 DEF Invoke
<1>4. QED  BY <1>1, <1>2, <1>3

LEMMA RemoveStaleDirectory ==
  ASSUME Types, DirectoryInv, NEW p \in Pods, RemoveStale(p)
  PROVE  DirectoryInv'
<1>1. /\ lockdir[JobOf[p]] = "stale" /\ guard[p] = "reclaim"
      /\ lockdir' = [lockdir EXCEPT ![JobOf[p]] = "free"]
      /\ guard' = [guard EXCEPT ![p] = "remake"]
  BY DEF RemoveStale, At, SetLock, Goto, DirectoryInv, ReclaimsStale
<1>2. \A q \in Pods : JobOf[q] = JobOf[p] /\ q # p => guard[q] \notin Holding \cup Reclaiming
  BY <1>1 DEF DirectoryInv, OwnerKeepsFresh, OneReclaimer, Reclaiming
<1>3. QED
  BY <1>1, <1>2 DEF Types, GuardTypes, DirectoryInv, OwnerKeepsFresh, ReclaimsStale, OneReclaimer,
                    OneChild, Holding, Reclaiming

LEMMA RetakeLockDirectory ==
  ASSUME Types, DirectoryInv, NEW p \in Pods, RetakeLock(p)
  PROVE  DirectoryInv'
<1>1. CASE lockdir[JobOf[p]] = "free"
  <2>1. /\ lockdir' = [lockdir EXCEPT ![JobOf[p]] = "fresh"]
        /\ guard' = [guard EXCEPT ![p] = "check"]
    BY <1>1 DEF RetakeLock, SetLock, Goto
  <2>2. \A q \in Pods : JobOf[q] = JobOf[p] => guard[q] \notin Holding /\ guard[q] # "reclaim"
    BY <1>1 DEF DirectoryInv, OwnerKeepsFresh, ReclaimsStale
  <2>3. QED
    BY <2>1, <2>2 DEF Types, GuardTypes, DirectoryInv, OwnerKeepsFresh, ReclaimsStale, OneReclaimer,
                      OneChild, Holding, Reclaiming
<1>2. CASE lockdir[JobOf[p]] # "free"
  <2>1. lockdir' = lockdir /\ guard' = [guard EXCEPT ![p] = "off"]
    BY <1>2 DEF RetakeLock, Goto
  <2>2. QED  BY <2>1, DirectoryKept DEF Types, GuardTypes
<1>3. QED  BY <1>1, <1>2

LEMMA ReleaseDirectory ==
  ASSUME Types, DirectoryInv, NEW p \in Pods, Release(p)
  PROVE  DirectoryInv'
<1>1. /\ guard[p] = "cleanup" /\ lockdir[JobOf[p]] = "fresh"
      /\ lockdir' = [lockdir EXCEPT ![JobOf[p]] = "free"]
      /\ guard' = [guard EXCEPT ![p] = "off"]
  BY DEF Release, At, SetLock, Goto, DirectoryInv, OwnerKeepsFresh, Holding
<1>2. \A q \in Pods : JobOf[q] = JobOf[p] /\ q # p =>
          guard[q] \notin Holding /\ guard[q] # "reclaim"
  BY <1>1 DEF DirectoryInv, OneChild, ReclaimsStale, Holding
<1>3. QED
  BY <1>1, <1>2 DEF Types, GuardTypes, DirectoryInv, OwnerKeepsFresh, ReclaimsStale, OneReclaimer,
                    OneChild, Holding, Reclaiming

LEMMA LockAgesDirectory ==
  ASSUME Types, DirectoryInv, NEW j \in Jobs, LockAges(j)
  PROVE  DirectoryInv'
<1>1. \A p \in Pods : JobOf[p] = j => guard[p] \notin Holding
  BY DEF LockAges, OwnerSilent
<1>2. lockdir' = [lockdir EXCEPT ![j] = "stale"] /\ guard' = guard
  BY DEF LockAges
<1>3. QED
  BY <1>1, <1>2 DEF Types, GuardTypes, DirectoryInv, OwnerKeepsFresh, ReclaimsStale, OneReclaimer,
                    OneChild

LEMMA DirectoryStep ==
  ASSUME Types, DirectoryInv, ~Simultaneous, [Next]_vars
  PROVE  DirectoryInv'
<1>1. CASE UNCHANGED <<guard, lockdir>>
  BY <1>1 DEF DirectoryInv, OwnerKeepsFresh, ReclaimsStale, OneReclaimer, OneChild
<1>2. ASSUME NEW p \in Pods, PodStep(p) \/ Kill(p)
      PROVE  DirectoryInv'
  <2>1. CASE GuardStep(p)
    <3>1. CASE Refuse(p)
      <4>1. guard' = [guard EXCEPT ![p] = "cleanup"] /\ lockdir' = lockdir /\ guard[p] = "check"
        BY <3>1 DEF Refuse, Goto, At
      <4>2. QED  BY <4>1, HoldingPlaces, DirectoryKept DEF Types, GuardTypes
    <3>2. QED
      BY <2>1, <3>1, InvokeDirectory, RemoveStaleDirectory, RetakeLockDirectory, ReleaseDirectory
         DEF GuardStep
  <2>2. CASE Start(p)
    <3>1. guard' = [guard EXCEPT ![p] = "child"] /\ lockdir' = lockdir /\ guard[p] = "check"
      BY <2>2 DEF Start, StartChild, Goto, At
    <3>2. QED  BY <3>1, HoldingPlaces, DirectoryKept DEF Types, GuardTypes
  <2>3. CASE LockStep(p)
    BY <2>3, <1>1 DEF LockStep, guardVars
  <2>4. CASE Exit(p)
    <3>1. guard' = [guard EXCEPT ![p] = "cleanup"] /\ lockdir' = lockdir /\ guard[p] = "child"
      BY <2>4 DEF Exit, StoreState, Goto, At
    <3>2. QED  BY <3>1, HoldingPlaces, DirectoryKept DEF Types, GuardTypes
  <2>5. CASE Kill(p)
    <3>1. CASE Terminate(p)
      <4>1. guard' = [guard EXCEPT ![p] = "cleanup"] /\ lockdir' = lockdir /\ guard[p] \in Holding
        BY <3>1 DEF Terminate, Goto
      <4>2. QED  BY <4>1, HoldingPlaces, DirectoryKept DEF Types, GuardTypes
    <3>2. CASE Vanish(p)
      <4>1. guard' = [guard EXCEPT ![p] = "off"] /\ lockdir' = lockdir
        BY <3>2 DEF Vanish, Goto
      <4>2. QED  BY <4>1, HoldingPlaces, DirectoryKept DEF Types, GuardTypes
    <3>3. QED  BY <2>5, <3>1, <3>2 DEF Kill
  <2>6. QED  BY <1>2, <2>1, <2>2, <2>3, <2>4, <2>5 DEF PodStep
<1>3. ASSUME NEW p \in Pods, LosesTime(p)
      PROVE  DirectoryInv'
  BY <1>1, <1>3 DEF LosesTime, guardVars
<1>4. ASSUME NEW j \in Jobs, TimePasses(j) \/ Breaks(j) \/ Mended(j)
      PROVE  DirectoryInv'
  BY <1>1, <1>4, LockAgesDirectory DEF TimePasses, Cools, Breaks, Mended, guardVars
<1>5. CASE Disconnect
  BY <1>1, <1>5 DEF Disconnect, guardVars
<1>6. CASE UNCHANGED vars
  BY <1>1, <1>6 DEF vars, guardVars
<1>7. QED  BY <1>2, <1>3, <1>4, <1>5, <1>6 DEF Next

\* However many invocations cron starts, whatever is killed and however abandoned locks
\* are reclaimed, one guard of a job at a time is past the lock, provided that no two of
\* them reclaim it together.
THEOREM GuardExcludes == ASSUME ~Simultaneous PROVE Spec => []OneChild
<1>1. Types /\ DirectoryInv /\ [Next]_vars => DirectoryInv'
  BY DirectoryStep
<1>2. DirectoryInv => OneChild
  BY DEF DirectoryInv
<1>3. QED  BY TypesHold, InitDirectory, <1>1, <1>2, PTL DEF Spec

---------------------------------------------------------------------------
(* The advisory lock.                                                      *)

\* A child lives exactly while its guard waits for it.
ChildUnderGuard == \A p \in Pods : guard[p] = "child" <=> child[p] # "none"
\* A lock belongs to a process that asked for it and still needs it.
MutexLive == mutex # NoPod => child[mutex] = "body"
IntentLive == intent # NoPod => intent \in Waits /\ child[intent] \in {"lock", "body", "adrift"}
OnlyWaitersQueue == \A p \in Pods : child[p] = "intent" => p \in Waits
\* Nobody works without the lock.
BodyHolds == \A p \in Pods : child[p] = "body" => mutex = p

LEMMA ChildUnderGuardStep ==
  ASSUME Types, ChildUnderGuard, [Next]_vars
  PROVE  ChildUnderGuard'
<1> USE DEF Types, GuardTypes, LockTypes, ChildUnderGuard
<1>1. ASSUME NEW p \in Pods, GuardStep(p)
      PROVE  ChildUnderGuard'
  BY <1>1 DEF GuardStep, lockVars, Invoke, RemoveStale, RetakeLock, Refuse, Release, At, Goto
<1>2. ASSUME NEW p \in Pods, Start(p)
      PROVE  ChildUnderGuard'
  BY <1>2 DEF Start, StartChild, StartRun, Goto
<1>3. ASSUME NEW p \in Pods, LockStep(p)
      PROVE  ChildUnderGuard'
  BY <1>3 DEF LockStep, guardVars, Enter, TakeIntent, TakeMutex, GiveUp, NoticeDrop, Retry, RetriesAt,
              WaitRunsOut, Finish, BodyFails, Works, Step
<1>4. ASSUME NEW p \in Pods, Exit(p)
      PROVE  ChildUnderGuard'
  BY <1>4 DEF Exit, StoreState, Goto
<1>5. ASSUME NEW p \in Pods, Kill(p)
      PROVE  ChildUnderGuard'
  BY <1>5 DEF Kill, Terminate, Vanish, Dies, Goto
<1>6. ASSUME NEW p \in Pods, LosesTime(p)
      PROVE  ChildUnderGuard'
  BY <1>6 DEF LosesTime, guardVars, WaitRunsOut, LoseRowLock, Retry, RetriesAt, Works, Step
<1>7. ASSUME NEW j \in Jobs, TimePasses(j) \/ Breaks(j) \/ Mended(j)
      PROVE  ChildUnderGuard'
  BY <1>7 DEF TimePasses, LockAges, Cools, Breaks, Mended, guardVars, lockVars
<1>8. CASE Disconnect
  <2>1. guard' = guard
    BY <1>8 DEF Disconnect, guardVars
  <2>2. CASE ServerDrops
    <3>1. \A p \in Pods : child'[p] # "none" <=> child[p] # "none"
      BY <2>2 DEF ServerDrops, Works, Connected
    <3> QED
      BY <2>1, <3>1 DEF ChildUnderGuard
  <2>3. CASE \E p \in Pods : LockConnectionDrops(p)
    <3>1. \A p \in Pods : child'[p] # "none" <=> child[p] # "none"
      BY <2>3 DEF Types, LockTypes, LockConnectionDrops, Step
    <3> QED
      BY <2>1, <3>1 DEF ChildUnderGuard
  <2> QED
    BY <1>8, <2>2, <2>3 DEF Disconnect
<1>9. CASE UNCHANGED vars
  BY <1>9 DEF vars, guardVars, lockVars
<1>10. QED  BY <1>1, <1>2, <1>3, <1>4, <1>5, <1>6, <1>7, <1>8, <1>9 DEF Next, PodStep

LocksHeld == MutexLive /\ IntentLive /\ OnlyWaitersQueue
LocksLive == ChildUnderGuard /\ LocksHeld

LEMMA InitLocks == Init => LocksLive /\ BodyHolds
  BY DEF Init, GuardInit, LockInit, LocksLive, LocksHeld, ChildUnderGuard, MutexLive, IntentLive,
         OnlyWaitersQueue, BodyHolds

\* Who leaves the lock's connection drops both locks on the way.
LEMMA DropLeaves ==
  ASSUME Types, LocksHeld, NEW p \in Pods, NEW to, Drop(p),
         child' = [child EXCEPT ![p] = to],
         to \notin {"intent", "body"}
  PROVE  LocksHeld' /\ (BodyHolds => BodyHolds')
  BY DEF Types, LockTypes, Drop, LocksHeld, MutexLive, IntentLive, OnlyWaitersQueue, BodyHolds

LEMMA RetryHeld ==
  ASSUME Types, LocksHeld, NEW p \in Pods, Retry(p)
  PROVE  LocksHeld' /\ (BodyHolds => BodyHolds')
<1>1. PICK to \in {"failed", "enter"} : child' = [child EXCEPT ![p] = to]
  BY DEF Retry, RetriesAt
<1>2. Drop(p) /\ to \notin {"intent", "body"}
  BY DEF Retry
<1>3. QED  BY <1>1, <1>2, DropLeaves

LEMMA LockStepHeld ==
  ASSUME Types, LocksHeld, NEW p \in Pods, LockStep(p)
  PROVE  LocksHeld' /\ (BodyHolds => BodyHolds')
<1> USE DEF Types, LockTypes, LocksHeld, MutexLive, IntentLive, OnlyWaitersQueue, BodyHolds
<1>1. CASE Enter(p)
  <2>1. /\ child[p] = "enter" /\ intent' = intent /\ mutex' = mutex
        /\ child' = [child EXCEPT ![p] = IF p \in Waits THEN "intent"
                                         ELSE IF Yields(p) THEN "skipped" ELSE "lock"]
    BY <1>1 DEF Enter
  <2>2. PICK to \in {"intent", "skipped", "lock"} :
            child' = [child EXCEPT ![p] = to] /\ (to = "intent" => p \in Waits)
    BY <2>1
  <2>3. intent # p /\ mutex # p
    BY <2>1
  <2>4. QED  BY <2>1, <2>2, <2>3
<1>2. CASE TakeIntent(p)
  BY <1>2 DEF TakeIntent, Step
<1>3. CASE TakeMutex(p)
  BY <1>3 DEF TakeMutex, Step
<1>4. CASE GiveUp(p)
  BY <1>4 DEF GiveUp, Step
<1>5. CASE NoticeDrop(p)
  BY <1>5, RetryHeld DEF NoticeDrop
<1>6. CASE Finish(p) \/ BodyFails(p)
  BY <1>6, DropLeaves DEF Finish, BodyFails
<1>7. CASE WaitRunsOut(p)
  BY <1>7, DropLeaves DEF WaitRunsOut, Step
<1>8. QED  BY <1>1, <1>2, <1>3, <1>4, <1>5, <1>6, <1>7 DEF LockStep

LEMMA LocksStep ==
  ASSUME Types, LocksLive, [Next]_vars
  PROVE  LocksHeld' /\ (BodyHolds => BodyHolds')
<1>1. LocksHeld
  BY DEF LocksLive
<1>2. ASSUME UNCHANGED <<intent, mutex, child>>
      PROVE  LocksHeld' /\ (BodyHolds => BodyHolds')
  BY <1>1, <1>2 DEF LocksHeld, MutexLive, IntentLive, OnlyWaitersQueue, BodyHolds
<1>3. ASSUME NEW p \in Pods, PodStep(p)
      PROVE  LocksHeld' /\ (BodyHolds => BodyHolds')
  <2>1. CASE GuardStep(p)
    BY <1>2, <2>1 DEF GuardStep, lockVars
  <2>2. CASE Start(p)
    <3>1. child[p] = "none"
      BY <2>2 DEF LocksLive, ChildUnderGuard, Start, StartChild, At
    <3>2. QED
      BY <1>1, <2>2, <3>1 DEF Types, LockTypes, LocksHeld, MutexLive, IntentLive, OnlyWaitersQueue,
                              BodyHolds, Start, StartRun
  <2>3. CASE LockStep(p)
    BY <1>1, <2>3, LockStepHeld
  <2>4. CASE Exit(p)
    BY <1>1, <2>4 DEF Types, LockTypes, LocksHeld, MutexLive, IntentLive, OnlyWaitersQueue, BodyHolds,
                      Exit, Exits
  <2>5. QED  BY <1>3, <2>1, <2>2, <2>3, <2>4 DEF PodStep
<1>4. ASSUME NEW p \in Pods, Kill(p)
      PROVE  LocksHeld' /\ (BodyHolds => BodyHolds')
  <2>1. PICK to \in {"none"} : Drop(p) /\ child' = [child EXCEPT ![p] = to]
    BY <1>4 DEF Kill, Dies
  <2>2. to \notin {"intent", "body"}
    OBVIOUS
  <2>3. QED  BY <1>1, <2>1, <2>2, DropLeaves
<1>5. ASSUME NEW p \in Pods, LosesTime(p)
      PROVE  LocksHeld' /\ (BodyHolds => BodyHolds')
  <2>1. CASE WaitRunsOut(p)
    BY <1>1, <2>1, DropLeaves DEF WaitRunsOut, Step
  <2>2. CASE LoseRowLock(p)
    BY <1>1, <2>2, RetryHeld DEF LoseRowLock
  <2>3. QED  BY <1>5, <2>1, <2>2 DEF LosesTime
<1>6. ASSUME NEW j \in Jobs, TimePasses(j) \/ Breaks(j) \/ Mended(j)
      PROVE  LocksHeld' /\ (BodyHolds => BodyHolds')
  <2>1. UNCHANGED <<intent, mutex, child>>
    BY <1>6 DEF TimePasses, Breaks, Mended, lockVars
  <2>2. QED  BY <1>2, <2>1
<1>7. CASE Disconnect
  <2>1. CASE ServerDrops
    <3>1. /\ intent' = NoPod /\ mutex' = NoPod
          /\ \A p \in Pods : child'[p] # "body" /\ (child'[p] = "intent" => child[p] = "intent")
      BY <2>1 DEF ServerDrops, Connected
    <3> QED
      BY <1>1, <3>1 DEF LocksHeld, MutexLive, IntentLive, OnlyWaitersQueue, BodyHolds
  <2>2. ASSUME NEW p \in Pods, LockConnectionDrops(p)
        PROVE  LocksHeld' /\ (BodyHolds => BodyHolds')
    <3>1. CASE Step(p, "body", "adrift") /\ mutex' = NoPod /\ UNCHANGED intent
      BY <1>1, <3>1 DEF Types, LockTypes, LocksHeld, MutexLive, IntentLive, OnlyWaitersQueue,
                        BodyHolds, Step
    <3>2. CASE intent' = NoPod /\ UNCHANGED <<mutex, child>>
      BY <1>1, <3>2 DEF LocksHeld, MutexLive, IntentLive, OnlyWaitersQueue, BodyHolds
    <3> QED
      BY <2>2, <3>1, <3>2 DEF LockConnectionDrops
  <2>3. QED  BY <1>7, <2>1, <2>2 DEF Disconnect
<1>8. CASE UNCHANGED vars
  BY <1>2, <1>8 DEF vars, lockVars
<1>9. QED  BY <1>3, <1>4, <1>5, <1>6, <1>7, <1>8 DEF Next

\* Whatever is killed or cut off, even a lock's idle connection, no lock is left behind:
\* its holder is a living child that works, or waits its turn for the other lock.
THEOREM LocksAreLive == Spec => []LocksLive
<1>1. Types /\ LocksLive /\ [Next]_vars => LocksLive'
  BY ChildUnderGuardStep, LocksStep DEF LocksLive
<1>2. QED  BY TypesHold, InitLocks, <1>1, PTL DEF Spec

\* Of the jobs under one advisory lock, one at a time works with the session of the lock:
\* a dropped connection, a second attempt or a death lets none in that has not won it.
\* (A body whose session was dropped unseen works on beside it: of all bodies it is not proved,
\* it is false.)
THEOREM LockExcludes == Spec => []OneBody
<1>1. Types /\ LocksLive /\ BodyHolds /\ [Next]_vars => BodyHolds'
  BY LocksStep DEF LocksLive
<1>2. BodyHolds => OneBody
  BY DEF BodyHolds, OneBody
<1>3. QED  BY TypesHold, LocksAreLive, InitLocks, <1>1, <1>2, PTL DEF Spec

\* The two together: there is one process at most that does a job's work, and it runs
\* under the guard that started it.
OneProcess ==
    \A p, q \in Pods :
      p # q /\ JobOf[p] = JobOf[q] => child[p] = "none" \/ child[q] = "none"
THEOREM OneProcessPerJob == ASSUME ~Simultaneous PROVE Spec => []OneProcess
<1>1. OneChild /\ LocksLive /\ Types => OneProcess
  BY DEF OneChild, LocksLive, ChildUnderGuard, OneProcess, Holding, Types, LockTypes
<1>2. QED  BY GuardExcludes, LocksAreLive, TypesHold, <1>1, PTL
=============================================================================
