---------------------------- MODULE LaneSchedule ----------------------------
(***************************************************************************)
(* Which wikis a census run covers and in which order, and when a covered  *)
(* wiki is next due (wiki_schedule.py).  Time is counted in runs of the    *)
(* lane; a row's due is how many runs from now its turn comes, negative    *)
(* when it is overdue.                                                      *)
(***************************************************************************)
EXTENDS Integers, Sequences, FiniteSets, SequencesExt

CONSTANTS
    Wikis,          \* numbers, in the order of the hosts' names
    Section,        \* [Wikis -> replica section, a number]
    Closed,         \* the wikis that are closed
    Initial, Fastest, Slowest, SlowestClosed,   \* the lane's Cadence
    BackoffBase, BackoffMax,
    Selection,      \* SELECTION: how many due wikis a run considers
    Behind          \* bound: how far overdue a row is told apart

ASSUME ScheduleAssumption ==
    /\ Wikis \subseteq Nat /\ IsFiniteSet(Wikis) /\ Closed \subseteq Wikis
    /\ Section \in [Wikis -> Nat]
    /\ {Initial, Fastest, Slowest, SlowestClosed, BackoffBase, BackoffMax, Selection, Behind}
         \subseteq Nat \ {0}
    /\ Fastest <= Initial /\ Initial <= Slowest /\ Slowest <= SlowestClosed

\* No row yet counts as due since the wiki was first seen; _state makes a row that is due now.
NewRow == [held |-> FALSE, due |-> 0, cadence |-> Initial, failures |-> 0]
StateRow(row) == IF row.held THEN row ELSE [NewRow EXCEPT !.held = TRUE]

\* One run later.
Later(row) == [row EXCEPT !.due = IF @ > -Behind THEN @ - 1 ELSE @]

ByHost(lane, live) == SetToSortSeq({w \in live : lane[w].due <= 0}, <)
MostOverdue(lane, live) ==
    SetToSortSeq({w \in live : lane[w].due <= 0},
                 LAMBDA v, w : lane[v].due < lane[w].due \/ (lane[v].due = lane[w].due /\ v < w))

\* _by_section: one instance's wikis together, each in the order of the queue.
BySection(queue) ==
    FlattenSeq([s \in 1 .. 8 |-> SelectSeq(queue, LAMBDA w : Section[w] = s)])

Due(lane, live) ==
    LET queue == MostOverdue(lane, live)
    IN  BySection(IF Len(queue) > Selection THEN SubSeq(queue, 1, Selection) ELSE queue)

Least(a, b) == IF a < b THEN a ELSE b
Most(a, b) == IF a > b THEN a ELSE b

\* Halved by a change, doubled by quiet, between the lane's bounds.
Tune(cadence, changed, closed) ==
    IF changed THEN Most(Fastest, cadence \div 2)
    ELSE Least(IF closed THEN SlowestClosed ELSE Slowest, Most(cadence * 2, Fastest))

SettleFailed(row) ==
    LET failures == StateRow(row).failures + 1
    IN  [StateRow(row) EXCEPT !.failures = failures,
                              !.due = Least(BackoffMax, BackoffBase * 2 ^ (failures - 1))]
SettleCovered(row, changed, closed) ==
    LET cadence == Tune(StateRow(row).cadence, changed, closed)
    IN  [StateRow(row) EXCEPT !.failures = 0, !.cadence = cadence, !.due = cadence]
=============================================================================
