------------------------- MODULE MCPeopleReconcile -------------------------
(* Instances of PeopleReconcile: a label that names Alice, one that names nobody, *)
(* and a wiki username that turns out to be Bob's.                                *)
EXTENDS PeopleReconcile

CONSTANTS alice, bob, a, x, w, t1

MCNamed == [l \in {a, x} |-> IF l = a THEN {alice} ELSE {}]
MCAccount == [h \in {w} |-> bob]
MCRecords == {{x, w}, {a, x}}
=============================================================================
