----------------------------- MODULE MCReadings -----------------------------
(***************************************************************************)
(* Two wikis of one replica section.  The first may declare two gadgets    *)
(* whose names differ in case only; nobody edits the third gadget, of the  *)
(* second.  There is one user script.  Of the edits, Few keeps those that  *)
(* differ: the second wiki leaves the roster and the first does not, one   *)
(* of the two files is edited, and the second gadget declares one thing.   *)
(***************************************************************************)
EXTENDS Readings

MCSection == [w \in Wikis |-> 1]
MCKey == <<"a", "a", "b">>
MCHome == <<1, 1, 2>>
MCBorn == <<1, 2>>
MCAuthor == <<None, "x">>
Says(files) == [hidden |-> FALSE, files |-> files]
MCDeclarations == {Says({1, 2}), Says({2})}
MCFallback == <<1>>
MCScripts == <<"s">>
MCInit == Init /\ line = <<Says({1, 2}), None, Says({2})>> /\ stored = [s \in Script |-> 1]
Few == 1 \in roster' /\ page'[2] = page[2] /\ line'[2] \in {None, Says({2})}
MCSpec == MCInit /\ [][Next /\ Few]_vars /\ Fairness

=============================================================================
