--------------------------- MODULE MCUserscripts ---------------------------
(***************************************************************************)
(* Three pages of three accounts, two of them under one file name and two  *)
(* that slug alike.  The bodies resemble each other in a chain, and one    *)
(* loads another page.                                                      *)
(***************************************************************************)
EXTENDS Userscripts

MCOwner == <<"a", "b", "c">>
MCBasename == <<"x.js", "x.js", "y.js">>
MCName == <<"wiki-a-x", "wiki-b-x", "wiki-b-x">>
MCFirst == <<2, 1>>

Body(own, loads) == [own |-> own, loads |-> loads, note |-> ""]
MCBodies == {Body({1, 2, 3}, {}), Body({2, 3, 4}, {}), Body({3, 4, 5}, {}), Body({7}, {2})}
=============================================================================
