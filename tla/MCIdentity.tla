----------------------------- MODULE MCIdentity -----------------------------
(***************************************************************************)
(* Small instances of Identity for TLC.  Two people, ann and bob, may have *)
(* a Toolhub account each and share two developer accounts; one tool is    *)
(* proven by its record to run in the project, one only hints at it.       *)
(***************************************************************************)
EXTENDS Identity, TLC

CONSTANTS p1, tool1, tool2

MCHubStart == 1 :> [name |-> "ann", global |-> None]
MCHubRows(t) ==
    IF t = 1 THEN {[name |-> "ann", global |-> "g1"], [name |-> "bob", global |-> None]}
             ELSE {[name |-> "ann", global |-> "g2"]}
MCLdapRow(d, g, ps) ==
    [developer |-> d, shell |-> "s1", global |-> g, disabled |-> FALSE, projects |-> ps]
MCLdapStart == 1 :> MCLdapRow("ann", None, {p1})
MCLdapRows(u) == {MCLdapRow("ann", "g1", {p1}), MCLdapRow("bob", None, {})}
MCProjectOf == (tool1 :> p1) @@ (tool2 :> p1)
MCVerifies == (tool1 :> TRUE) @@ (tool2 :> FALSE)
MCUserSpace == (tool1 :> "ann") @@ (tool2 :> None)
MCGlobalName == ("g1" :> "ann") @@ ("g2" :> "bob")
MCNames == {"ann", "bob", "s1", "s2"}
MCGlobals == {"g1", "g2"}
MCVouched == {<<"bob", tool1>>}
MCToolhubIds == {1, 2}
MCUidNumbers == {1}
=============================================================================
