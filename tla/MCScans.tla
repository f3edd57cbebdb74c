------------------------------ MODULE MCScans ------------------------------
(* Two tools; a git repository that is emptied by its first push and filled *)
(* by its second, another one, a wiki page set, and a URL that names none.  *)
EXTENDS Scans, TLC

CONSTANTS a, b, g1, g2, w, x

MCTools == <<a, b>>
MCHeads == 1 .. 2
MCContent == [p \in (Clones \cup Pages) \X MCHeads |->
                IF p = <<g1, 2>> THEN "nothing" ELSE "source"]
MCRecords == {(a :> g1 @@ b :> g2), (a :> w @@ b :> g1)}
OnePoison == {{}, {g2}}
=============================================================================
