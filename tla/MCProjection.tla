--------------------------- MODULE MCProjection ---------------------------
(* A script whose record names a tracker or loses it, with up to two         *)
(* keywords; a model that reads two keywords off its page.                  *)
EXTENDS Projection, TLC

CONSTANTS w1

MCRecords == {[link |-> None, words |-> <<"k1">>]}
MCPatches == {[words |-> <<"k3">>, libs |-> {"lib"}]}
MCReading == <<"k1", "k3">>
Approve(link, base) == [kind |-> "owner", link |-> link, base |-> base, status |-> "approved"]
Bare == [link |-> "u1", words |-> <<>>, item |-> None, read |-> <<>>, reports |-> <<>>, curations |-> <<>>]
Owned == [Bare EXCEPT !.link = "u1", !.item = Bad, !.words = <<"k1">>,
                      !.curations = <<Approve("u2", "u1")>>]
Reported == [Bare EXCEPT !.words = <<"k1", "k2">>, !.reports = <<[words |-> <<"k3">>, libs |-> {"lib"}, at |-> 0, status |-> "approved"]>>]
MCStarts == {Bare, Owned, Reported}
=============================================================================
