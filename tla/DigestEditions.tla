--------------------------- MODULE DigestEditions ---------------------------
(***************************************************************************)
(* What publication promises to the delivery outbox and to readers: an     *)
(* edition of a closed UTC period appears at most once, and the day it was *)
(* published never changes afterwards (the outbox decides by that day, on  *)
(* every pass again, whether the edition is still news).                   *)
(*                                                                         *)
(* DigestPublish implements this specification; DigestDelivery runs on it. *)
(***************************************************************************)
EXTENDS Integers

CONSTANT MaxDay          \* bound: UTC days, numbered from 1

ASSUME MaxDayAssumption == MaxDay \in Nat \ {0}

\* Day d is also the daily period [00:00, 00:00) it spans, closed on day d + 1.
Days == 1..MaxDay
Unpublished == 0

VARIABLES day,           \* today
          published      \* the day each period's edition was published

editionVars == <<day, published>>

EditionsTypeOK == day \in Days /\ published \in [Days -> Days \cup {Unpublished}]

EditionsInit == day = 1 /\ published = [d \in Days |-> Unpublished]

NextDay ==
    /\ day < MaxDay
    /\ day' = day + 1
    /\ UNCHANGED published

PublishEdition(d) ==
    /\ d < day
    /\ published[d] = Unpublished
    /\ published' = [published EXCEPT ![d] = day]
    /\ UNCHANGED day

EditionsNext == NextDay \/ \E d \in Days : PublishEdition(d)

EditionsSpec == EditionsInit /\ [][EditionsNext]_editionVars
=============================================================================
