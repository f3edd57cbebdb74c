-------------------------- MODULE MCDigestDelivery --------------------------
(* Small instances of DigestDelivery for TLC: one subscriber, reached by e-mail  *)
(* or on a talk page.                                                        *)
EXTENDS DigestDelivery

CONSTANTS email, talk

OneSubscriber == \E s \in Subs : \A t \in Subs \ {s} : confirmed[t] = 0
MCNext == Next /\ OneSubscriber'
MCSpec == Init /\ [][MCNext]_vars /\ WF_vars(Pass) /\ \A r \in Rows : WF_vars(BackoffElapses(r))
=============================================================================
