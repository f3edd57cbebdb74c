------------------------------ MODULE MCJobRuns ------------------------------
(* Instances of JobRuns: a draining job with two pods that never waits, and an *)
(* hourly job that does.                                                       *)
EXTENDS JobRuns

CONSTANTS drain, hourly, d1, d2, h

MCJobOf == [p \in {d1, d2, h} |-> IF p = h THEN hourly ELSE drain]
=============================================================================
