------------------------------- MODULE JobLock -------------------------------
(***************************************************************************)
(* backend/job_runner.py with db.advisory_lock: what the child of a guard  *)
(* does in a pod.  The modes of one job family share a lock, such as       *)
(* "people-reconcile"; GET_LOCK gives it to whoever asks at the moment it  *)
(* is free.  A mode that is willing to wait books a place with the intent  *)
(* lock, and a mode that is not steps aside when it sees one.              *)
(*                                                                         *)
(* The locks live on database connections of their own; the body works on  *)
(* others, one transaction after another.  A transaction that loses its    *)
(* connection is rolled back; a body that loses one between transactions,  *)
(* or that counts the failed item and goes on to the next (process_queue   *)
(* of people_reconcile.py), is given a fresh connection and works on       *)
(* without its lock: it is adrift.                                         *)
(***************************************************************************)
EXTENDS JobGuard

CONSTANTS
    NoPod,
    Waits           \* those with lock_wait_seconds > 0

ASSUME LockAssumption == NoPod \notin Pods /\ Waits \subseteq Pods

VARIABLES
    intent,         \* holder of "people-reconcile:waiting"
    mutex,          \* holder of "people-reconcile"
    child,          \* where run_job is in a pod
    retried         \* run_job's second attempt

lockVars == <<intent, mutex, child, retried>>

Exits == {"ok", "failed", "skipped"}

LockInit ==
    /\ intent = NoPod
    /\ mutex = NoPod
    /\ child = [p \in Pods |-> "none"]
    /\ retried = [p \in Pods |-> FALSE]

Step(p, from, to) == child[p] = from /\ child' = [child EXCEPT ![p] = to]

\* Leaving the ExitStack releases what the process holds; so does its death.
Drop(p) ==
    /\ intent' = IF intent = p THEN NoPod ELSE intent
    /\ mutex' = IF mutex = p THEN NoPod ELSE mutex

StartRun(p) ==
    /\ child' = [child EXCEPT ![p] = "enter"]
    /\ retried' = [retried EXCEPT ![p] = FALSE]
    /\ UNCHANGED <<intent, mutex>>

\* _run_once: queue visibly, yield to a waiter, or ask for the lock (fault: nobody
\* yields).
NeverYields(p) == FALSE
Yields(p) == p \notin Waits /\ intent # NoPod
Enter(p) ==
    /\ child[p] = "enter"
    /\ child' = [child EXCEPT ![p] = IF p \in Waits THEN "intent"
                                     ELSE IF Yields(p) THEN "skipped" ELSE "lock"]
    /\ UNCHANGED <<intent, mutex, retried>>

TakeIntent(p) ==
    /\ Step(p, "intent", "lock")
    /\ intent = NoPod
    /\ intent' = p
    /\ UNCHANGED <<mutex, retried>>

TakeMutex(p) ==
    /\ Step(p, "lock", "body")
    /\ mutex = NoPod
    /\ mutex' = p
    /\ UNCHANGED <<intent, retried>>

\* A mode that does not wait finds the lock taken.
GiveUp(p) ==
    /\ Step(p, "lock", "skipped")
    /\ p \notin Waits
    /\ mutex # NoPod
    /\ UNCHANGED <<intent, mutex, retried>>

\* The wait runs out, on either lock.
WaitRunsOut(p) ==
    /\ p \in Waits
    /\ \/ Step(p, "intent", "skipped") /\ intent # NoPod
       \/ Step(p, "lock", "skipped") /\ mutex # NoPod
    /\ Drop(p)
    /\ UNCHANGED retried

\* A waiter that has lost its place with the connection of the intent lock: nobody steps
\* aside for it any more, and it goes on asking only until its time is up.
Unseen(p) == child[p] = "lock" /\ intent # p

\* A body, with the session of its lock or without it.
Works(p) == child[p] \in {"body", "adrift"}

Finish(p) ==
    /\ Works(p)
    /\ child' = [child EXCEPT ![p] = "ok"]
    /\ Drop(p)
    /\ UNCHANGED retried

BodyFails(p) ==
    /\ Works(p)
    /\ child' = [child EXCEPT ![p] = "failed"]
    /\ Drop(p)
    /\ UNCHANGED retried

\* run_job retries once, from the beginning (fault: it goes on where it was).
ResumesInside == "body"
RetriesAt == "enter"
Retry(p) ==
    /\ child' = [child EXCEPT ![p] = IF retried[p] THEN "failed" ELSE RetriesAt]
    /\ retried' = [retried EXCEPT ![p] = TRUE]
    /\ Drop(p)

\* A row lock was lost: the transaction is rolled back (that it may be too late for a
\* retry is BodyFails).
LoseRowLock(p) == Works(p) /\ Retry(p)

\* The server closes every connection: locks are gone, transactions rolled back.  Some
\* bodies do not see it: they are between two transactions, and the pool's ping gives
\* them another connection, or they take the error for the failure of one item.
Connected == {"intent", "lock", "body", "adrift"}
ServerDrops ==
    /\ intent' = NoPod
    /\ mutex' = NoPod
    /\ \E calm \in SUBSET {p \in Pods : Works(p)} :
         child' = [p \in Pods |-> IF p \in calm THEN "adrift"
                                  ELSE IF child[p] \in Connected THEN "cut" ELSE child[p]]
    /\ UNCHANGED retried

\* The next statement raises out of the body, with connection_invalidated.
NoticeDrop(p) == child[p] = "cut" /\ Retry(p)

\* The server closes one idle connection, the one that holds one of the locks.
LockConnectionDrops(p) ==
    /\ \/ Step(p, "body", "adrift") /\ mutex' = NoPod /\ UNCHANGED intent
       \/ intent = p /\ intent' = NoPod /\ UNCHANGED <<mutex, child>>
    /\ UNCHANGED retried

Dies(p) ==
    /\ child' = [child EXCEPT ![p] = "none"]
    /\ Drop(p)
    /\ UNCHANGED retried
=============================================================================
