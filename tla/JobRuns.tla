------------------------------- MODULE JobRuns -------------------------------
(***************************************************************************)
(* Scheduled jobs that share an advisory lock, each under its guard: the   *)
(* composition of JobGuard and JobLock.  cron starts invocations, pods are *)
(* killed, the database drops connections, and a job may be broken for a   *)
(* while (its body then fails).                                            *)
(***************************************************************************)
EXTENDS JobLock

CONSTANTS
    MaxKills,       \* bound: killed or evicted pods
    MaxDrops,       \* bound: dropped connections
    MaxTimeouts,    \* bound: waits that run out in spite of a place kept, row locks lost
    MaxBreaks       \* bound: times a job breaks

ASSUME RunsAssumption ==
    /\ {MaxKills, MaxDrops, MaxTimeouts, MaxBreaks} \subseteq Nat
    /\ \A p, q \in Pods : JobOf[p] = JobOf[q] /\ p \in Waits => q \in Waits

VARIABLES
    broken,         \* the jobs whose body fails at present
    faults          \* how often each bounded fault has happened

vars == <<guardVars, lockVars, broken, faults>>

Bound == [kill |-> MaxKills, drop |-> MaxDrops, timeout |-> MaxTimeouts,
          break |-> MaxBreaks]
Fault(kind) ==
    /\ faults[kind] < Bound[kind]
    /\ faults' = [faults EXCEPT ![kind] = @ + 1]

Init ==
    /\ GuardInit
    /\ LockInit
    /\ broken = {}
    /\ faults = [kind \in DOMAIN Bound |-> 0]

GuardStep(p) ==
    /\ Invoke(p) \/ RemoveStale(p) \/ RetakeLock(p) \/ Refuse(p) \/ Release(p)
    /\ UNCHANGED <<lockVars, broken, faults>>

Start(p) ==
    /\ StartChild(p)
    /\ StartRun(p)
    /\ UNCHANGED <<broken, faults>>

LockStep(p) ==
    /\ \/ Enter(p) \/ TakeIntent(p) \/ TakeMutex(p) \/ GiveUp(p) \/ NoticeDrop(p)
       \/ Unseen(p) /\ WaitRunsOut(p)
       \/ JobOf[p] \notin broken /\ Finish(p)
       \/ JobOf[p] \in broken /\ BodyFails(p)
    /\ UNCHANGED <<guardVars, broken, faults>>

Exit(p) ==
    /\ child[p] \in Exits
    /\ StoreState(p, child[p])
    /\ child' = [child EXCEPT ![p] = "none"]
    /\ UNCHANGED <<intent, mutex, retried, broken, faults>>

Kill(p) ==
    /\ Terminate(p) \/ Vanish(p)
    /\ Dies(p)
    /\ Fault("kill")
    /\ UNCHANGED broken

LosesTime(p) ==
    /\ WaitRunsOut(p) \/ LoseRowLock(p)
    /\ Fault("timeout")
    /\ UNCHANGED <<guardVars, broken>>

Disconnect ==
    /\ ServerDrops \/ \E p \in Pods : LockConnectionDrops(p)
    /\ Fault("drop")
    /\ UNCHANGED <<guardVars, broken>>

Breaks(j) ==
    /\ broken' = broken \cup {j}
    /\ j \notin broken
    /\ Fault("break")
    /\ UNCHANGED <<guardVars, lockVars>>
Mended(j) ==
    /\ j \in broken
    /\ broken' = broken \ {j}
    /\ UNCHANGED <<guardVars, lockVars, faults>>

TimePasses(j) ==
    /\ LockAges(j) \/ Cools(j)
    /\ UNCHANGED <<lockVars, broken, faults>>

PodStep(p) == GuardStep(p) \/ Start(p) \/ LockStep(p) \/ Exit(p)

Next ==
    \/ \E p \in Pods : PodStep(p) \/ Kill(p) \/ LosesTime(p)
    \/ \E j \in Jobs : TimePasses(j) \/ Breaks(j) \/ Mended(j)
    \/ Disconnect

Spec == Init /\ [][Next]_vars

\* cron goes on starting pods, a pod that is not killed goes on, and time passes: the lock
\* is given to a waiter in the time it waits, or it is not.
FairSpec ==
    /\ Spec
    /\ \A p \in Pods : WF_vars(PodStep(p))
    /\ \A j \in Jobs : WF_vars(LockAges(j) /\ UNCHANGED <<lockVars, broken, faults>>)
    /\ \A j \in Jobs : WF_vars(Cools(j) /\ UNCHANGED <<lockVars, broken, faults>>)

(***************************************************************************)
(* Properties                                                              *)
(***************************************************************************)
\* job_guard.sh: a "second concurrent run" is "the one thing the lock exists to
\* prevent".  However runs are killed and their locks reclaimed, one child of a job
\* is alive at a time.
OneChild ==
    \A p, q \in Pods :
      p # q /\ JobOf[p] = JobOf[q] => ~(guard[p] \in Holding /\ guard[q] \in Holding)

\* Of the bodies that have the session of their lock there is one at a time: not a
\* dropped connection, a lost row lock, a second attempt or a killed pod lets a job in
\* that did not win the lock.
OneBody == \A p, q \in Pods : child[p] = "body" /\ child[q] = "body" => p = q

\* A job that waits for the lock is not starved by one that asks all the time, nor
\* retired by an abandoned lock, a skip or a tripped breaker: once nothing in it is
\* broken any more it runs again and again.
WaitingJobRuns ==
    \A j \in {JobOf[p] : p \in Waits} :
      (<>[](j \notin broken)) =>
        []<>(\E p \in Pods : JobOf[p] = j /\ child[p] = "body")
=============================================================================
