------------------------------ MODULE JobGuard ------------------------------
(***************************************************************************)
(* tools/job_guard.sh: the wrapper around every scheduled job.  It takes a *)
(* lock directory, keeps it fresh with a heartbeat, reclaims it from a run *)
(* that died, and stops starting a child that keeps failing.               *)
(*                                                                         *)
(* A pod is a slot for an invocation of one job: cron may start an         *)
(* invocation while an earlier one runs.  Time is reduced to two facts: a  *)
(* lock nobody touches becomes stale (STALE_AFTER), and the last failure   *)
(* is some time ago (RETRY_AFTER).  What the child does is JobLock's.      *)
(***************************************************************************)
EXTENDS Naturals

CONSTANTS
    Jobs,
    Pods,
    JobOf,          \* the job a pod runs
    MaxFailures,    \* --max-failures
    Simultaneous    \* may two invocations be reclaiming one lock at a time?

ASSUME GuardAssumption ==
    /\ JobOf \in [Pods -> Jobs]
    /\ MaxFailures \in Nat \ {0}
    /\ Simultaneous \in BOOLEAN

VARIABLES
    lockdir,        \* .<job>.lock: free, fresh, or stale
    guard,          \* where the guard of a pod is
    streak,         \* <job>.state: failure_streak
    cooled          \* RETRY_AFTER has passed since last_failure_at

guardVars == <<lockdir, guard, streak, cooled>>

GuardInit ==
    /\ lockdir = [j \in Jobs |-> "free"]
    /\ guard = [p \in Pods |-> "off"]
    /\ streak = [j \in Jobs |-> 0]
    /\ cooled = [j \in Jobs |-> FALSE]

Reclaiming == {"reclaim", "remake"}
Holding == {"check", "child", "cleanup"}

At(p, here) == guard[p] = here
Goto(p, there) == guard' = [guard EXCEPT ![p] = there]
SetLock(p, state) == lockdir' = [lockdir EXCEPT ![JobOf[p]] = state]

\* cron starts the guard: mkdir takes the lock, skips, or finds it abandoned.
Invoke(p) ==
    /\ At(p, "off")
    /\ lockdir[JobOf[p]] = "stale" /\ ~Simultaneous =>
         \A q \in Pods : JobOf[q] = JobOf[p] => guard[q] \notin Reclaiming
    /\ CASE lockdir[JobOf[p]] = "free"  -> SetLock(p, "fresh") /\ Goto(p, "check")
         [] lockdir[JobOf[p]] = "stale" -> Goto(p, "reclaim") /\ UNCHANGED lockdir
         [] OTHER                       -> UNCHANGED <<lockdir, guard>>
    /\ UNCHANGED <<streak, cooled>>

\* rmdir removes whatever directory is there by now.
RemoveStale(p) ==
    /\ At(p, "reclaim")
    /\ SetLock(p, "free")
    /\ Goto(p, "remake")
    /\ UNCHANGED <<streak, cooled>>

RetakeLock(p) ==
    /\ At(p, "remake")
    /\ IF lockdir[JobOf[p]] = "free"
       THEN SetLock(p, "fresh") /\ Goto(p, "check")
       ELSE Goto(p, "off") /\ UNCHANGED lockdir
    /\ UNCHANGED <<streak, cooled>>

\* STALE_AFTER without a touch: only a living owner's heartbeat prevents it (fault:
\* the age counts from when the lock was taken).
AgesAnyway(j) == TRUE
OwnerSilent(j) == \A p \in Pods : JobOf[p] = j => guard[p] \notin Holding
LockAges(j) ==
    /\ lockdir[j] = "fresh"
    /\ OwnerSilent(j)
    /\ lockdir' = [lockdir EXCEPT ![j] = "stale"]
    /\ UNCHANGED <<guard, streak, cooled>>

\* RETRY_AFTER has passed: the breaker is half open.
Cools(j) ==
    /\ ~cooled[j]
    /\ cooled' = [cooled EXCEPT ![j] = TRUE]
    /\ UNCHANGED <<lockdir, guard, streak>>

\* The breaker lets a run through while the streak is short, and one trial run after
\* the cooldown.
Admits(j) == streak[j] < MaxFailures \/ cooled[j]

StartChild(p) ==
    /\ At(p, "check")
    /\ Admits(JobOf[p])
    /\ Goto(p, "child")
    /\ UNCHANGED <<lockdir, streak, cooled>>

Refuse(p) ==
    /\ At(p, "check")
    /\ ~Admits(JobOf[p])
    /\ Goto(p, "cleanup")
    /\ UNCHANGED <<lockdir, streak, cooled>>

\* The child has exited; EXIT_SKIPPED leaves no trace.
Counted(status) == status # "skipped"
StoreState(p, status) ==
    /\ At(p, "child")
    /\ Goto(p, "cleanup")
    /\ LET j == JobOf[p] IN
         IF ~Counted(status) THEN UNCHANGED <<streak, cooled>>
         ELSE IF status = "ok"
         THEN /\ streak' = [streak EXCEPT ![j] = 0]
              /\ cooled' = [cooled EXCEPT ![j] = FALSE]
         ELSE /\ streak' = [streak EXCEPT ![j] = IF @ < MaxFailures THEN @ + 1 ELSE @]
              /\ cooled' = [cooled EXCEPT ![j] = FALSE]
    /\ UNCHANGED lockdir

\* The exit trap hands the lock back; so does a signal, once the child has stopped.
Release(p) ==
    /\ At(p, "cleanup")
    /\ SetLock(p, "free")
    /\ Goto(p, "off")
    /\ UNCHANGED <<streak, cooled>>

Terminate(p) ==
    /\ guard[p] \in Holding \ {"cleanup"}
    /\ Goto(p, "cleanup")
    /\ UNCHANGED <<lockdir, streak, cooled>>

\* SIGKILL, an eviction, a lost node: the lock stays behind.
Vanish(p) ==
    /\ guard[p] # "off"
    /\ Goto(p, "off")
    /\ UNCHANGED <<lockdir, streak, cooled>>
=============================================================================
