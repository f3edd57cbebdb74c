---------------------------- MODULE DigestPublish ----------------------------
(***************************************************************************)
(* Digest generation and publication (proxy/digest_publish.py and the      *)
(* edition half of proxy/backend/digests.py), with the deployment's        *)
(* migration that retires old editions.                                    *)
(*                                                                         *)
(* One publisher holds the advisory lock "digest-publish".  A pass drafts  *)
(* and stores editions of due periods, then publishes every retryable one  *)
(* on Meta-Wiki.  The capture of creations, the migration, other users of  *)
(* the wiki and the clock move between any two of its steps.               *)
(*                                                                         *)
(* One cadence is modelled, the daily one: period d is day d.  An edition  *)
(* is reduced to how many creations it lists, a wiki page to whether it    *)
(* carries the edition's marker.                                           *)
(***************************************************************************)
EXTENDS Integers, FiniteSets

CONSTANTS
    MaxDay,         \* bound: UTC days
    MaxTools,       \* bound: creations dated on one day
    BackfillDays,   \* DIGEST_BACKFILL_DAYS
    MaxEditions,    \* DEFAULT_MAX_EDITIONS_PER_RUN
    Malformed,      \* periods create_edition always fails on
    Rejected,       \* periods whose text the wiki's spam blacklist refuses
    Squattable,     \* periods whose page another user may create
    MaxFailures     \* bound: kills and transient errors

Days == 1..MaxDay

ASSUME PublishAssumption ==
    /\ {MaxDay, MaxTools, BackfillDays, MaxEditions} \subseteq Nat \ {0}
    /\ {Malformed, Rejected, Squattable} \subseteq SUBSET Days
    /\ MaxFailures \in Nat

VARIABLES
    day,            \* today
    captured,       \* tool_activity_events: creations of each day captured so far
    status,         \* digest_editions.status, "none" without a row
    tools,          \* digest_edition_tools: creations the edition lists
    published,      \* digest_editions.published_at, 0 for NULL
    page,           \* Meta-Wiki: the edition's subpage
    run,            \* the publisher's local state
    failures

editionVars == <<status, tools, published>>
vars == <<day, captured, editionVars, page, run, failures>>

Retryable == {"validated", "publication_failed"}
Statuses == Retryable \cup {"none", "published", "publication_blocked", "out_of_scope"}
Pages == {"missing", "ours", "foreign"}
Phases == {"idle", "generate", "store", "publish", "edit", "record"}

First(S) == CHOOSE d \in S : \A e \in S : d <= e

Idle == [pc |-> "idle", todo |-> {}, tools |-> 0, outcome |-> "none"]

Init ==
    /\ day = 1
    /\ captured = [d \in Days |-> 0]
    /\ status = [d \in Days |-> "none"]
    /\ tools = [d \in Days |-> 0]
    /\ published = [d \in Days |-> 0]
    /\ page = [d \in Days |-> "missing"]
    /\ run = Idle
    /\ failures = 0

(***************************************************************************)
(* What happens around the publisher                                       *)
(***************************************************************************)
\* The pass starts at 06:15 and is killed after half an hour: none crosses
\* midnight.
NextDay ==
    /\ day < MaxDay
    /\ run.pc = "idle"
    /\ day' = day + 1
    /\ UNCHANGED <<captured, editionVars, page, run, failures>>

\* catalog-sync captures a creation of today or, late, of an earlier day.
Capture(d) ==
    /\ d <= day
    /\ captured[d] < MaxTools
    /\ captured' = [captured EXCEPT ![d] = captured[d] + 1]
    /\ UNCHANGED <<day, editionVars, page, run, failures>>

StrangerCreatesPage(d) ==
    /\ d \in Squattable
    /\ page[d] = "missing"
    /\ page' = [page EXCEPT ![d] = "foreign"]
    /\ UNCHANGED <<day, captured, editionVars, run, failures>>

\* migrate._retire_out_of_scope_digest_editions, at a deployment: one transaction
\* over the validated editions without publication state.
OutOfScope == {d \in Days : /\ status[d] = "validated"
                            /\ published[d] = 0
                            /\ d + 1 <= day - BackfillDays}
Retire ==
    /\ OutOfScope # {}
    /\ status' = [d \in Days |-> IF d \in OutOfScope THEN "out_of_scope" ELSE status[d]]
    /\ UNCHANGED <<day, captured, tools, published, page, run, failures>>

(***************************************************************************)
(* Generation                                                              *)
(***************************************************************************)
\* due_periods: not empty, without an edition, closed, inside the horizon (fault:
\* the period that is still open is due as well).
Wanted(d) == captured[d] > 0 /\ status[d] = "none"
DueEarly(d) == Wanted(d) /\ d <= day /\ d + 1 >= day - BackfillDays
Due(d) == Wanted(d) /\ d < day /\ d + 1 >= day - BackfillDays
DuePeriods == {d \in Days : Due(d)}

\* generate_due_editions: the oldest of them, within the budget of one pass.
Budgeted == {d \in DuePeriods : Cardinality({e \in DuePeriods : e < d}) < MaxEditions}

StartPass ==
    /\ run.pc = "idle"
    /\ run' = [Idle EXCEPT !.pc = "generate", !.todo = Budgeted]
    /\ UNCHANGED <<day, captured, editionVars, page, failures>>

Generating(d) == run.pc = "generate" /\ run.todo # {} /\ d = First(run.todo)

\* _draft_edition: the facts are read before the model is called.
Draft(d) ==
    /\ Generating(d)
    /\ d \notin Malformed
    /\ run' = [run EXCEPT !.pc = "store", !.tools = captured[d]]
    /\ UNCHANGED <<day, captured, editionVars, page, failures>>

\* One malformed period is counted as failed and skipped.
SkipsPeriod == run.todo \ {First(run.todo)}
DraftFails(d) ==
    /\ Generating(d)
    /\ d \in Malformed
    /\ run' = [run EXCEPT !.todo = SkipsPeriod]
    /\ UNCHANGED <<day, captured, editionVars, page, failures>>

\* create_edition's second transaction; it keeps an edition that is there by now.
StoreEdition ==
    /\ run.pc = "store"
    /\ LET d == First(run.todo) IN
         /\ status' = [status EXCEPT ![d] = IF @ = "none" THEN "validated" ELSE @]
         /\ tools' = [tools EXCEPT ![d] = IF status[d] = "none" THEN run.tools ELSE @]
    /\ run' = [Idle EXCEPT !.pc = "generate", !.todo = run.todo \ {First(run.todo)}]
    /\ UNCHANGED <<day, captured, published, page, failures>>

(***************************************************************************)
(* Publication                                                             *)
(***************************************************************************)
\* publish_pending: the retryable editions, oldest first (fault: all of them).
AllEditions == {d \in Days : status[d] # "none"}
Pending == {d \in Days : status[d] \in Retryable}

ListPending ==
    /\ run.pc = "generate"
    /\ run.todo = {}
    /\ run' = [Idle EXCEPT !.pc = "publish", !.todo = Pending]
    /\ UNCHANGED <<day, captured, editionVars, page, failures>>

Publishing(d) == run.pc = "publish" /\ run.todo # {} /\ d = First(run.todo)

\* What publish_edition makes of the page it finds (fault: the marker is not
\* looked for).
IgnoresMarker(p) == IF p = "missing" THEN "edit" ELSE "publication_failed"
Judgement(p) ==
    CASE p = "missing" -> "edit"
      [] p = "ours"    -> "published"
      [] p = "foreign" -> "publication_failed"

\* publish_edition has nothing to do for an edition that is published already.
ReadPage(d) ==
    /\ Publishing(d)
    /\ run' = IF status[d] = "published"
              THEN [run EXCEPT !.todo = run.todo \ {d}]
              ELSE IF Judgement(page[d]) = "edit"
              THEN [run EXCEPT !.pc = "edit"]
              ELSE [run EXCEPT !.pc = "record", !.outcome = Judgement(page[d])]
    /\ UNCHANGED <<day, captured, editionVars, page, failures>>

\* edit_page(create_only=True) (fault: an edit that replaces what it finds).
EditReplaces(d) == d \notin Rejected
EditSucceeds(d) == d \notin Rejected /\ page[d] = "missing"

EditPage ==
    /\ run.pc = "edit"
    /\ LET d == First(run.todo) IN
         IF EditSucceeds(d)
         THEN /\ page' = [page EXCEPT ![d] = "ours"]
              /\ run' = [run EXCEPT !.pc = "record", !.outcome = "published"]
         ELSE /\ run' = [run EXCEPT !.pc = "record",
                           !.outcome = IF page[d] = "missing" THEN "publication_blocked"
                                       ELSE "publication_failed"]
              /\ UNCHANGED page
    /\ UNCHANGED <<day, captured, editionVars, failures>>

\* A transient error of the read or the edit, which may have reached the wiki.
WikiFails ==
    /\ run.pc \in {"publish", "edit"}
    /\ run.todo # {}
    /\ failures < MaxFailures
    /\ failures' = failures + 1
    /\ run' = [run EXCEPT !.pc = "record", !.outcome = "publication_failed"]
    /\ LET d == First(run.todo) IN
         \/ UNCHANGED page
         \/ /\ run.pc = "edit"
            /\ EditSucceeds(d)
            /\ page' = [page EXCEPT ![d] = "ours"]
    /\ UNCHANGED <<day, captured, editionVars>>

\* publish_edition's last transaction: it does not look at the stored status.
Record ==
    /\ run.pc = "record"
    /\ LET d == First(run.todo) IN
         /\ status' = [status EXCEPT ![d] = run.outcome]
         /\ published' = IF run.outcome = "published"
                         THEN [published EXCEPT ![d] = day] ELSE published
    /\ run' = [Idle EXCEPT !.pc = "publish", !.todo = run.todo \ {First(run.todo)}]
    /\ UNCHANGED <<day, captured, tools, page, failures>>

EndPass ==
    /\ run.pc = "publish"
    /\ run.todo = {}
    /\ run' = Idle
    /\ UNCHANGED <<day, captured, editionVars, page, failures>>

\* The job is killed: what it had not stored is lost, the wiki keeps what it got.
Kill ==
    /\ run.pc # "idle"
    /\ failures < MaxFailures
    /\ failures' = failures + 1
    /\ run' = Idle
    /\ UNCHANGED <<day, captured, editionVars, page>>

(***************************************************************************)
(* The specification                                                       *)
(***************************************************************************)
Pass ==
    \/ StartPass \/ StoreEdition \/ ListPending \/ EditPage \/ Record \/ EndPass
    \/ \E d \in Days : Draft(d) \/ DraftFails(d) \/ ReadPage(d)

Next ==
    \/ Pass \/ WikiFails \/ Kill \/ NextDay \/ Retire
    \/ \E d \in Days : Capture(d) \/ StrangerCreatesPage(d)

Spec == Init /\ [][Next]_vars

\* The scheduler starts a pass every day and one that is not killed goes on.
FairSpec == Spec /\ WF_vars(Pass)

(***************************************************************************)
(* Properties                                                              *)
(***************************************************************************)
TypeOK ==
    /\ day \in Days
    /\ captured \in [Days -> 0..MaxTools]
    /\ status \in [Days -> Statuses]
    /\ tools \in [Days -> 0..MaxTools]
    /\ published \in [Days -> Days \cup {0}]
    /\ page \in [Days -> Pages]
    /\ run \in [pc : Phases, todo : SUBSET Days, tools : 0..MaxTools,
                outcome : Statuses]
    /\ failures \in 0..MaxFailures

\* docs/DIGESTS.md: "an existing page without that marker is a collision and is
\* never overwritten", even when it appears between the read and the edit; and an
\* edition only counts as published when the wiki carries it.
ForeignPageKept ==
    [][\A d \in Days : page[d] = "foreign" => page'[d] = "foreign"]_vars
PublishedIsOurs == \A d \in Days : status[d] = "published" => page[d] = "ours"

\* What a pass read stays true until it acts on it: the periods it still has to
\* generate have no edition yet, those it still has to publish are closed and
\* unpublished, and it only records as published what the wiki carries.
EditionsUpToDate ==
    \A d \in Days : /\ published[d] # 0 <=> status[d] = "published"
                    /\ status[d] # "none" => d < day
WorkUpToDate ==
    /\ run.pc \in {"store", "edit", "record"} => run.todo # {}
    /\ run.pc \in {"generate", "store"} =>
         \A d \in run.todo : status[d] = "none" /\ d < day
    /\ run.pc \in {"publish", "edit", "record"} =>
         \A d \in run.todo : status[d] \notin {"none", "published"}
    /\ run.pc = "record" =>
         /\ run.outcome \notin {"none", "out_of_scope"}
         /\ run.outcome = "published" => page[First(run.todo)] = "ours"
PassUpToDate == EditionsUpToDate /\ WorkUpToDate
PassSound == PassUpToDate /\ PublishedIsOurs

\* Publication keeps the promise the outbox relies on, through lost answers, kills
\* and repeated passes.
Editions == INSTANCE DigestEditions WITH MaxDay <- MaxDay, day <- day, published <- published
KeepsPromise == Editions!EditionsSpec

\* generate_due_editions: "A single malformed period must not suppress later
\* recoverable ones".  A period does not stay due for ever.
GeneratedInTime ==
    \A d \in Days \ Malformed : Due(d) ~> ~Due(d)

\* docs/DIGESTS.md: "A hidden edition marker makes retries idempotent".  A stored
\* edition is published, refused for its content or retired, unless somebody else
\* has the page: not even a lost answer makes its own page a collision.
PublicationSettles ==
    \A d \in Days :
      status[d] \in Retryable ~> status[d] \notin Retryable \/ page[d] = "foreign"

\* What one day brings is drafted, published and settled in the days that follow.
EditionsSettle == GeneratedInTime /\ PublicationSettles
=============================================================================
