---------------------------- MODULE Userscripts ----------------------------
(***************************************************************************)
(* The user-script lane of one wiki (userscript_sweep.py, both of them):   *)
(* sweeps name every script page and read those whose stored revision or   *)
(* position moved, over as many runs as it takes; watches follow recent    *)
(* changes; each run then dates the pages, projects the directory and      *)
(* brings the catalogue in step.  Every disjunct of CensusNext is one             *)
(* transaction of the job, which runs under its lock, or something that     *)
(* happens outside.                                                         *)
(***************************************************************************)
EXTENDS ScriptDirectory

CONSTANTS
    First,          \* the pages that exist at the start, oldest first
    Ops,            \* bound: creations, edits and deletions
    Troubles,       \* bound: kills, refusals for lag and failing replicas
    Limit,          \* USERSCRIPT_LIMIT: titles one sweep run reads
    Chunk,          \* INGEST_CHUNK
    Cap,            \* how many pages the search index names
    WatchLimit, WatchWindows,
    Unreadable      \* whether a read may fail for a reason that is not lag

ASSUME ScriptsAssumption ==
    /\ First \in Seq(Pages) /\ IsInjective(First)
    /\ {Ops, Troubles} \subseteq Nat
    /\ {Limit, Chunk, Cap, WatchLimit, WatchWindows} \subseteq Nat \ {0}
    /\ Unreadable \in BOOLEAN

VARIABLES
    world,          \* the wiki's pages: [Pages -> [there, id, rev, body]]
    feed,           \* recent changes: pages created or edited, oldest first
    stored,         \* user_script_page, with user_script_import
    census,         \* user_script_census_state
    directory,      \* user_script_directory_entry
    catalog,        \* canonical_tool_cache, the rows of this lane
    credentials,    \* whether the host has replica.my.cnf
    job,            \* where the run stands
    ops, troubles
wiki == <<world, feed, ops>>
rowsOf == <<stored, census, directory, catalog>>
censusVars == <<world, feed, stored, census, directory, catalog, credentials, job, ops, troubles>>

NoRow == [rev |-> 0, body |-> CHOOSE b \in Bodies : TRUE, rank |-> 0, born |-> 0, gone |-> FALSE]
Idle == [at |-> "idle", mode |-> "none", todo |-> <<>>, names |-> {}, complete |-> FALSE,
         source |-> "", finished |-> FALSE, next |-> 0, windows |-> 0, read |-> 0]

CensusInit ==
    /\ \E bodies \in [ToSet(First) -> Bodies] :
         world = [p \in Pages |->
                    IF p \in ToSet(First)
                    THEN [there |-> TRUE, id |-> CHOOSE i \in DOMAIN First : First[i] = p,
                          rev |-> 1, body |-> bodies[p]]
                    ELSE [there |-> FALSE, id |-> 0, rev |-> 0, body |-> NoRow.body]]
    /\ feed = <<>>
    /\ stored = [p \in Pages |-> NoRow]
    /\ census = [swept |-> FALSE, cursor |-> 0, changes |-> 0, source |-> ""]
    /\ directory = <<>>
    /\ catalog = [n \in Names |-> None]
    /\ credentials \in BOOLEAN
    /\ job = Idle
    /\ ops = 0 /\ troubles = 0

---------------------------------------------------------------------------
(* The wiki.                                                                *)

Save(p, b) ==
    /\ ops < Ops /\ (world[p].there => world[p].body # b)
    /\ ops' = ops + 1
    /\ world' = [world EXCEPT ![p] =
                    [there |-> TRUE, rev |-> @.rev + 1, body |-> b,
                     id |-> IF @.there THEN @.id ELSE Len(First) + 1 + ops]]
    /\ feed' = Append(feed, p)
    /\ UNCHANGED <<rowsOf, credentials, job, troubles>>

\* Not while a sweep is under way: a deletion then moves every later page up a place.
Delete(p) ==
    /\ ops < Ops /\ world[p].there /\ census.cursor = 0 /\ job.mode # "sweep"
    /\ ops' = ops + 1
    /\ world' = [world EXCEPT ![p].there = FALSE]
    /\ UNCHANGED <<feed, rowsOf, credentials, job, troubles>>

\* replica.my.cnf arrives on the host.
Equip ==
    /\ ~credentials /\ job.at = "idle"
    /\ credentials' = TRUE
    /\ UNCHANGED <<wiki, rowsOf, job, troubles>>

---------------------------------------------------------------------------
(* userscript_enumeration: naming the pages.                                *)

\* The entries of s at the places I; a set of numbers has a k-th.
Kth(I, k) == CHOOSE i \in I : Cardinality({j \in I : j <= i}) = k
Select(s, I) == [k \in 1 .. Cardinality(I) |-> s[Kth(I, k)]]

Ids == {world[p].id : p \in {q \in Pages : world[q].there}}
Listed ==
    [k \in 1 .. Cardinality(Ids) |-> CHOOSE p \in Pages : world[p].there /\ world[p].id = Kth(Ids, k)]

\* The replica names them all, in the order of their ids.
ByReplica == [names |-> Listed, complete |-> TRUE, source |-> "replica",
              revisions |-> [p \in {q \in Pages : world[q].there} |-> world[p].rev]]

\* The search index names scripts, then stylesheets, and neither past its cap.
BySearch(source) ==
    LET of(css) == Select(Listed, {i \in DOMAIN Listed : (Listed[i] \in Css) = css})
        found(css) == IF Len(of(css)) > Cap THEN SubSeq(of(css), 1, Cap) ELSE of(css)
    IN  [names |-> found(FALSE) \o found(TRUE),
         complete |-> \A css \in BOOLEAN : Len(of(css)) <= Cap,
         source |-> source, revisions |-> <<>>]

Superseded(source) == source \in {"", "search"} /\ credentials

---------------------------------------------------------------------------
(* ingest: read the named pages a chunk at a time and write those that      *)
(* changed.                                                                 *)

\* _settled: the stored row is the one this run would write; rank 0 keeps any rank.
Settled(p, rank, rev) ==
    /\ stored[p].rev = rev /\ rev > 0 /\ ~stored[p].gone
    /\ rank = 0 \/ stored[p].rank = rank

NextRank(rows) == 1 + Max({0} \cup {rows[p].rank : p \in {q \in Pages : rows[q].rev > 0}})

\* store_page
StorePage(rows, p, rank) ==
    [rows EXCEPT ![p] =
        [rev |-> world[p].rev, body |-> world[p].body, gone |-> FALSE, born |-> @.born,
         rank |-> IF rank > 0 THEN rank ELSE IF @.rev = 0 THEN NextRank(rows) ELSE @.rank]]

\* The chunk's titles that were answered and are not settled.
Ingested(rows, chunk) ==
    LET changed(item) == world[item.page].there /\ ~Settled(item.page, item.rank, world[item.page].rev)
        after[i \in 0 .. Len(chunk)] ==
            IF i = 0 THEN rows
            ELSE IF changed(chunk[i]) THEN StorePage(after[i - 1], chunk[i].page, chunk[i].rank)
            ELSE after[i - 1]
    IN  after[Len(chunk)]

ChunkOf(todo) == SubSeq(todo, 1, IF Len(todo) < Chunk THEN Len(todo) ELSE Chunk)
After(todo) == SubSeq(todo, Len(ChunkOf(todo)) + 1, Len(todo))

IngestChunk ==
    /\ job.at = "ingest" /\ job.todo # <<>>
    /\ LET chunk == ChunkOf(job.todo)
       IN  \E lost \in IF Unreadable THEN SUBSET DOMAIN chunk ELSE {{}} :
             stored' = Ingested(stored, Select(chunk, DOMAIN chunk \ lost))
    /\ job' = [job EXCEPT !.todo = After(@)]
    /\ UNCHANGED <<wiki, census, directory, catalog, credentials, troubles>>

\* The wiki refuses a batch of the chunk for replication lag: what was read before it is kept.
IngestLagged ==
    /\ job.at = "ingest" /\ job.todo # <<>> /\ troubles < Troubles
    /\ job.mode = "sweep" => ~census.swept \/ census.cursor > 0
    /\ troubles' = troubles + 1
    /\ \E n \in 0 .. Len(ChunkOf(job.todo)) - 1 : stored' = Ingested(stored, SubSeq(job.todo, 1, n))
    /\ job' = [job EXCEPT !.todo = <<>>, !.at = "lagged"]
    /\ UNCHANGED <<wiki, census, directory, catalog, credentials>>

---------------------------------------------------------------------------
(* sweep                                                                    *)

SweepDue == ~census.swept \/ census.cursor > 0 \/ Superseded(census.source)

\* The watch that follows needs the changes made from here on.
SeedEachRun == Len(feed)
SeedChanges == IF census.cursor = 0 THEN Len(feed) ELSE census.changes
StartSweep ==
    /\ job.at = "idle" /\ SweepDue
    /\ census' = [census EXCEPT !.changes = SeedChanges]
    /\ job' = [Idle EXCEPT !.at = "enumerate", !.mode = "sweep"]
    /\ UNCHANGED <<wiki, stored, directory, catalog, credentials, troubles>>

\* _resume_from: a position means nothing in a list that is not whole or is shorter.
ResumeFrom(found) == IF found.complete /\ census.cursor < Len(found.names) THEN census.cursor ELSE 0

\* The run's titles that are not settled by what the enumeration says of their revisions.
Window(found) ==
    LET start == ResumeFrom(found)
        end == IF Len(found.names) - start < Limit THEN Len(found.names) ELSE start + Limit
        known(i) == found.names[i] \in DOMAIN found.revisions
                        /\ Settled(found.names[i], i, found.revisions[found.names[i]])
    IN  [todo |-> Select([i \in DOMAIN found.names |-> [page |-> found.names[i], rank |-> i]],
                         {i \in start + 1 .. end : ~known(i)}),
         end |-> end]

Enumerated(found) ==
    LET window == Window(found)
    IN  job' = [job EXCEPT !.at = "ingest", !.todo = window.todo, !.names = ToSet(found.names),
                           !.complete = found.complete, !.source = found.source,
                           !.finished = window.end = Len(found.names),
                           !.next = IF window.end = Len(found.names) THEN 0 ELSE window.end]

Enumerate ==
    /\ job.at = "enumerate"
    /\ Enumerated(IF credentials THEN ByReplica ELSE BySearch("search"))
    /\ UNCHANGED <<wiki, rowsOf, credentials, troubles>>

\* The replica does not answer: the search road, recorded as a fallback.
EnumerateFallback ==
    /\ job.at = "enumerate" /\ credentials /\ troubles < Troubles
    /\ troubles' = troubles + 1
    /\ Enumerated(BySearch("search-fallback"))
    /\ UNCHANGED <<wiki, rowsOf, credentials>>

\* _mark_missing, and the state row: a run cut short keeps its place.
MarkMissing(whole) ==
    [p \in Pages |-> IF whole /\ stored[p].rev > 0 /\ p \notin job.names
                     THEN [stored[p] EXCEPT !.gone = TRUE] ELSE stored[p]]
Whole(lagged) == job.complete /\ job.finished /\ ~lagged

FinishPass(lagged) ==
    /\ stored' = MarkMissing(Whole(lagged))
    /\ census' = [census EXCEPT !.swept = @ \/ (job.finished /\ ~lagged),
                                !.source = job.source,
                                !.cursor = IF lagged THEN @ ELSE job.next]
    /\ job' = [Idle EXCEPT !.at = "stamp"]
    /\ UNCHANGED <<wiki, directory, catalog, credentials, troubles>>
FinishSweep == job.at = "ingest" /\ job.mode = "sweep" /\ job.todo = <<>> /\ FinishPass(FALSE)
FinishLagged == job.at = "lagged" /\ job.mode = "sweep" /\ FinishPass(TRUE)

---------------------------------------------------------------------------
(* watch                                                                    *)

StartWatch ==
    /\ job.at = "idle" /\ ~SweepDue
    /\ job' = [Idle EXCEPT !.at = "window", !.mode = "watch", !.read = census.changes]
    /\ UNCHANGED <<wiki, rowsOf, credentials, troubles>>

\* read_changes: each page of a window once, in the order reported.
Reported(window) == Select(window, {i \in DOMAIN window : \A j \in 1 .. i - 1 : window[j] # window[i]})

ReadWindow ==
    /\ job.at = "window" /\ job.windows < WatchWindows /\ job.read < Len(feed)
    /\ LET end == IF Len(feed) - job.read < WatchLimit THEN Len(feed) ELSE job.read + WatchLimit
           pages == Reported(SubSeq(feed, job.read + 1, end))
       IN  job' = [job EXCEPT !.at = "ingest", !.windows = @ + 1, !.next = end,
                              !.todo = [i \in DOMAIN pages |-> [page |-> pages[i], rank |-> 0]]]
    /\ UNCHANGED <<wiki, rowsOf, credentials, troubles>>

\* The run's cursor passes a window that was read.
NextWindow ==
    /\ job.at = "ingest" /\ job.mode = "watch" /\ job.todo = <<>>
    /\ job' = [job EXCEPT !.at = "window", !.read = job.next]
    /\ UNCHANGED <<wiki, rowsOf, credentials, troubles>>

\* Nothing follows, the windows are spent, or the wiki asked to stop.
FinishBehind ==
    /\ job.mode = "watch"
    /\ \/ job.at = "window" /\ (job.windows = WatchWindows \/ job.read = Len(feed))
       \/ job.at = "lagged"
    /\ census' = [census EXCEPT !.changes = IF job.read = Len(feed) THEN job.read ELSE @]
    /\ job' = [Idle EXCEPT !.at = "stamp"]
    /\ UNCHANGED <<wiki, stored, directory, catalog, credentials, troubles>>
FinishWatch ==
    /\ job.mode = "watch"
    /\ \/ job.at = "window" /\ (job.windows = WatchWindows \/ job.read = Len(feed))
       \/ job.at = "lagged"
    /\ census' = [census EXCEPT !.changes = job.read]
    /\ job' = [Idle EXCEPT !.at = "stamp"]
    /\ UNCHANGED <<wiki, stored, directory, catalog, credentials, troubles>>

---------------------------------------------------------------------------
(* The rest of a run: dates, the directory, the catalogue.                  *)

\* userscript_creation_dates.backfill: a row is dated once, by a replica that has the page.
Dated == [p \in Pages |-> IF stored[p].rev > 0 /\ stored[p].born = 0 /\ world[p].there
                          THEN [stored[p] EXCEPT !.born = world[p].id] ELSE stored[p]]
Stamp ==
    /\ job.at = "stamp"
    /\ stored' = IF credentials THEN Dated ELSE stored
    /\ job' = [job EXCEPT !.at = "project"]
    /\ UNCHANGED <<wiki, census, directory, catalog, credentials, troubles>>

\* project
Project ==
    /\ job.at = "project"
    /\ directory' \in {Directory(stored)}
    /\ job' = [job EXCEPT !.at = "synchronize"]
    /\ UNCHANGED <<wiki, stored, census, catalog, credentials, troubles>>

\* synchronize
Synchronize ==
    /\ job.at = "synchronize"
    /\ catalog' \in {WriteRecords(catalog, directory)}
    /\ job' = Idle
    /\ UNCHANGED <<wiki, stored, census, directory, credentials, troubles>>

\* The process is killed, or a request raises: what was committed stays.
Stop ==
    /\ job.at # "idle" /\ troubles < Troubles
    /\ troubles' = troubles + 1
    /\ job' = Idle
    /\ UNCHANGED <<wiki, rowsOf, credentials>>

---------------------------------------------------------------------------
Run ==
    \/ StartSweep \/ Enumerate \/ EnumerateFallback
    \/ IngestChunk \/ IngestLagged \/ FinishSweep \/ FinishLagged
    \/ StartWatch \/ ReadWindow \/ NextWindow \/ FinishWatch
    \/ Stamp \/ Project \/ Synchronize

CensusNext ==
    \/ \E p \in Pages, b \in Bodies : Save(p, b)
    \/ \E p \in Pages : Delete(p)
    \/ Equip \/ Stop
    \/ Run

\* The job is started again and again and its process is scheduled.  A step of the run is
\* always possible and never a stutter, so this is WF_censusVars(Run).
Fairness == []<><<Run>>_censusVars

CensusSpec == CensusInit /\ [][CensusNext]_censusVars /\ Fairness

---------------------------------------------------------------------------
(* Properties.                                                              *)

Roads == {"", "search", "search-fallback", "replica"}
Stages == {"idle", "enumerate", "ingest", "lagged", "window", "stamp", "project", "synchronize"}
Places == 0 .. Cardinality(Pages)

CensusTypes ==
    /\ world \in [Pages -> [there : BOOLEAN, id : Nat, rev : Nat, body : Bodies]]
    /\ feed \in Seq(Pages) /\ ops \in Nat /\ troubles \in Nat /\ credentials \in BOOLEAN
    /\ stored \in [Pages -> Rows]
    /\ census \in [swept : BOOLEAN, cursor : Places, changes : 0 .. Len(feed), source : Roads]
    /\ \A i \in DOMAIN directory : i \in Nat /\ directory[i].tier \in {"active", "archive"}
    /\ \A n \in Names : catalog[n] = None \/ Name[catalog[n].page] = n
    /\ job \in [at : Stages, mode : {"none", "sweep", "watch"}, todo : Seq([page : Pages, rank : Nat]),
                names : SUBSET Pages, complete : BOOLEAN, source : Roads, finished : BOOLEAN,
                next : Nat, windows : Nat, read : 0 .. Len(feed)]
    /\ job.mode = "sweep" => job.next \in Places
    /\ job.mode = "watch" => job.next <= Len(feed)

Current(p) == stored[p].rev = world[p].rev /\ ~stored[p].gone
Unread(from) == ToSet(SubSeq(feed, from + 1, Len(feed)))

\* A page of a wiki that is only watched is stored as it is, or among the changes that the
\* next watch reads: no edit falls between a sweep of several runs and the watch after it.
NothingMissed ==
    ~SweepDue /\ job.mode # "sweep" /\ census.source = "replica" =>
        \A p \in Pages : world[p].there => Current(p) \/ p \in Unread(census.changes)

\* A page is called gone only while it is, or until the pass that is due reads that it is back.
TombstonesTrue ==
    ~SweepDue /\ job.mode # "sweep" =>
        \A p \in Pages : stored[p].gone /\ world[p].there => p \in Unread(census.changes)

\* What a census has stored of a wiki is that wiki, page for page.
CensusSound == CensusTypes /\ NothingMissed /\ TombstonesTrue

\* Two entries of a directory about to be written are two scripts; each page of an entry is like
\* the entry itself, or like a page that bears the entry's file name and no likeness to it, and
\* not only like another of its pages; and none is older than the entry.
ScriptsDistinct ==
    job.at = "project" =>
    LET home == Collapse(stored)
    IN  /\ \A p, q \in Originals(home) : p # q => ~Near(stored[p].body, stored[q].body)
        /\ \A p \in DOMAIN home :
             /\ home[p] \in Originals(home)
             /\ home[p] = p \/ Earlier(stored, home[p], p)
             /\ \E q \in DOMAIN home :
                  /\ home[q] = home[p] /\ Basename[q] = Basename[home[p]]
                  /\ q = home[p] \/ ~Near(stored[q].body, stored[home[p]].body)
                  /\ Near(stored[q].body, stored[p].body)

\* A page that enough others load is never filed under a script it only shares a name with.
LoadedStands ==
    job.at = "project" =>
    LET home == Collapse(stored)
    IN  \A p \in DOMAIN home :
            Cardinality(Demand(stored, p)) >= IndependentDemand =>
                Near(stored[home[p]].body, stored[p].body)

\* What is made of the stored pages keeps scripts apart that are not copies of each other.
DirectorySound == ScriptsDistinct /\ LoadedStands

\* Once edits and troubles end, the pages the replica named are stored as they are, and the
\* directory and the catalogue say what the stored pages amount to.
CaughtUp == <>[](census.source = "replica" => \A p \in Pages : world[p].there => Current(p))
Catalogued ==
    <>[](job.at = "idle" =>
            /\ directory = Directory(stored)
            /\ \A n \in Names : catalog[n] = IF n \in DOMAIN Wanted(directory)
                                             THEN Wanted(directory)[n] ELSE None)
SettlesOnWiki == CaughtUp /\ Catalogued
=============================================================================
