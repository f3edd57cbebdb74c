------------------------------ MODULE Gadgets ------------------------------
(***************************************************************************)
(* The gadget lane: the roster of wikis (wiki_registry.py), the census     *)
(* that transcribes each wiki's gadget definitions into an inventory and   *)
(* the inventory into catalogue records (gadget_census.py,                 *)
(* gadget_inventory.py, gadget_creation_dates.py, wiki_edit_dates.py,      *)
(* gadget_toolinfo.py), and the job that reads the gadgets' code           *)
(* (gadget_source.py).  A gadget is a line of a definition page; gadgets   *)
(* whose names the database cannot tell apart share a key, and a row of    *)
(* the inventory is a key's; those that differ in case alone also share a  *)
(* spelling, by which their messages are matched.  Pages do not vanish and *)
(* no text comes back; more than MAX_GADGETS lines are left out.           *)
(***************************************************************************)
EXTENDS LaneSchedule

CONSTANTS
    Gadgets,        \* numbers, in the order of the definition pages' lines
    Key,            \* [Gadgets -> storage_key of the name]
    Spelling,       \* [Gadgets -> casefolded name]: as fine as the key or finer
    Home,           \* [Gadgets -> wiki]
    Files,          \* code pages
    Born, Author,   \* [Files -> first revision], and who made it (None when suppressed)
    Declarations,   \* what a line may say: [hidden : BOOLEAN, files : SUBSET Files]; one that
                    \* names no page of code declares nothing, and is None
    Taken,          \* keys whose catalogue name belongs to another source
    Fallback,       \* FALLBACK_WIKIS
    SourceLimit,    \* GADGET_SOURCE_LIMIT
    Steady,         \* gadgets nobody edits
    Ops, Troubles,  \* bounds: edits; kills, failures and unanswered requests
    None

ASSUME GadgetsAssumption ==
    /\ Gadgets \subseteq Nat \ {0} /\ Steady \subseteq Gadgets
    /\ Home \in [Gadgets -> Wikis]
    /\ \A g, h \in Gadgets : Key[g] = Key[h] => Home[g] = Home[h]
    /\ \A g, h \in Gadgets : Spelling[g] = Spelling[h] => Key[g] = Key[h]
    /\ Born \in [Files -> Nat \ {0}] /\ \A e, f \in Files : Born[e] = Born[f] => e = f
    /\ \A d \in Declarations : d.files \subseteq Files /\ d.files # {}
    /\ ToSet(Fallback) \subseteq Wikis
    /\ SourceLimit \in Nat \ {0} /\ {Ops, Troubles} \subseteq Nat

Keys == {Key[g] : g \in Gadgets}
Spellings == {Spelling[g] : g \in Gadgets}
WikiOf(k) == Home[CHOOSE g \in Gadgets : Key[g] = k]
KeysOf(w) == {k \in Keys : WikiOf(k) = w}

VARIABLES
    line,           \* the wikis: [Gadgets -> a declaration or None]
    blank,          \* the wikis whose definition page holds nothing at all
    message,        \* [Spellings -> BOOLEAN]: whether the wiki describes the gadget
    page,           \* [Files -> the edit it stands at]
    roster,         \* the wikis meta_p lists
    registry,       \* wiki_projects: [Wikis -> {"absent", "live", "retired"}]
    lane,           \* wiki_lane_state
    rows,           \* wiki_gadgets: [Keys -> row]
    turn,           \* the keys whose code was fetched, longest ago first
    catalog,        \* canonical_tool_cache: [Keys -> record or None]
    census,         \* where the census run stands
    ops, troubles

world == <<line, blank, message, page, roster, ops>>
tables == <<registry, lane, rows, turn, catalog>>
gadgetVars == <<world, tables, census, troubles>>

NoGadget == [known |-> FALSE, gone |-> FALSE, gadget |-> 0, hidden |-> FALSE, files |-> {},
             described |-> FALSE, body |-> {}, born |-> 0, author |-> None, touched |-> 0]
Idle == [at |-> "idle", wiki |-> 0, queue |-> <<>>, changed |-> FALSE]

GadgetInit ==
    /\ line \in [Gadgets -> Declarations \cup {None}]
    /\ \A g \in Steady : line[g] # None
    /\ blank = {}
    /\ message = [n \in Spellings |-> TRUE]
    /\ page = [f \in Files |-> Born[f]]
    /\ roster = Wikis
    /\ registry = [w \in Wikis |-> "absent"]
    /\ lane = [w \in Wikis |-> NewRow]
    /\ rows = [k \in Keys |-> NoGadget]
    /\ turn = <<>>
    /\ catalog = [k \in Keys |-> None]
    /\ census = Idle
    /\ ops = 0 /\ troubles = 0

---------------------------------------------------------------------------
(* The wikis.                                                               *)

Stamp == 10 + ops       \* later than every first revision

\* definition_params: what the definition page declares.
DeclaredBy(w) == [g \in {g \in Gadgets : Home[g] = w /\ line[g] # None} |-> line[g]]

\* The last line taken from a page may leave it blank.
Declare(g, d) ==
    /\ ops < Ops /\ g \notin Steady /\ line[g] # d
    /\ ops' = ops + 1 /\ line' = [line EXCEPT ![g] = d]
    /\ \/ blank' = blank \ {Home[g]}
       \/ DOMAIN DeclaredBy(Home[g]) = {g} /\ d = None /\ blank' = blank \cup {Home[g]}
    /\ UNCHANGED <<message, page, roster, tables, census, troubles>>
Describe(n) ==
    /\ ops < Ops /\ \A g \in Steady : Spelling[g] # n
    /\ ops' = ops + 1 /\ message' = [message EXCEPT ![n] = ~@]
    /\ UNCHANGED <<line, blank, page, roster, tables, census, troubles>>
SavePage(f) ==
    /\ ops < Ops
    /\ ops' = ops + 1 /\ page' = [page EXCEPT ![f] = Stamp]
    /\ UNCHANGED <<line, blank, message, roster, tables, census, troubles>>
Relist(w) ==
    /\ ops < Ops
    /\ ops' = ops + 1
    /\ roster' = IF w \in roster THEN roster \ {w} ELSE roster \cup {w}
    /\ UNCHANGED <<line, blank, message, page, tables, census, troubles>>

---------------------------------------------------------------------------
(* wiki_registry.refresh: an empty roster is no evidence.                   *)

Live == {w \in Wikis : registry[w] = "live"}
Refreshed == [w \in Wikis |-> IF w \in roster THEN "live"
                              ELSE IF registry[w] = "live" THEN "retired" ELSE registry[w]]
Refresh ==
    /\ roster # {} /\ registry' = Refreshed
    /\ UNCHANGED <<world, lane, rows, turn, catalog, census, troubles>>

---------------------------------------------------------------------------
(* gadget_census.main: the queue, and one wiki after another while the      *)
(* budget lasts.                                                            *)

Queue(owed) ==
    IF Due(owed, Live) # <<>> THEN Due(owed, Live)
    ELSE IF Live # {} THEN <<>> ELSE Fallback

\* wiki_schedule.start, before anything of the wiki is read.
StartWiki(owed, queue) ==
    /\ lane' = [owed EXCEPT ![Head(queue)] = StateRow(@)]
    /\ census' = [Idle EXCEPT !.at = "ingest", !.wiki = Head(queue), !.queue = Tail(queue)]

StartRun ==
    /\ census.at = "idle"
    /\ LET owed == [w \in Wikis |-> Later(lane[w])]
       IN  \/ Queue(owed) # <<>> /\ StartWiki(owed, Queue(owed))
           \/ Queue(owed) = <<>> /\ lane' = owed /\ UNCHANGED census
    /\ UNCHANGED <<world, registry, rows, turn, catalog, troubles>>

\* The wiki is settled; the budget, which covers the first wiki, may be spent.
SettleWiki(settled) ==
    \/ lane' = settled /\ census' = Idle
    \/ census.queue # <<>> /\ StartWiki(settled, census.queue)

\* Covering a wiki goes on whether or not a request was answered.
GoOn(at) == census' = [census EXCEPT !.at = at]
Trouble == troubles < Troubles /\ troubles' = troubles + 1

\* _store: of two declarations with one key the wiki serves the first.
Declaring(entries, k) == {g \in DOMAIN entries : Key[g] = k}
Served(entries, k) == CHOOSE g \in Declaring(entries, k) : \A h \in Declaring(entries, k) : g <= h

ApplyLine(row, g, declaration) ==
    [row EXCEPT !.known = TRUE, !.gone = FALSE, !.gadget = g,
                !.hidden = declaration.hidden, !.files = declaration.files]

\* _descriptions: a reply names a spelling, and of the gadgets that share it only the one
\* declared last is found described.
Described(entries) ==
    {g \in DOMAIN entries : message[Spelling[g]] /\ \A h \in DOMAIN entries : Spelling[h] = Spelling[g] => h <= g}

\* described is None when the messages were not read: the row keeps what it has.
WithDescription(row, described, g) ==
    IF described = None THEN row ELSE [row EXCEPT !.described = g \in described]

StoreRow(k, entries, described) ==
    IF Declaring(entries, k) # {}
    THEN LET g == Served(entries, k)
         IN  WithDescription(ApplyLine(rows[k], g, entries[g]), described, g)
    ELSE IF rows[k].known THEN [rows[k] EXCEPT !.gone = TRUE] ELSE rows[k]

\* added, updated or retired: an entry that was stored before counts as updated.
Moved(w, entries) ==
    \/ DOMAIN entries # {}
    \/ \E k \in KeysOf(w) : rows[k].known /\ ~rows[k].gone

\* ingest: the definition page, then the messages that describe what it declares.
Ingest(described) ==
    /\ census.at = "ingest" /\ census.wiki \notin blank
    /\ LET w == census.wiki
       IN  /\ rows' = [k \in Keys |-> IF k \in KeysOf(w) THEN StoreRow(k, DeclaredBy(w), described)
                                      ELSE rows[k]]
           /\ census' = [census EXCEPT !.at = "date", !.changed = Moved(w, DeclaredBy(w))]
    /\ UNCHANGED <<world, registry, lane, turn, catalog>>

IngestDescribed == Ingest(Described(DeclaredBy(census.wiki))) /\ UNCHANGED troubles
IngestUndescribed == Ingest(None) /\ Trouble

\* A page that was not read, or that is blank, retires nothing.
IngestNothing == census.at = "ingest" /\ GoOn("date") /\ UNCHANGED <<world, tables>>
IngestBlank == census.wiki \in blank /\ IngestNothing /\ UNCHANGED troubles
IngestUnread == IngestNothing /\ Trouble

\* gadget_creation_dates.earliest: the first revision among a gadget's pages.
Earliest(files) == CHOOSE f \in files : \A e \in files : Born[f] <= Born[e]

\* apply_origins: a date moves only backwards, and the author with it (fault: a row that
\* names no author takes one whatever its date).
Credit(row, f) == [row EXCEPT !.author = Author[f]]
ApplyAnyOrigin(row) ==
    IF row.files = {} THEN row
    ELSE LET f == Earliest(row.files)
         IN  IF row.born = 0 \/ Born[f] < row.born THEN Credit([row EXCEPT !.born = Born[f]], f)
             ELSE IF row.author = None THEN Credit(row, f) ELSE row
ApplyOrigin(row) ==
    IF row.files = {} THEN row
    ELSE LET f == Earliest(row.files)
         IN  IF row.born = 0 \/ Born[f] < row.born THEN Credit([row EXCEPT !.born = Born[f]], f)
             ELSE IF Born[f] = row.born /\ row.author = None THEN Credit(row, f) ELSE row

\* wiki_edit_dates: the newest edit of a gadget's pages, only ever forward.
Advance(row) ==
    LET stamps == {page[f] : f \in row.files} \cup {row.touched}
    IN  [row EXCEPT !.touched = CHOOSE s \in stamps : \A t \in stamps : t <= s]

StampDates ==
    /\ census.at = "date" /\ GoOn("synchronize")
    /\ rows' = [k \in Keys |-> IF k \in KeysOf(census.wiki) /\ rows[k].known
                               THEN Advance(ApplyOrigin(rows[k])) ELSE rows[k]]
    /\ UNCHANGED <<world, registry, lane, turn, catalog, troubles>>
NoReplica ==
    /\ census.at = "date" /\ Trouble /\ GoOn("synchronize")
    /\ UNCHANGED <<world, tables>>

\* gadget_toolinfo: a record transcribes a live row that is not hidden.
Record(row) == [gadget |-> row.gadget, files |-> row.files, described |-> row.described,
                created |-> row.born, author |-> row.author, modified |-> row.touched]
Wanted(k) == rows[k].known /\ ~rows[k].gone /\ ~rows[k].hidden /\ k \notin Taken
Kept(w) == [k \in Keys |-> IF k \in KeysOf(w) /\ Wanted(k) THEN Record(rows[k]) ELSE catalog[k]]
Synchronized(w) == [k \in Keys |-> IF k \notin KeysOf(w) THEN catalog[k]
                                   ELSE IF Wanted(k) THEN Record(rows[k]) ELSE None]
Synchronize ==
    /\ census.at = "synchronize"
    /\ catalog' = Synchronized(census.wiki)
    /\ census' = [census EXCEPT !.at = "settle", !.changed = @ \/ catalog' # catalog]
    /\ UNCHANGED <<world, registry, lane, rows, turn, troubles>>

Settle ==
    /\ census.at = "settle"
    /\ SettleWiki([lane EXCEPT ![census.wiki] = SettleCovered(@, census.changed, census.wiki \in Closed)])
    /\ UNCHANGED <<world, registry, rows, turn, catalog, troubles>>

\* A wiki's failure is recorded, backed off and left behind.
CoverFailed ==
    /\ census.at \in {"ingest", "date", "synchronize"} /\ Trouble
    /\ SettleWiki([lane EXCEPT ![census.wiki] = SettleFailed(@)])
    /\ UNCHANGED <<world, registry, rows, turn, catalog>>
CensusKilled ==
    /\ census.at # "idle" /\ Trouble /\ census' = Idle
    /\ UNCHANGED <<world, tables>>

---------------------------------------------------------------------------
(* gadget_source.refresh: the code of the gadgets least recently read.      *)

Unread == SetToSortSeq({k \in Keys : rows[k].known /\ ~rows[k].gone /\ ~Contains(turn, k)},
                       LAMBDA j, k : rows[j].gadget < rows[k].gadget)
Stale ==
    LET order == Unread \o SelectSeq(turn, LAMBDA k : ~rows[k].gone)
    IN  IF Len(order) > SourceLimit THEN SubSeq(order, 1, SourceLimit) ELSE order

\* _body_for: nothing for a gadget that names no page, and then the stored code stays.
BodyFor(row) == {<<f, page[f]>> : f \in row.files}
ReadRow(row) == IF BodyFor(row) = {} THEN row ELSE [row EXCEPT !.body = BodyFor(row)]

RowsRead(read) == [k \in Keys |-> IF Contains(read, k) THEN ReadRow(rows[k]) ELSE rows[k]]
TurnAfter(read) == SelectSeq(turn, LAMBDA k : ~Contains(read, k)) \o read

ReadChunk ==
    /\ Stale # <<>>
    /\ \E failed \in IF troubles < Troubles THEN SUBSET ToSet(Stale) ELSE {{}} :
         LET read == SelectSeq(Stale, LAMBDA k : k \notin failed)
         IN  /\ rows' = RowsRead(read) /\ turn' = TurnAfter(read)
             /\ troubles' = IF failed = {} THEN troubles ELSE troubles + 1
    /\ UNCHANGED <<world, registry, lane, catalog, census>>

---------------------------------------------------------------------------
Edit ==
    \/ \E g \in Gadgets, d \in Declarations \cup {None} : Declare(g, d)
    \/ \E n \in Spellings : Describe(n)
    \/ \E f \in Files : SavePage(f)
    \/ \E w \in Wikis : Relist(w)

Census ==
    \/ StartRun \/ IngestDescribed \/ IngestBlank \/ StampDates \/ Synchronize \/ Settle

CensusTrouble ==
    \/ IngestUnread \/ IngestUndescribed \/ NoReplica \/ CoverFailed \/ CensusKilled
=============================================================================
