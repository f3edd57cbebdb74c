----------------------------- MODULE WriteRows -----------------------------
(***************************************************************************)
(* v1_write.py, write_persistence.py: what one user keeps locally about    *)
(* one tool, one list, one crawler URL and one favorite, what official     *)
(* Toolhub holds of them, and what each write does to either side.         *)
(*                                                                         *)
(* The content of a write is a number that grows with every write the user *)
(* makes.  Activity rows, response bodies, create-time toolinfo and the    *)
(* review of public records are left out.                                  *)
(***************************************************************************)
EXTENDS Integers, FiniteSets

CONSTANTS
    MaxValue,       \* bound: contents the user writes
    MaxIds          \* bound: objects Toolhub makes

ASSUME RowsAssumption == MaxValue \in Nat \ {0} /\ MaxIds \in Nat \ {0}

Drafts == {"new", "edits", "annos"}
Kinds == Drafts \cup {"list", "crawler", "favorite"}
Ids == 1 .. MaxIds

VARIABLES
    row,            \* tool_records, tool_overlays, lists, crawler_urls, favorites
    made,           \* objects Toolhub made so far
    official        \* Toolhub: the content of each object, 0 when there is none

rowVars == <<row, made, official>>

NoRow == [status |-> "none", val |-> 0, id |-> 0, gone |-> FALSE]
RowSet == [status : {"none", "official", "local_fallback"}, val : 0 .. MaxValue,
           id : 0 .. MaxIds, gone : BOOLEAN]

\* Toolhub's objects: a tool, its annotations and a favorite have a name, a list and a
\* crawler URL are numbered as they are made.
Tool == <<0, "tool">>
Annos == <<0, "annos">>
Numbered == {"list", "crawler"}
Objects == {Tool, Annos, <<0, "favorite">>} \cup (Ids \X Numbered)

RowsType ==
    /\ row \in [Kinds -> RowSet]
    /\ made \in 0 .. MaxIds
    /\ official \in [Objects -> 0 .. MaxValue]

RowsInit ==
    /\ row = [k \in Kinds |-> NoRow]
    /\ made = 0
    /\ official = [o \in Objects |-> 0]

Held(k) == row[k].status # "none" /\ ~row[k].gone
Live(o) == official[o] # 0

---------------------------------------------------------------------------
(* Toolhub.  A request is a record: what it does ("how") to which kind of  *)
(* thing, with which content and, for a numbered one, under which id.      *)

Group(k) == IF k \in {"new", "edits"} THEN "tool" ELSE k
Object(q) == <<IF q.kind \in Numbered THEN q.id ELSE 0, Group(q.kind)>>

\* Names are unique, and so are crawler URLs; a list may be made again and again.
Acceptable(q) ==
    IF q.how = "POST"
    THEN CASE q.kind \in {"new", "edits"} -> ~Live(Tool)
           [] q.kind = "crawler" -> made < MaxIds /\ \A i \in Ids : ~Live(<<i, "crawler">>)
           [] q.kind = "list" -> made < MaxIds
           [] OTHER -> TRUE
    ELSE IF q.kind = "annos" THEN Live(Tool)
    ELSE Object(q) \in Objects /\ Live(Object(q))

Apply(q) ==
    IF q.how = "POST" /\ q.kind \in Numbered
    THEN /\ made' = made + 1
         /\ official' = [official EXCEPT ![<<made + 1, q.kind>>] = q.val]
    ELSE /\ official' = [o \in Objects |->
                           IF o = Object(q) THEN IF q.how = "DELETE" THEN 0 ELSE q.val
                           ELSE IF o = Annos /\ q.how = "DELETE" /\ q.kind = "edits" THEN 0
                           ELSE official[o]]
         /\ UNCHANGED made

\* _official_id: the id in the body, or the one the request was made to.
OfficialId(q) == IF q.how = "POST" /\ q.kind \in Numbered THEN made' ELSE q.id

---------------------------------------------------------------------------
(* The rows.  A write names the thing it is about and what is done to it.  *)

\* write_lifecycle, _sync_metadata: the status is set on every store (fault: only on a
\* row that is new).
SyncedOnce(k, status) == IF row[k].status = "none" THEN status ELSE row[k].status
Synced(k, status) == status

Stored(k, status, val, id) ==
    [row EXCEPT ![k] = [status |-> Synced(k, status), val |-> val, id |-> id, gone |-> FALSE]]
Dropped(ks) == [k \in Kinds |-> IF k \in ks THEN NoRow ELSE row[k]]

\* The draft of a tool, of an edit, of annotations (fault: a draft that is there keeps
\* what it holds).
FirstDraft(k, val) == IF Held(k) THEN row[k].val ELSE val
Draft(k, val) == val

DropsOnSuccess(q) ==
    CASE q.op = "retry" -> {q.kind}
      [] q.how = "DELETE" /\ q.kind = "edits" -> Drafts
      [] q.kind = "annos" -> {"annos"}
      [] q.kind = "favorite" -> {"favorite"}
      [] OTHER -> {"new", "edits"}

\* on_success, and what follows an accepted deletion.
AfterSuccess(q) ==
    IF q.how = "DELETE" /\ q.kind \in Numbered
    THEN IF row[q.kind].id = q.id
         THEN [row EXCEPT ![q.kind].gone = TRUE, ![q.kind].status = "official"]
         ELSE row
    ELSE IF q.kind \in Drafts \/ q.how = "DELETE" THEN Dropped(DropsOnSuccess(q))
    ELSE Stored(q.kind, "official", q.val, q.new)
OnSuccess(q) == row' = AfterSuccess(q)

\* Which failed writes are kept: all but the deletions, and of these the favorite's.
CanFallBack(q) == q.how # "DELETE" \/ q.kind = "favorite"

AfterFallback(q) ==
    IF q.how = "DELETE" THEN Dropped({q.kind})
    ELSE IF q.kind \in Drafts
    THEN Stored(q.kind, "local_fallback", Draft(q.kind, q.val), 0)
    ELSE Stored(q.kind, "local_fallback", q.val, IF q.kind = "list" THEN q.id ELSE 0)
OnFallback(q) == row' = AfterFallback(q)
=============================================================================
