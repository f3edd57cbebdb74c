------------------------------- MODULE Writes -------------------------------
(***************************************************************************)
(* write_lifecycle.py and the routes of v1_write.py: a user writes to      *)
(* Toolhub through Evolved from one or more browser tabs.  A request takes *)
(* its steps one at a time: the row it is about, the grant, the refresh of *)
(* the grant, the call, and the transaction that ends it; another tab, a   *)
(* sign-out, the clock, Toolhub and a kill come in between.                *)
(***************************************************************************)
EXTENDS Grants, WriteRows

CONSTANTS
    Tabs,
    MaxEvents       \* bound: kills, lost replies, outages, expiries, withdrawals, key
                    \* rotations and sign-outs, taken together

ASSUME WritesAssumption == MaxEvents \in Nat

VARIABLES
    about,          \* the resource the user works on: resources share nothing but the grant
    req,            \* the request each tab has in flight
    wrote,          \* contents written so far
    told,           \* the newest content the user was told is kept, by resource
    settled,        \* the newest content Toolhub took or the user let go of
    lost,           \* a request was killed, or its reply lost
    events

vars == <<grantVars, rowVars, about, req, wrote, told, settled, lost, events>>

Event == events < MaxEvents /\ events' = events + 1

Abouts == {"tool", "list", "crawler", "favorite"}
Groups == Abouts \cup {"annos"}
Newer(f, g, v) == [f EXCEPT ![g] = IF v > @ THEN v ELSE @]
Idle == [step |-> "idle", op |-> "none", kind |-> "none", how |-> "none", val |-> 0, id |-> 0, pair |-> 0,
         new |-> 0, auth |-> FALSE]

Init ==
    /\ GrantsInit /\ RowsInit
    /\ about \in Abouts
    /\ req = [t \in Tabs |-> Idle]
    /\ wrote = 0
    /\ told = [g \in Groups |-> 0]
    /\ settled = [g \in Groups |-> 0]
    /\ lost = FALSE
    /\ events = 0

---------------------------------------------------------------------------
(* The routes: what each one asks of Toolhub.                              *)

\* write_guard
Guarded(t) == req[t].step = "idle" /\ signed

Request(op, kind, how, val, id) ==
    [step |-> "grant", op |-> op, kind |-> kind, how |-> how, val |-> val, id |-> id, pair |-> 0,
     new |-> 0, auth |-> FALSE]

Asks(t, op, kind, how, val, id) ==
    /\ req' = [req EXCEPT ![t] = Request(op, kind, how, val, id)]
    /\ UNCHANGED <<grantVars, rowVars, about, told, settled, lost, events>>

Writes(t, op, kind, how, id) ==
    /\ wrote < MaxValue
    /\ wrote' = wrote + 1
    /\ Asks(t, op, kind, how, wrote + 1, id)

Deletes(t, kind, id) == Asks(t, "delete", kind, "DELETE", 0, id) /\ UNCHANGED wrote

\* _write_tool_core: an edit of a tool that is still a local draft is a creation.
WriteTool(t) ==
    /\ Guarded(t) /\ about = "tool"
    /\ \/ Writes(t, "create", "new", "POST", 0)
       \/ IF Held("new") THEN Writes(t, "update", "new", "POST", 0)
                         ELSE Writes(t, "update", "edits", "PUT", 0)

DeleteTool(t) == Guarded(t) /\ about = "tool" /\ Deletes(t, "edits", 0)
Annotate(t) == Guarded(t) /\ about = "tool" /\ Writes(t, "annotate", "annos", "PUT", 0)

\* _write_list_core: a list the tab knows an official id of is put, another one posted.
WriteList(t) ==
    /\ Guarded(t) /\ about = "list"
    /\ IF Held("list") /\ row["list"].id # 0
       THEN Writes(t, "update", "list", "PUT", row["list"].id)
       ELSE Writes(t, "create", "list", "POST", 0)

Known(k) == Held(k) /\ row[k].id # 0
DeleteList(t) ==
    Guarded(t) /\ about = "list" /\ Known("list") /\ Deletes(t, "list", row["list"].id)
DeleteCrawlerUrl(t) ==
    /\ Guarded(t) /\ about = "crawler" /\ Known("crawler")
    /\ Deletes(t, "crawler", row["crawler"].id)

AddCrawlerUrl(t) == Guarded(t) /\ about = "crawler" /\ Writes(t, "create", "crawler", "POST", 0)
AddFavorite(t) == Guarded(t) /\ about = "favorite" /\ Writes(t, "create", "favorite", "POST", 0)
DeleteFavorite(t) == Guarded(t) /\ about = "favorite" /\ Deletes(t, "favorite", 0)

\* The retry routes read the row in a transaction of its own.
Retry(t, k, how, id) ==
    /\ Guarded(t)
    /\ Held(k)
    /\ Asks(t, "retry", k, how, row[k].val, id)
    /\ UNCHANGED wrote

RetryTool(t) == \E k \in Drafts : Retry(t, k, IF k = "new" THEN "POST" ELSE "PUT", 0)
RetryList(t) == Retry(t, "list", IF row["list"].id # 0 THEN "PUT" ELSE "POST", row["list"].id)
RetryCrawlerUrl(t) == Retry(t, "crawler", "POST", 0)
RetryFavorite(t) == Retry(t, "favorite", "POST", 0)

\* The fallback routes ask nothing of Toolhub: a list is marked, the others are deleted.
Discard(t, k, rows) ==
    /\ Guarded(t)
    /\ row[k].status # "none"
    /\ row' = rows
    /\ settled' = Newer(settled, Group(k), row[k].val)
    /\ UNCHANGED <<grantVars, made, official, about, req, wrote, told, lost, events>>

DiscardTool(t) == \E k \in Drafts : Discard(t, k, Dropped({k}))
DiscardList(t) == Held("list") /\ Discard(t, "list", [row EXCEPT !["list"].gone = TRUE])
DiscardCrawlerUrl(t) == Discard(t, "crawler", Dropped({"crawler"}))
DiscardFavorite(t) == Discard(t, "favorite", Dropped({"favorite"}))

DeleteEvolvedData(t) ==
    /\ Guarded(t)
    /\ row' = Dropped(Kinds)
    /\ settled' = [g \in Groups |-> wrote]
    /\ UNCHANGED <<grantVars, made, official, about, req, wrote, told, lost, events>>

Route(t) ==
    \/ WriteTool(t) \/ DeleteTool(t) \/ RetryTool(t) \/ DiscardTool(t) \/ Annotate(t)
    \/ WriteList(t) \/ DeleteList(t) \/ RetryList(t) \/ DiscardList(t)
    \/ AddCrawlerUrl(t) \/ DeleteCrawlerUrl(t) \/ RetryCrawlerUrl(t) \/ DiscardCrawlerUrl(t)
    \/ AddFavorite(t) \/ DeleteFavorite(t) \/ RetryFavorite(t) \/ DiscardFavorite(t)
    \/ DeleteEvolvedData(t)

---------------------------------------------------------------------------
(* attempt_official_write.                                                 *)

Goes(t, step) == req' = [req EXCEPT ![t].step = step]
Fails(t, auth) == req' = [req EXCEPT ![t].step = "failed", ![t].auth = auth]
Answered(t) == req' = [req EXCEPT ![t] = Idle]

ReadGrant(t) ==
    /\ req[t].step = "grant"
    /\ req' = [req EXCEPT ![t] = IF GrantStep = "reauth" THEN Idle
                                 ELSE [@ EXCEPT !.step = GrantStep, !.pair = grant.pair]]
    /\ UNCHANGED <<grantVars, rowVars, about, wrote, told, settled, lost, events>>

RevokeUnreadable(t) ==
    /\ req[t].step = "revoke"
    /\ Revoke /\ Answered(t)
    /\ UNCHANGED <<rowVars, about, wrote, told, settled, lost, events>>

\* A refresh Toolhub refuses, does not answer, or answers in vain is a failed request.
RefreshGrant(t) ==
    /\ req[t].step = "refresh"
    /\ \/ /\ Renew(req[t].pair)
          /\ \/ /\ req' = [req EXCEPT ![t].step = "save", ![t].pair = issued']
                /\ UNCHANGED <<lost, events>>
             \/ /\ Event
                /\ lost' = TRUE
                /\ Fails(t, FALSE)
       \/ /\ req[t].pair \notin refresh
          /\ Fails(t, TRUE)
          /\ UNCHANGED <<grantVars, lost, events>>
       \/ /\ Event
          /\ Fails(t, FALSE)
          /\ UNCHANGED <<grantVars, lost>>
    /\ UNCHANGED <<rowVars, about, wrote, told, settled>>

StoreRefreshed(t) ==
    /\ req[t].step = "save"
    /\ SaveGrant(req[t].pair)
    /\ IF Keeps THEN Goes(t, "call") ELSE Answered(t)
    /\ UNCHANGED <<rowVars, about, wrote, told, settled, lost, events>>

\* What the user has deleted he has let go of.
LetGo(g) == [x \in Groups |-> IF x = g \/ (g = "tool" /\ x = "annos") THEN wrote ELSE settled[x]]

Accepted(t) ==
    /\ req[t].pair \in access /\ Acceptable(req[t])
    /\ Apply(req[t])
    /\ \/ /\ req' = [req EXCEPT ![t].step = "accepted", ![t].new = OfficialId(req[t])]
          /\ UNCHANGED <<lost, events>>
       \/ /\ Event
          /\ lost' = TRUE
          /\ Fails(t, FALSE)
    /\ settled' = IF req[t].how = "DELETE" THEN LetGo(Group(req[t].kind))
                  ELSE Newer(settled, Group(req[t].kind), req[t].val)

\* Toolhub may find fault with any content.
Rejected(t) ==
    /\ Fails(t, req[t].pair \notin access)
    /\ UNCHANGED <<made, official, settled, lost, events>>

Call(t) ==
    /\ req[t].step = "call"
    /\ \/ Accepted(t)
       \/ Rejected(t)
       \/ Event /\ Fails(t, FALSE) /\ UNCHANGED <<made, official, settled, lost>>
    /\ UNCHANGED <<grantVars, row, about, wrote, told>>

\* execute_official_first, from the outcome on: one transaction, then the answer.
Persist(t) ==
    LET q == req[t]
        g == Group(q.kind)
    IN  /\ \/ q.step = "accepted" /\ OnSuccess(q)
           \/ q.step = "failed" /\ CanFallBack(q) /\ OnFallback(q)
        /\ told' = Newer(told, g, q.val)
        /\ settled' = IF q.how = "DELETE" THEN LetGo(g) ELSE settled
        /\ Answered(t)
        /\ UNCHANGED <<grantVars, made, official, about, wrote, lost, events>>

Refuse(t) ==
    /\ req[t].step = "failed" /\ ~CanFallBack(req[t])
    /\ Answered(t)
    /\ UNCHANGED <<grantVars, rowVars, about, wrote, told, settled, lost, events>>

Attempt(t) ==
    \/ ReadGrant(t) \/ RevokeUnreadable(t) \/ RefreshGrant(t) \/ StoreRefreshed(t)
    \/ Call(t) \/ Persist(t) \/ Refuse(t)

---------------------------------------------------------------------------
(* Sessions, the clock, Toolhub and the webservice.                        *)

SignIn == Login /\ UNCHANGED <<rowVars, about, req, wrote, told, settled, lost, events>>
SignOut ==
    /\ \/ Forget /\ Event
       \/ Strand /\ UNCHANGED events
    /\ UNCHANGED <<rowVars, about, req, wrote, told, settled, lost>>

Upsets ==
    /\ Event
    /\ Expires \/ RotateKey \/ \E n \in Pairs : Withdraw(n)
    /\ UNCHANGED <<rowVars, about, req, wrote, told, settled, lost>>

\* The webservice restarts: the request is not answered.
Kill(t) ==
    /\ req[t].step # "idle"
    /\ Event
    /\ Answered(t)
    /\ lost' = TRUE
    /\ UNCHANGED <<grantVars, rowVars, about, wrote, told, settled>>

Next ==
    \/ \E t \in Tabs : Route(t) \/ Attempt(t) \/ Kill(t)
    \/ SignIn \/ SignOut \/ Upsets

Spec == Init /\ [][Next]_vars

---------------------------------------------------------------------------
TypeOK == GrantsType /\ RowsType

\* "so the user's work is not lost" (README.md): what the user was told is kept stays in a
\* row until Toolhub has taken it, or something newer, or the user lets go of it.
WorkKept == \A g \in Groups :
    told[g] > settled[g] => \E k \in Kinds : Group(k) = g /\ Held(k) /\ row[k].val >= told[g]

\* What rows say of Toolhub: what is marked official is what Toolhub has, and what is a
\* draft is not there already.
Agreeing(rows) ==
    LET Kept(k) == rows[k].status # "none" /\ ~rows[k].gone
    IN  /\ \A k \in Numbered :
               Kept(k) /\ rows[k].status = "official" =>
                   rows[k].id \in Ids /\ rows[k].val = official[<<rows[k].id, k>>]
        /\ \A k \in Drafts : Kept(k) => rows[k].val # official[<<0, Group(k)>>]
        /\ Kept("favorite") /\ rows["favorite"].status = "official" => Live(<<0, "favorite">>)

\* Unless a request was killed or its reply lost, an idle user's rows tell the truth.
Agrees == (\A t \in Tabs : req[t].step = "idle") /\ ~lost => Agreeing(row)

\* Between requests, rows and grants are well formed and say what Toolhub has.
RowsTrue == TypeOK /\ Agrees

\* A user who signed out leaves no grant behind, although a request in flight may be
\* about to write a refreshed one, unless another browser signed in between the two
\* transactions of a sign-out: that sign-in is stranded with the rest, and its grant stays.
SignedOutForgets == ~signed /\ ~crossed => grant = NoGrant
=============================================================================
