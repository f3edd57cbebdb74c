---------------------------- MODULE WritesProofs ----------------------------
(***************************************************************************)
(* What holds of official-first writes for any number of tabs, contents,   *)
(* objects, token pairs and faults: rows, grants and requests stay well    *)
(* formed, and a user who signed out leaves no grant.  For a user with one *)
(* tab: what he was told is kept is kept, and his rows say what Toolhub    *)
(* has.  (Two tabs may overwrite each other's drafts, so the last two need *)
(* the hypothesis.)                                                        *)
(***************************************************************************)
EXTENDS Writes, TLAPS

USE GrantsAssumption, RowsAssumption, WritesAssumption

Steps == {"idle", "grant", "revoke", "refresh", "save", "call", "accepted", "failed"}
Hows == {"POST", "PUT", "DELETE"}
Ops == {"create", "update", "annotate", "delete", "retry"}
Requests == [step : Steps, op : Ops \cup {"none"}, kind : Kinds \cup {"none"}, how : Hows \cup {"none"},
             val : 0 .. MaxValue, id : 0 .. MaxIds, pair : 0 .. MaxPairs, new : 0 .. MaxIds,
             auth : BOOLEAN]

\* A request under way names what it is about, and the pair it is about to save is one
\* Toolhub issued.
WellFormed(q) ==
    /\ q.step # "idle" => q.op \in Ops /\ q.kind \in Kinds /\ q.how \in Hows
    /\ q.step \in {"save", "refresh", "call"} => q.pair \in Pairs

RequestTypes ==
    /\ about \in Abouts
    /\ req \in [Tabs -> Requests]
    /\ \A t \in Tabs : WellFormed(req[t])
    /\ wrote \in 0 .. MaxValue
    /\ told \in [Groups -> 0 .. MaxValue] /\ settled \in [Groups -> 0 .. MaxValue]
    /\ lost \in BOOLEAN
Types == GrantsType /\ RowsType /\ RequestTypes

---------------------------------------------------------------------------
(* Types of what the operators return.                                     *)

LEMMA IdleTyped == Idle \in Requests /\ WellFormed(Idle)
  BY DEF Idle, Requests, Steps, WellFormed

LEMMA DroppedTyped ==
  ASSUME RowsType, NEW ks \in SUBSET Kinds
  PROVE  Dropped(ks) \in [Kinds -> RowSet]
  BY DEF RowsType, Dropped, NoRow, RowSet

LEMMA StoredTyped ==
  ASSUME RowsType, NEW k \in Kinds, NEW status \in {"official", "local_fallback"},
         NEW val \in 0 .. MaxValue, NEW id \in 0 .. MaxIds
  PROVE  Stored(k, status, val, id) \in [Kinds -> RowSet]
  BY DEF RowsType, Stored, Synced, RowSet

LEMMA GroupTyped == \A k \in Kinds : Group(k) \in Groups
  BY DEF Kinds, Drafts, Group, Groups, Abouts

LEMMA NewerTyped ==
  ASSUME NEW f \in [Groups -> 0 .. MaxValue], NEW g \in Groups, NEW v \in 0 .. MaxValue
  PROVE  Newer(f, g, v) \in [Groups -> 0 .. MaxValue]
  BY DEF Newer

LEMMA LetGoTyped ==
  ASSUME RequestTypes, NEW g \in Groups
  PROVE  LetGo(g) \in [Groups -> 0 .. MaxValue]
  BY DEF RequestTypes, LetGo

\* One tab takes a new request; the others keep theirs.
LEMMA RequestTyped ==
  ASSUME RequestTypes, NEW t \in Tabs, NEW q \in Requests, WellFormed(q),
         req' = [req EXCEPT ![t] = q]
  PROVE  req' \in [Tabs -> Requests] /\ \A s \in Tabs : WellFormed(req'[s])
  BY DEF RequestTypes

---------------------------------------------------------------------------
(* The routes.                                                             *)

LEMMA AsksTypes ==
  ASSUME Types, NEW t \in Tabs, NEW op \in Ops, NEW kind \in Kinds, NEW how \in Hows,
         NEW val \in 0 .. MaxValue, NEW id \in 0 .. MaxIds,
         Asks(t, op, kind, how, val, id), wrote' \in 0 .. MaxValue
  PROVE  Types'
<1> DEFINE q == Request(op, kind, how, val, id)
<1>1. q \in Requests
  BY DEF Request, Requests, Steps
<1>2. WellFormed(q) /\ req' = [req EXCEPT ![t] = q]
  BY DEF WellFormed, Request, Asks
<1>3. req' \in [Tabs -> Requests] /\ \A s \in Tabs : WellFormed(req'[s])
  BY <1>1, <1>2, RequestTyped DEF Types
<1>4. QED
  BY <1>3 DEF Types, GrantsType, RowsType, RequestTypes, Asks, grantVars, rowVars

LEMMA WritesTypes ==
  ASSUME Types, NEW t \in Tabs, NEW op \in Ops, NEW kind \in Kinds, NEW how \in Hows,
         NEW id \in 0 .. MaxIds, Writes(t, op, kind, how, id)
  PROVE  Types'
<1>1. wrote + 1 \in 0 .. MaxValue /\ wrote' = wrote + 1 /\ Asks(t, op, kind, how, wrote + 1, id)
  BY DEF Writes, Types, RequestTypes
<1>2. QED  BY <1>1, AsksTypes

LEMMA DeletesTypes ==
  ASSUME Types, NEW t \in Tabs, NEW kind \in Kinds, NEW id \in 0 .. MaxIds, Deletes(t, kind, id)
  PROVE  Types'
<1>1. 0 \in 0 .. MaxValue /\ "delete" \in Ops /\ "DELETE" \in Hows
  BY DEF Ops, Hows
<1>2. wrote' \in 0 .. MaxValue /\ Asks(t, "delete", kind, "DELETE", 0, id)
  BY DEF Deletes, Types, RequestTypes
<1>3. QED  BY <1>1, <1>2, AsksTypes

LEMMA RetryTypes ==
  ASSUME Types, NEW t \in Tabs, NEW k \in Kinds, NEW how \in Hows, NEW id \in 0 .. MaxIds,
         Retry(t, k, how, id)
  PROVE  Types'
<1>1. row[k].val \in 0 .. MaxValue /\ "retry" \in Ops
  BY DEF Types, RowsType, RowSet, Ops
<1>2. wrote' \in 0 .. MaxValue /\ Asks(t, "retry", k, how, row[k].val, id)
  BY DEF Retry, Types, RequestTypes
<1>3. QED  BY <1>1, <1>2, AsksTypes

LEMMA DiscardTypes ==
  ASSUME Types, NEW t \in Tabs, NEW k \in Kinds, NEW rows \in [Kinds -> RowSet], Discard(t, k, rows)
  PROVE  Types'
<1>1. row[k].val \in 0 .. MaxValue /\ Group(k) \in Groups
  BY GroupTyped DEF Types, RowsType, RowSet
<1>2. settled' \in [Groups -> 0 .. MaxValue]
  BY <1>1, NewerTyped DEF Types, RequestTypes, Discard
<1>3. QED
  BY <1>2 DEF Types, GrantsType, RowsType, RequestTypes, Discard, grantVars

LEMMA RouteTypes ==
  ASSUME Types, NEW t \in Tabs, Route(t)
  PROVE  Types'
<1>1. /\ \A k \in Kinds : row[k].id \in 0 .. MaxIds
      /\ 0 \in 0 .. MaxIds
      /\ \A k \in Drafts : k \in Kinds
      /\ {"new", "edits", "annos", "list", "crawler", "favorite"} \subseteq Kinds
      /\ {"create", "update", "annotate"} \subseteq Ops /\ {"POST", "PUT"} \subseteq Hows
  BY DEF Types, RowsType, RowSet, Kinds, Drafts, Ops, Hows
<1>2. CASE WriteTool(t) \/ Annotate(t) \/ WriteList(t) \/ AddCrawlerUrl(t) \/ AddFavorite(t)
  <2>1. PICK op \in Ops, kind \in Kinds, how \in Hows, id \in 0 .. MaxIds :
            Writes(t, op, kind, how, id)
    BY <1>1, <1>2 DEF WriteTool, Annotate, WriteList, AddCrawlerUrl, AddFavorite
  <2>2. QED  BY <2>1, WritesTypes
<1>3. CASE DeleteTool(t) \/ DeleteList(t) \/ DeleteCrawlerUrl(t) \/ DeleteFavorite(t)
  <2>1. PICK kind \in Kinds, id \in 0 .. MaxIds : Deletes(t, kind, id)
    BY <1>1, <1>3 DEF DeleteTool, DeleteList, DeleteCrawlerUrl, DeleteFavorite
  <2>2. QED  BY <2>1, DeletesTypes
<1>4. CASE RetryTool(t) \/ RetryList(t) \/ RetryCrawlerUrl(t) \/ RetryFavorite(t)
  <2>1. PICK kind \in Kinds, how \in Hows, id \in 0 .. MaxIds : Retry(t, kind, how, id)
    BY <1>1, <1>4 DEF RetryTool, RetryList, RetryCrawlerUrl, RetryFavorite
  <2>2. QED  BY <2>1, RetryTypes
<1>5. CASE DiscardTool(t) \/ DiscardList(t) \/ DiscardCrawlerUrl(t) \/ DiscardFavorite(t)
  <2>1. \A k \in Kinds : Dropped({k}) \in [Kinds -> RowSet]
    BY DroppedTyped DEF Types
  <2>2. [row EXCEPT !["list"].gone = TRUE] \in [Kinds -> RowSet]
    BY DEF Types, RowsType, RowSet
  <2>3. PICK k \in Kinds, rows \in [Kinds -> RowSet] : Discard(t, k, rows)
    BY <1>1, <1>5, <2>1, <2>2 DEF DiscardTool, DiscardList, DiscardCrawlerUrl, DiscardFavorite
  <2>4. QED  BY <2>3, DiscardTypes
<1>6. CASE DeleteEvolvedData(t)
  <2>1. row' \in [Kinds -> RowSet]
    BY <1>6, DroppedTyped DEF DeleteEvolvedData, Types
  <2>2. QED
    BY <1>6, <2>1 DEF DeleteEvolvedData, Types, GrantsType, RowsType, RequestTypes, grantVars
<1>7. QED  BY <1>2, <1>3, <1>4, <1>5, <1>6 DEF Route

---------------------------------------------------------------------------
(* The steps of a request.                                                 *)

LEMMA FieldTyped ==
  ASSUME NEW q \in Requests
  PROVE  /\ \A step \in Steps : [q EXCEPT !.step = step] \in Requests
         /\ \A pair \in Pairs : [q EXCEPT !.pair = pair] \in Requests
         /\ \A new \in 0 .. MaxIds : [q EXCEPT !.new = new] \in Requests
         /\ \A auth \in BOOLEAN : [q EXCEPT !.auth = auth] \in Requests
<1>1. \A step \in Steps : [q EXCEPT !.step = step] \in Requests
  BY DEF Requests
<1>2. \A pair \in Pairs : [q EXCEPT !.pair = pair] \in Requests
  BY DEF Requests, Pairs
<1>3. \A new \in 0 .. MaxIds : [q EXCEPT !.new = new] \in Requests
  BY DEF Requests
<1>4. \A auth \in BOOLEAN : [q EXCEPT !.auth = auth] \in Requests
  BY DEF Requests
<1>5. QED  BY <1>1, <1>2, <1>3, <1>4

\* A step that changes only where a request is leaves it well formed.
LEMMA GoesTyped ==
  ASSUME RequestTypes, NEW t \in Tabs, req[t].step # "idle", NEW step \in Steps,
         step \in {"save", "refresh", "call"} => req[t].pair \in Pairs
  PROVE  /\ [req[t] EXCEPT !.step = step] \in Requests
         /\ WellFormed([req[t] EXCEPT !.step = step])
<1>1. req[t] \in Requests /\ WellFormed(req[t])
  BY DEF RequestTypes
<1>2. [req[t] EXCEPT !.step = step] \in Requests
  BY <1>1 DEF Requests
<1>3. WellFormed([req[t] EXCEPT !.step = step])
  BY <1>1 DEF Requests, WellFormed
<1>4. QED  BY <1>2, <1>3

LEMMA FailsTyped ==
  ASSUME RequestTypes, NEW t \in Tabs, req[t].step # "idle", NEW auth \in BOOLEAN, Fails(t, auth)
  PROVE  req' \in [Tabs -> Requests] /\ \A s \in Tabs : WellFormed(req'[s])
<1> DEFINE q == [req[t] EXCEPT !.step = "failed", !.auth = auth]
<1>1. req[t] \in Requests /\ WellFormed(req[t])
  BY DEF RequestTypes
<1>2. q \in Requests
  BY <1>1, FieldTyped DEF Steps
<1>3. WellFormed(q)
  BY <1>1 DEF Requests, WellFormed
<1>4. req' = [req EXCEPT ![t] = q]
  BY <1>1 DEF Fails, RequestTypes, Requests
<1>5. QED  BY <1>2, <1>3, <1>4, RequestTyped

LEMMA AnsweredTyped ==
  ASSUME RequestTypes, NEW t \in Tabs, Answered(t)
  PROVE  req' \in [Tabs -> Requests] /\ \A s \in Tabs : WellFormed(req'[s])
  BY IdleTyped, RequestTyped DEF Answered

LEMMA IssueTyped ==
  ASSUME GrantsType, NEW ended, Issue(ended)
  PROVE  /\ issued' \in 1 .. MaxPairs
         /\ access' \subseteq 1 .. issued' /\ refresh' \subseteq 1 .. issued'
<1>1. issued \in Nat /\ issued' = issued + 1 /\ issued' \in 1 .. MaxPairs
  BY DEF GrantsType, Issue
<1>2. 1 .. issued \subseteq 1 .. issued' /\ issued' \in 1 .. issued'
  BY <1>1
<1>3. access' \subseteq access \cup {issued'} /\ refresh' \subseteq refresh \cup {issued'}
  BY <1>1 DEF Issue
<1>4. QED  BY <1>1, <1>2, <1>3 DEF GrantsType

LEMMA ReadGrantTypes ==
  ASSUME Types, NEW t \in Tabs, ReadGrant(t)
  PROVE  Types'
<1>1. CASE GrantStep = "reauth"
  <2>1. Answered(t)
    BY <1>1 DEF ReadGrant, Answered
  <2>2. QED
    BY <2>1, AnsweredTyped DEF ReadGrant, Types, GrantsType, RowsType, RequestTypes, grantVars, rowVars
<1>2. CASE GrantStep # "reauth"
  <2>1. grant.pair \in Pairs /\ GrantStep \in {"revoke", "refresh", "call"}
    BY <1>2 DEF GrantStep, Types, GrantsType, GrantRows, NoGrant
  <2> DEFINE q == [req[t] EXCEPT !.step = GrantStep, !.pair = grant.pair]
  <2>2. req[t] \in Requests /\ WellFormed(req[t]) /\ req[t].step # "idle"
    BY DEF Types, RequestTypes, ReadGrant
  <2>3. q \in Requests
    BY <2>1, <2>2, FieldTyped DEF Steps
  <2>4. WellFormed(q)
    BY <2>1, <2>2 DEF Requests, WellFormed
  <2>5. req' = [req EXCEPT ![t] = q]
    BY <1>2 DEF ReadGrant
  <2>6. req' \in [Tabs -> Requests] /\ \A s \in Tabs : WellFormed(req'[s])
    BY <2>3, <2>4, <2>5, RequestTyped DEF Types
  <2>7. QED
    BY <2>6 DEF ReadGrant, Types, GrantsType, RowsType, RequestTypes, grantVars, rowVars
<1>3. QED  BY <1>1, <1>2

LEMMA RefreshGrantTypes ==
  ASSUME Types, NEW t \in Tabs, RefreshGrant(t)
  PROVE  Types'
<1>1. req[t] \in Requests /\ WellFormed(req[t]) /\ req[t].step = "refresh"
  BY DEF Types, RequestTypes, RefreshGrant
<1>2. GrantsType' /\ (Renew(req[t].pair) => issued' \in Pairs)
  <2>1. CASE Renew(req[t].pair)
    BY <2>1, IssueTyped DEF Renew, Types, GrantsType, Pairs
  <2>2. CASE UNCHANGED grantVars /\ ~Renew(req[t].pair)
    BY <2>2 DEF Types, GrantsType, grantVars
  <2>3. CASE UNCHANGED grantVars /\ Renew(req[t].pair)
    BY <2>3 DEF Types, GrantsType, grantVars, Renew, Issue
  <2>4. QED  BY <2>1, <2>2, <2>3 DEF RefreshGrant
<1>3. req' \in [Tabs -> Requests] /\ \A s \in Tabs : WellFormed(req'[s])
  <2>1. CASE Renew(req[t].pair) /\ req' = [req EXCEPT ![t].step = "save", ![t].pair = issued']
    <3> DEFINE q == [req[t] EXCEPT !.step = "save", !.pair = issued']
    <3>1. issued' \in Pairs
      BY <1>2, <2>1
    <3>2. q \in Requests
      BY <1>1, <3>1, FieldTyped DEF Steps
    <3>3. WellFormed(q)
      BY <1>1, <3>1 DEF Requests, WellFormed
    <3>4. req' = [req EXCEPT ![t] = q]
      BY <1>1, <2>1 DEF Types, RequestTypes, Requests
    <3>5. QED  BY <3>2, <3>3, <3>4, RequestTyped DEF Types
  <2>2. CASE Fails(t, TRUE) \/ Fails(t, FALSE)
    BY <1>1, <2>2, FailsTyped DEF Types
  <2>3. QED  BY <2>1, <2>2 DEF RefreshGrant
<1>4. QED
  BY <1>2, <1>3 DEF RefreshGrant, Types, RowsType, RequestTypes, rowVars

LEMMA RevokeUnreadableTypes ==
  ASSUME Types, NEW t \in Tabs, RevokeUnreadable(t)
  PROVE  Types'
<1>1. req' \in [Tabs -> Requests] /\ \A s \in Tabs : WellFormed(req'[s])
  BY AnsweredTyped DEF RevokeUnreadable, Types
<1>2. GrantsType'
  BY DEF RevokeUnreadable, Revoke, Types, GrantsType, GrantRows
<1>3. QED
  BY <1>1, <1>2 DEF RevokeUnreadable, Types, RowsType, RequestTypes, rowVars

LEMMA StoreRefreshedTypes ==
  ASSUME Types, NEW t \in Tabs, StoreRefreshed(t)
  PROVE  Types'
<1>1. req[t].pair \in Pairs /\ req[t].step # "idle" /\ req[t] \in Requests /\ WellFormed(req[t])
  BY DEF StoreRefreshed, Types, RequestTypes, WellFormed
<1>2. GrantsType'
  BY <1>1 DEF StoreRefreshed, SaveGrant, Grant, Types, GrantsType, GrantRows
<1>3. req' \in [Tabs -> Requests] /\ \A s \in Tabs : WellFormed(req'[s])
  <2>1. CASE Answered(t)
    BY <2>1, AnsweredTyped DEF Types
  <2>2. CASE Goes(t, "call")
    <3>1. /\ [req[t] EXCEPT !.step = "call"] \in Requests
          /\ WellFormed([req[t] EXCEPT !.step = "call"])
      BY <1>1, GoesTyped DEF Types, Steps
    <3>2. req' = [req EXCEPT ![t] = [req[t] EXCEPT !.step = "call"]]
      BY <2>2 DEF Goes
    <3>3. QED  BY <3>1, <3>2, RequestTyped DEF Types
  <2>3. QED  BY <2>1, <2>2 DEF StoreRefreshed
<1>4. QED
  BY <1>2, <1>3 DEF StoreRefreshed, Types, RowsType, RequestTypes, rowVars

LEMMA ApplyTyped ==
  ASSUME RowsType, NEW q \in Requests, q.kind \in Kinds, q.how \in Hows, Acceptable(q), Apply(q)
  PROVE  /\ made' \in 0 .. MaxIds /\ official' \in [Objects -> 0 .. MaxValue]
         /\ OfficialId(q) \in 0 .. MaxIds
<1>1. q.val \in 0 .. MaxValue /\ q.id \in 0 .. MaxIds
  BY DEF Requests
<1>2. CASE q.how = "POST" /\ q.kind \in Numbered
  <2>1. made < MaxIds
    BY <1>2 DEF Acceptable, Numbered
  <2>2. made' = made + 1 /\ made' \in 0 .. MaxIds
    BY <1>2, <2>1 DEF Apply, RowsType
  <2>3. official' \in [Objects -> 0 .. MaxValue]
    BY <1>1, <1>2 DEF Apply, RowsType
  <2>4. QED  BY <1>2, <2>2, <2>3 DEF OfficialId
<1>3. CASE ~(q.how = "POST" /\ q.kind \in Numbered)
  <2>1. made' = made
    BY <1>3 DEF Apply
  <2>2. official' = [o \in Objects |-> IF o = Object(q) THEN IF q.how = "DELETE" THEN 0 ELSE q.val
                           ELSE IF o = Annos /\ q.how = "DELETE" /\ q.kind = "edits" THEN 0
                           ELSE official[o]]
    BY <1>3 DEF Apply
  <2>3. official' \in [Objects -> 0 .. MaxValue]
    BY <1>1, <2>2 DEF RowsType
  <2>4. QED  BY <1>1, <1>3, <2>1, <2>3 DEF OfficialId, RowsType
<1>4. QED  BY <1>2, <1>3

LEMMA CallTypes ==
  ASSUME Types, NEW t \in Tabs, Call(t)
  PROVE  Types'
<1>1. /\ req[t] \in Requests /\ WellFormed(req[t]) /\ req[t].step = "call"
      /\ req[t].kind \in Kinds /\ req[t].how \in Hows /\ req[t].val \in 0 .. MaxValue
  BY DEF Types, RequestTypes, Call, WellFormed, Requests
<1>2. CASE Accepted(t)
  <2>1. /\ made' \in 0 .. MaxIds /\ official' \in [Objects -> 0 .. MaxValue]
        /\ OfficialId(req[t]) \in 0 .. MaxIds
    BY <1>1, <1>2, ApplyTyped DEF Accepted, Types
  <2>2. req' \in [Tabs -> Requests] /\ \A s \in Tabs : WellFormed(req'[s])
    <3>1. CASE req' = [req EXCEPT ![t].step = "accepted", ![t].new = OfficialId(req[t])]
      <4> DEFINE q == [req[t] EXCEPT !.step = "accepted", !.new = OfficialId(req[t])]
      <4>1. q \in Requests
        BY <1>1, <2>1, FieldTyped DEF Steps
      <4>2. WellFormed(q)
        BY <1>1 DEF Requests, WellFormed
      <4>3. req' = [req EXCEPT ![t] = q]
        BY <1>1, <3>1 DEF Types, RequestTypes, Requests
      <4>4. QED  BY <4>1, <4>2, <4>3, RequestTyped DEF Types
    <3>2. CASE Fails(t, FALSE)
      BY <1>1, <3>2, FailsTyped DEF Types
    <3>3. QED  BY <1>2, <3>1, <3>2 DEF Accepted
  <2>3. settled' \in [Groups -> 0 .. MaxValue]
    BY <1>1, <1>2, GroupTyped, LetGoTyped, NewerTyped DEF Accepted, Types, RequestTypes
  <2>4. lost' \in BOOLEAN
    BY <1>2 DEF Accepted, Types, RequestTypes
  <2>5. QED
    BY <2>1, <2>2, <2>3, <2>4 DEF Call, Types, GrantsType, RowsType, RequestTypes, grantVars
<1>3. CASE ~Accepted(t)
  <2>1. \E auth \in BOOLEAN : Fails(t, auth)
    BY <1>3 DEF Call, Rejected
  <2>2. req' \in [Tabs -> Requests] /\ \A s \in Tabs : WellFormed(req'[s])
    BY <1>1, <2>1, FailsTyped DEF Types
  <2>3. UNCHANGED <<made, official, settled, lost>>
    BY <1>3 DEF Call, Rejected
  <2>4. QED
    BY <2>2, <2>3 DEF Call, Types, GrantsType, RowsType, RequestTypes, grantVars
<1>4. QED  BY <1>2, <1>3

LEMMA PersistTypes ==
  ASSUME Types, NEW t \in Tabs, Persist(t)
  PROVE  Types'
<1> DEFINE q == req[t]
<1>1. /\ q \in Requests /\ q.kind \in Kinds /\ q.how \in Hows
      /\ q.val \in 0 .. MaxValue /\ q.id \in 0 .. MaxIds /\ q.new \in 0 .. MaxIds
  BY DEF Types, RequestTypes, Persist, WellFormed, Requests
<1>2. \A ks \in SUBSET Kinds : Dropped(ks) \in [Kinds -> RowSet]
  BY DroppedTyped DEF Types
<1>3. row' \in [Kinds -> RowSet]
  <2>1. CASE OnSuccess(q)
    <3>1. DropsOnSuccess(q) \in SUBSET Kinds
      BY <1>1 DEF DropsOnSuccess, Kinds, Drafts
    <3>2. [row EXCEPT ![q.kind].gone = TRUE, ![q.kind].status = "official"] \in [Kinds -> RowSet]
      <4> DEFINE new == [[row[q.kind] EXCEPT !.gone = TRUE] EXCEPT !.status = "official"]
      <4>1. row[q.kind] \in RowSet
        BY <1>1 DEF Types, RowsType
      <4>2. new \in RowSet
        BY <4>1 DEF RowSet
      <4>3. [row EXCEPT ![q.kind] = new] \in [Kinds -> RowSet]
        BY <1>1, <4>2 DEF Types, RowsType
      <4> QED
        BY <1>1, <4>3 DEF Types, RowsType
    <3>3. Stored(q.kind, "official", q.val, q.new) \in [Kinds -> RowSet]
      BY <1>1, StoredTyped DEF Types
    <3>4. QED  BY <1>2, <2>1, <3>1, <3>2, <3>3 DEF OnSuccess, AfterSuccess, Types, RowsType
  <2>2. CASE OnFallback(q)
    <3>1. /\ Stored(q.kind, "local_fallback", q.val, 0) \in [Kinds -> RowSet]
          /\ Stored(q.kind, "local_fallback", q.val, q.id) \in [Kinds -> RowSet]
      BY <1>1, StoredTyped DEF Types
    <3>2. QED  BY <1>1, <1>2, <2>2, <3>1 DEF OnFallback, AfterFallback, Draft
  <2>3. QED  BY <2>1, <2>2 DEF Persist
<1>4. told' \in [Groups -> 0 .. MaxValue] /\ settled' \in [Groups -> 0 .. MaxValue]
  BY <1>1, GroupTyped, NewerTyped, LetGoTyped DEF Persist, Types, RequestTypes
<1>5. req' \in [Tabs -> Requests] /\ \A s \in Tabs : WellFormed(req'[s])
  BY AnsweredTyped DEF Persist, Types
<1>6. QED
  BY <1>3, <1>4, <1>5 DEF Persist, Types, GrantsType, RowsType, RequestTypes, grantVars

LEMMA LastStepTypes ==
  ASSUME Types, NEW t \in Tabs, Refuse(t) \/ Kill(t)
  PROVE  Types'
<1>1. req' \in [Tabs -> Requests] /\ \A s \in Tabs : WellFormed(req'[s])
  BY AnsweredTyped DEF Refuse, Kill, Types
<1>2. QED
  BY <1>1 DEF Refuse, Kill, Types, GrantsType, RowsType, RequestTypes, grantVars, rowVars

---------------------------------------------------------------------------
(* Sessions and the world.                                                 *)

LEMMA WorldTypes ==
  ASSUME Types, SignIn \/ SignOut \/ Upsets
  PROVE  Types'
<1>1. GrantsType'
  <2>1. CASE SignIn
    <3>1. issued' \in Pairs /\ issued' = issued + 1 /\ grant' = Grant(issued + 1)
      BY <2>1, IssueTyped DEF SignIn, Login, Types, Pairs, Issue
    <3>2. grant' \in GrantRows
      BY <3>1 DEF Grant, GrantRows
    <3>3. QED
      BY <2>1, <3>1, <3>2, IssueTyped DEF SignIn, Login, Types, GrantsType, Pairs
  <2>2. CASE SignOut
    <3>1. grant' \in GrantRows /\ issued' = issued /\ access' \subseteq access /\ refresh' \subseteq refresh
      BY <2>2 DEF SignOut, Forget, Strand, Types, GrantsType, GrantRows
    <3>2. signed' \in BOOLEAN /\ crossed' \in BOOLEAN
      BY <2>2 DEF SignOut, Forget, Strand, Types, GrantsType
    <3>3. leaving' \in Nat
      BY <2>2 DEF SignOut, Forget, Strand, Types, GrantsType
    <3>4. QED  BY <3>1, <3>2, <3>3 DEF Types, GrantsType
  <2>3. CASE Upsets
    <3>1. CASE Expires \/ RotateKey
      <4>1. grant' \in GrantRows
        BY <3>1 DEF Expires, RotateKey, Types, GrantsType, GrantRows, NoGrant
      <4>2. QED  BY <3>1, <4>1 DEF Expires, RotateKey, Types, GrantsType
    <3>2. CASE \E n \in Pairs : Withdraw(n)
      BY <3>2 DEF Withdraw, Types, GrantsType
    <3>3. QED  BY <2>3, <3>1, <3>2 DEF Upsets
  <2>4. QED  BY <2>1, <2>2, <2>3
<1>2. QED
  BY <1>1 DEF SignIn, SignOut, Upsets, Types, RowsType, RequestTypes, rowVars

LEMMA InitTypes == Init => Types
<1> SUFFICES ASSUME Init PROVE Types
  OBVIOUS
<1>0. 0 \in 0 .. MaxPairs /\ 0 \in 0 .. MaxValue
  OBVIOUS
<1>1. GrantsType
  BY <1>0, Zenon DEF Init, GrantsInit, GrantsType, GrantRows
<1>2. RowsType
  BY DEF Init, RowsInit, RowsType, RowSet, NoRow
<1>3. RequestTypes
  <2>1. /\ told \in [Groups -> 0 .. MaxValue] /\ settled \in [Groups -> 0 .. MaxValue]
        /\ wrote \in 0 .. MaxValue /\ about \in Abouts /\ lost \in BOOLEAN
    BY <1>0 DEF Init
  <2>2. req \in [Tabs -> Requests] /\ \A t \in Tabs : WellFormed(req[t])
    BY IdleTyped DEF Init
  <2>3. QED  BY <2>1, <2>2 DEF RequestTypes
<1>4. QED  BY <1>1, <1>2, <1>3 DEF Types

LEMMA StepTypes ==
  ASSUME Types, [Next]_vars
  PROVE  Types'
<1>1. CASE UNCHANGED vars
  BY <1>1 DEF vars, Types, GrantsType, RowsType, RequestTypes, grantVars, rowVars
<1>2. QED
  BY <1>1, RouteTypes, ReadGrantTypes, RevokeUnreadableTypes, RefreshGrantTypes, StoreRefreshedTypes,
     CallTypes, PersistTypes, LastStepTypes, WorldTypes DEF Next, Attempt

\* Whatever tabs, faults and sign-outs do, every row, grant and request is well formed:
\* no write makes an object, and no grant a pair, that Toolhub has not issued.
THEOREM WellFormedRows == Spec => []TypeOK
<1>1. Types /\ [Next]_vars => Types'
  BY StepTypes
<1>2. Types => TypeOK
  BY DEF Types, TypeOK
<1>3. QED  BY InitTypes, <1>1, <1>2, PTL DEF Spec

---------------------------------------------------------------------------
(* Signing out.                                                            *)

\* A sign-out is two transactions: from the first of them on there is no grant but one
\* of a sign-in that came in between.
NoneBehind == (~signed \/ leaving > 0) /\ ~crossed => grant = NoGrant

LEMMA NoneBehindStep ==
  ASSUME NoneBehind, [Next]_vars
  PROVE  NoneBehind'
<1>1. CASE UNCHANGED <<grant, signed, leaving, crossed>>
  BY <1>1 DEF NoneBehind
<1>2. ASSUME NEW t \in Tabs, Route(t)
      PROVE  UNCHANGED grantVars
  BY <1>2 DEF Route, WriteTool, DeleteTool, RetryTool, DiscardTool, Annotate, WriteList, DeleteList,
              RetryList, DiscardList, AddCrawlerUrl, DeleteCrawlerUrl, RetryCrawlerUrl,
              DiscardCrawlerUrl, AddFavorite, DeleteFavorite, RetryFavorite, DiscardFavorite,
              DeleteEvolvedData, Writes, Deletes, Retry, Discard, Asks
<1>3. ASSUME NEW t \in Tabs, Attempt(t)
      PROVE  NoneBehind'
  <2>1. CASE RevokeUnreadable(t)
    BY <2>1 DEF RevokeUnreadable, Revoke, NoneBehind
  <2>2. CASE StoreRefreshed(t)
    BY <2>2 DEF StoreRefreshed, SaveGrant, Keeps, NoneBehind
  <2>3. CASE RefreshGrant(t)
    BY <2>3 DEF RefreshGrant, Renew, NoneBehind, grantVars
  <2>4. CASE ReadGrant(t) \/ Call(t) \/ Persist(t) \/ Refuse(t)
    BY <1>1, <2>4 DEF ReadGrant, Call, Persist, Refuse, grantVars
  <2>5. QED  BY <1>3, <2>1, <2>2, <2>3, <2>4 DEF Attempt
<1>4. ASSUME NEW t \in Tabs, Kill(t)
      PROVE  NoneBehind'
  BY <1>1, <1>4 DEF Kill, grantVars
<1>5. CASE SignIn
  BY <1>5 DEF SignIn, Login, NoneBehind
<1>6. CASE SignOut
  BY <1>6 DEF SignOut, Forget, Strand, NoneBehind
<1>7. CASE Upsets
  BY <1>7 DEF Upsets, Expires, RotateKey, Withdraw, NoneBehind
<1>8. CASE UNCHANGED vars
  BY <1>1, <1>8 DEF vars, grantVars
<1>9. QED  BY <1>1, <1>2, <1>3, <1>4, <1>5, <1>6, <1>7, <1>8 DEF Next, grantVars

\* Whichever refresh, retry or second tab is under way when a user signs out, no grant of
\* his is left or written afterwards, but that of a sign-in between a sign-out's two steps.
THEOREM NothingLeftBehind == Spec => []SignedOutForgets
<1>1. Init => NoneBehind
  BY DEF Init, GrantsInit, NoneBehind
<1>2. NoneBehind /\ [Next]_vars => NoneBehind'
  BY NoneBehindStep
<1>3. NoneBehind => SignedOutForgets
  BY DEF NoneBehind, SignedOutForgets
<1>4. QED  BY <1>1, <1>2, <1>3, PTL DEF Spec

---------------------------------------------------------------------------
(* One tab: what the user was told is kept.                                *)

Alone == \A s, t \in Tabs : s = t

\* What a request carries: a retry what its row still holds, another write the newest
\* content there is; and what Toolhub accepted counts as settled.
Carried(q) ==
    /\ q.op = "retry" => q.how # "DELETE" /\ Held(q.kind) /\ row[q.kind].val = q.val
    /\ q.op # "retry" /\ q.how # "DELETE" => q.val = wrote /\ wrote > 0
    /\ q.step = "accepted" /\ q.how # "DELETE" => settled[Group(q.kind)] >= q.val
    /\ q.val <= wrote
CarriedAll == \A t \in Tabs : req[t].step # "idle" => Carried(req[t])
ToldWritten == \A g \in Groups : told[g] <= wrote
RowsWritten == \A k \in Kinds : row[k].val <= wrote
KeptInv == ToldWritten /\ RowsWritten /\ CarriedAll /\ WorkKept

\* Rows, what was told and what is settled stay; only where the request is changes, and
\* it has not just been accepted.
LEMMA MovesKept ==
  ASSUME Types, KeptInv, NEW t \in Tabs, NEW q,
         UNCHANGED <<row, wrote, told, settled>>,
         req' = [req EXCEPT ![t] = q],
         q.step # "idle" =>
           /\ req[t].step # "idle"
           /\ q.op = req[t].op /\ q.kind = req[t].kind /\ q.how = req[t].how /\ q.val = req[t].val
           /\ q.step # "accepted"
  PROVE  KeptInv'
<1>1. ToldWritten' /\ RowsWritten' /\ WorkKept'
  BY DEF KeptInv, ToldWritten, RowsWritten, WorkKept, Held
<1>2. CarriedAll'
  BY DEF KeptInv, CarriedAll, Carried, Held, Types, RequestTypes
<1>3. QED  BY <1>1, <1>2 DEF KeptInv

LEMMA WritesKept ==
  ASSUME Types, KeptInv, Alone, NEW t \in Tabs, NEW op \in Ops \ {"retry"}, NEW kind \in Kinds,
         NEW how \in Hows, NEW id, Writes(t, op, kind, how, id)
  PROVE  KeptInv'
<1>1. /\ UNCHANGED <<row, told, settled>> /\ wrote' = wrote + 1 /\ wrote \in Nat
      /\ req' = [req EXCEPT ![t] = Request(op, kind, how, wrote + 1, id)]
  BY DEF Writes, Asks, rowVars, Types, RequestTypes
<1>2. ToldWritten' /\ RowsWritten' /\ WorkKept'
  BY <1>1 DEF KeptInv, ToldWritten, RowsWritten, WorkKept, Held, Types, RequestTypes, RowsType, RowSet
<1>3. CarriedAll'
  <2>1. \A s \in Tabs : s = t
    BY DEF Alone
  <2>2. req'[t] = Request(op, kind, how, wrote + 1, id)
    BY <1>1 DEF Types, RequestTypes
  <2>3. QED  BY <1>1, <2>1, <2>2 DEF CarriedAll, Carried, Request
<1>4. QED  BY <1>2, <1>3 DEF KeptInv

LEMMA DeletesKept ==
  ASSUME Types, KeptInv, Alone, NEW t \in Tabs, NEW kind \in Kinds, NEW id, Deletes(t, kind, id)
  PROVE  KeptInv'
<1>1. /\ UNCHANGED <<row, told, settled, wrote>>
      /\ req' = [req EXCEPT ![t] = Request("delete", kind, "DELETE", 0, id)]
  BY DEF Deletes, Asks, rowVars
<1>2. ToldWritten' /\ RowsWritten' /\ WorkKept'
  BY <1>1 DEF KeptInv, ToldWritten, RowsWritten, WorkKept, Held
<1>3. CarriedAll'
  <2>1. \A s \in Tabs : s = t
    BY DEF Alone
  <2>2. req'[t] = Request("delete", kind, "DELETE", 0, id)
    BY <1>1 DEF Types, RequestTypes
  <2>3. 0 <= wrote'
    BY <1>1 DEF Types, RequestTypes
  <2>4. QED  BY <1>1, <2>1, <2>2, <2>3 DEF CarriedAll, Carried, Request
<1>4. QED  BY <1>2, <1>3 DEF KeptInv

LEMMA RetryKept ==
  ASSUME Types, KeptInv, Alone, NEW t \in Tabs, NEW k \in Kinds, NEW how \in {"POST", "PUT"}, NEW id,
         Retry(t, k, how, id)
  PROVE  KeptInv'
<1>1. /\ UNCHANGED <<row, told, settled, wrote>> /\ Held(k)
      /\ req' = [req EXCEPT ![t] = Request("retry", k, how, row[k].val, id)]
  BY DEF Retry, Asks, rowVars
<1>2. ToldWritten' /\ RowsWritten' /\ WorkKept'
  BY <1>1 DEF KeptInv, ToldWritten, RowsWritten, WorkKept, Held
<1>3. CarriedAll'
  <2>1. \A s \in Tabs : s = t
    BY DEF Alone
  <2>2. req'[t] = Request("retry", k, how, row[k].val, id)
    BY <1>1 DEF Types, RequestTypes
  <2>3. row[k].val <= wrote
    BY DEF KeptInv, RowsWritten
  <2>4. QED  BY <1>1, <2>1, <2>2, <2>3 DEF CarriedAll, Carried, Request, Held
<1>4. QED  BY <1>2, <1>3 DEF KeptInv

LEMMA DiscardKept ==
  ASSUME Types, KeptInv, Alone, NEW t \in Tabs, NEW k \in Kinds, NEW rows, Discard(t, k, rows),
         \A j \in Kinds \ {k} : rows[j] = row[j],
         rows[k].val \in {0, row[k].val}
  PROVE  KeptInv'
<1>1. /\ row' = rows /\ settled' = Newer(settled, Group(k), row[k].val)
      /\ UNCHANGED <<req, told, wrote>> /\ req[t].step = "idle"
  BY DEF Discard, Guarded
<1>2. ToldWritten' /\ CarriedAll' /\ RowsWritten'
  BY <1>1 DEF KeptInv, ToldWritten, RowsWritten, CarriedAll, Alone, Types, RequestTypes
<1>3. Group(k) \in Groups /\ row[k].val \in Nat /\ \A g \in Groups : settled[g] \in Nat /\ told[g] \in Nat
  BY GroupTyped DEF Types, RowsType, RowSet, RequestTypes
<1>4. /\ settled'[Group(k)] >= row[k].val
      /\ \A g \in Groups : settled'[g] >= settled[g] /\ settled'[g] \in Nat
  BY <1>1, <1>3 DEF Newer, Types, RequestTypes
<1>5. WorkKept'
  <2> SUFFICES ASSUME NEW g \in Groups, told[g] > settled'[g]
               PROVE  \E j \in Kinds : Group(j) = g /\ Held(j)' /\ row'[j].val >= told[g]
    BY <1>1 DEF WorkKept
  <2>1. told[g] > settled[g]
    BY <1>3, <1>4
  <2>2. PICK j \in Kinds : Group(j) = g /\ Held(j) /\ row[j].val >= told[g]
    BY <2>1 DEF KeptInv, WorkKept
  <2>3. j # k
    BY <1>3, <1>4, <2>2
  <2>4. QED  BY <1>1, <2>2, <2>3 DEF Held
<1>6. QED  BY <1>2, <1>5 DEF KeptInv

LEMMA RouteKept ==
  ASSUME Types, KeptInv, Alone, NEW t \in Tabs, Route(t)
  PROVE  KeptInv'
<1>1. /\ \A k \in Drafts : k \in Kinds
      /\ {"new", "edits", "annos", "list", "crawler", "favorite"} \subseteq Kinds
      /\ {"create", "update", "annotate"} \subseteq Ops \ {"retry"} /\ {"POST", "PUT"} \subseteq Hows
  BY DEF Kinds, Drafts, Ops, Hows
<1>2. CASE WriteTool(t) \/ Annotate(t) \/ WriteList(t) \/ AddCrawlerUrl(t) \/ AddFavorite(t)
  <2>1. PICK op \in Ops \ {"retry"}, kind \in Kinds, how \in Hows, id \in {0, row["list"].id} :
            Writes(t, op, kind, how, id)
    BY <1>1, <1>2 DEF WriteTool, Annotate, WriteList, AddCrawlerUrl, AddFavorite
  <2>2. QED  BY <2>1, WritesKept
<1>3. CASE DeleteTool(t) \/ DeleteList(t) \/ DeleteCrawlerUrl(t) \/ DeleteFavorite(t)
  <2>1. PICK kind \in Kinds, id \in {0, row["list"].id, row["crawler"].id} : Deletes(t, kind, id)
    BY <1>1, <1>3 DEF DeleteTool, DeleteList, DeleteCrawlerUrl, DeleteFavorite
  <2>2. QED  BY <2>1, DeletesKept
<1>4. CASE RetryTool(t) \/ RetryList(t) \/ RetryCrawlerUrl(t) \/ RetryFavorite(t)
  <2>1. PICK kind \in Kinds, how \in {"POST", "PUT"}, id \in {0, row["list"].id} :
            Retry(t, kind, how, id)
    BY <1>1, <1>4 DEF RetryTool, RetryList, RetryCrawlerUrl, RetryFavorite
  <2>2. QED  BY <2>1, RetryKept
<1>5. CASE DiscardTool(t) \/ DiscardList(t) \/ DiscardCrawlerUrl(t) \/ DiscardFavorite(t)
  <2>1. \A k \in Kinds : /\ \A j \in Kinds \ {k} : Dropped({k})[j] = row[j]
                         /\ Dropped({k})[k].val = 0
    BY DEF Dropped, NoRow
  <2>2. /\ \A j \in Kinds \ {"list"} : [row EXCEPT !["list"].gone = TRUE][j] = row[j]
        /\ [row EXCEPT !["list"].gone = TRUE]["list"].val = row["list"].val
    BY DEF Types, RowsType, RowSet, Kinds
  <2>3. CASE DiscardList(t)
    BY <1>1, <2>2, <2>3, DiscardKept DEF DiscardList
  <2>4. CASE ~DiscardList(t)
    <3>1. PICK k \in Kinds : Discard(t, k, Dropped({k}))
      BY <1>1, <1>5, <2>4 DEF DiscardTool, DiscardCrawlerUrl, DiscardFavorite
    <3>2. QED  BY <2>1, <3>1, DiscardKept
  <2>5. QED  BY <2>3, <2>4
<1>6. CASE DeleteEvolvedData(t)
  <2>1. /\ settled' = [g \in Groups |-> wrote] /\ UNCHANGED <<told, wrote, req>>
        /\ req[t].step = "idle" /\ \A k \in Kinds : row'[k].val = 0
    BY <1>6 DEF DeleteEvolvedData, Guarded, Dropped, NoRow
  <2>2. \A g \in Groups : ~(told[g] > wrote)
    BY DEF KeptInv, ToldWritten, Types, RequestTypes
  <2>3. QED
    BY <2>1, <2>2 DEF KeptInv, ToldWritten, RowsWritten, CarriedAll, WorkKept, Alone, Types, RequestTypes
<1>7. QED  BY <1>2, <1>3, <1>4, <1>5, <1>6 DEF Route

\* What Toolhub accepts settles its content; a deletion settles what it takes along.
LEMMA AcceptedKept ==
  ASSUME Types, KeptInv, Alone, NEW t \in Tabs, Call(t), Accepted(t)
  PROVE  KeptInv'
<1> DEFINE q == req[t]
           g == Group(q.kind)
<1>1. /\ q \in Requests /\ q.step = "call" /\ q.kind \in Kinds /\ q.how \in Hows /\ g \in Groups
      /\ q.val \in Nat /\ wrote \in Nat
      /\ \A x \in Groups : settled[x] \in Nat /\ told[x] \in Nat
  BY GroupTyped DEF Types, RequestTypes, Call, WellFormed, Requests
<1>2. UNCHANGED <<row, told, wrote>>
  BY DEF Call
<1>3. \A x \in Groups : settled'[x] >= settled[x] \/ settled'[x] = wrote
  BY <1>1 DEF Accepted, LetGo, Newer, Types, RequestTypes
<1>4. \A x \in Groups : settled'[x] \in Nat /\ told[x] <= wrote
  BY <1>1 DEF Accepted, LetGo, Newer, Types, RequestTypes, KeptInv, ToldWritten
<1>5. q.how # "DELETE" => settled'[g] >= q.val
  BY <1>1 DEF Accepted, Newer, Types, RequestTypes
<1>6. ToldWritten' /\ RowsWritten'
  BY <1>2 DEF KeptInv, ToldWritten, RowsWritten
<1>7. CarriedAll'
  <2> DEFINE r == req'[t]
  <2>1. r.op = q.op /\ r.kind = q.kind /\ r.how = q.how /\ r.val = q.val
    <3>1. CASE req' = [req EXCEPT ![t].step = "accepted", ![t].new = OfficialId(req[t])]
      <4>1. r = [q EXCEPT !.step = "accepted", !.new = OfficialId(q)]
        BY <1>1, <3>1 DEF Types, RequestTypes, Requests
      <4>2. QED  BY <1>1, <4>1 DEF Requests
    <3>2. CASE req' = [req EXCEPT ![t].step = "failed", ![t].auth = FALSE]
      <4>1. r = [q EXCEPT !.step = "failed", !.auth = FALSE]
        BY <1>1, <3>2 DEF Types, RequestTypes, Requests
      <4>2. QED  BY <1>1, <4>1 DEF Requests
    <3>3. QED  BY <3>1, <3>2 DEF Accepted, Fails
  <2>2. Carried(q)
    BY <1>1 DEF KeptInv, CarriedAll
  <2>3. Carried(req[t])'
    BY <1>2, <1>5, <2>1, <2>2 DEF Carried, Held
  <2>4. QED  BY <2>3 DEF CarriedAll, Alone
<1>8. WorkKept'
  <2> SUFFICES ASSUME NEW x \in Groups, told[x] > settled'[x]
               PROVE  \E k \in Kinds : Group(k) = x /\ Held(k) /\ row[k].val >= told[x]
    BY <1>2 DEF WorkKept, Held
  <2>1. told[x] > settled[x]
    BY <1>1, <1>3, <1>4
  <2>2. QED  BY <2>1 DEF KeptInv, WorkKept
<1>9. QED  BY <1>6, <1>7, <1>8 DEF KeptInv

\* Which rows the end of a request touches.
LEMMA PersistTouches ==
  ASSUME Types, KeptInv, NEW t \in Tabs, Persist(t), NEW k \in Kinds, row'[k] # row[k]
  PROVE  /\ Group(k) = Group(req[t].kind)
            \/ (req[t].how = "DELETE" /\ Group(req[t].kind) = "tool" /\ Group(k) = "annos")
         /\ req[t].how # "DELETE" /\ (req[t].op = "retry" \/ req[t].step = "failed") =>
                k = req[t].kind
<1> DEFINE q == req[t]
<1>1. q.kind \in Kinds /\ q.how \in Hows /\ q.op \in Ops /\ Carried(q)
  BY DEF Types, RequestTypes, Persist, WellFormed, KeptInv, CarriedAll
<1>2. \A ks : k \notin ks => Dropped(ks)[k] = row[k]
  BY DEF Dropped
<1>3. \A status, val, id : k # q.kind => Stored(q.kind, status, val, id)[k] = row[k]
  BY DEF Stored, Types, RowsType
<1>4. CASE q.step = "accepted" /\ OnSuccess(q)
  <2>1. CASE q.how = "DELETE" /\ q.kind \in Numbered
    <3>1. k = q.kind
      BY <1>4, <2>1 DEF OnSuccess, AfterSuccess, Types, RowsType
    <3>2. QED  BY <2>1, <3>1
  <2>2. CASE ~(q.how = "DELETE" /\ q.kind \in Numbered) /\ (q.kind \in Drafts \/ q.how = "DELETE")
    <3>1. k \in DropsOnSuccess(q)
      BY <1>2, <1>4, <2>2 DEF OnSuccess, AfterSuccess
    <3>2. QED  BY <1>1, <1>4, <2>2, <3>1 DEF DropsOnSuccess, Group, Drafts, Kinds, Hows, Numbered, Carried
  <2>3. CASE q.kind \notin Drafts /\ q.how # "DELETE"
    <3>1. k = q.kind
      BY <1>3, <1>4, <2>3 DEF OnSuccess, AfterSuccess
    <3>2. QED  BY <3>1
  <2>4. QED  BY <2>1, <2>2, <2>3
<1>5. CASE q.step = "failed" /\ OnFallback(q)
  <2>1. k = q.kind
    BY <1>2, <1>3, <1>5 DEF OnFallback, AfterFallback
  <2>2. QED  BY <2>1
<1>6. QED  BY <1>4, <1>5 DEF Persist

\* A failed write that is kept holds its content afterwards.
LEMMA FallbackHolds ==
  ASSUME Types, NEW k \in Kinds, NEW q, q.kind = k, q.how # "DELETE", OnFallback(q)
  PROVE  Held(k)' /\ row'[k].val = q.val
  BY DEF OnFallback, AfterFallback, Draft, Stored, Synced, Held, Types, RowsType

LEMMA PersistVals ==
  ASSUME Types, NEW t \in Tabs, Persist(t), NEW k \in Kinds
  PROVE  row'[k].val \in {0, row[k].val, req[t].val}
<1> DEFINE q == req[t]
<1>1. q.kind \in Kinds
  BY DEF Types, RequestTypes, Persist, WellFormed
<1>2. \A ks : Dropped(ks)[k].val \in {0, row[k].val}
  BY DEF Dropped, NoRow
<1>3. \A status, id : Stored(q.kind, status, q.val, id)[k].val \in {row[k].val, q.val}
  BY <1>1 DEF Stored, Types, RowsType
<1>4. [row EXCEPT ![q.kind].gone = TRUE, ![q.kind].status = "official"][k].val = row[k].val
  BY <1>1 DEF Types, RowsType, RowSet
<1>5. CASE OnSuccess(q)
  BY <1>2, <1>3, <1>4, <1>5 DEF OnSuccess, AfterSuccess
<1>6. CASE OnFallback(q)
  BY <1>2, <1>3, <1>6 DEF OnFallback, AfterFallback, Draft
<1>7. QED  BY <1>5, <1>6 DEF Persist

LEMMA PersistKept ==
  ASSUME Types, KeptInv, Alone, NEW t \in Tabs, Persist(t)
  PROVE  KeptInv'
<1> DEFINE q == req[t]
           g == Group(q.kind)
<1>1. /\ q.kind \in Kinds /\ q.how \in Hows /\ q.op \in Ops /\ q.val \in Nat /\ g \in Groups
      /\ Carried(q) /\ q.val <= wrote /\ wrote \in Nat
      /\ \A x \in Groups : settled[x] \in Nat /\ told[x] \in Nat /\ told[x] <= wrote
  BY GroupTyped DEF Types, RequestTypes, Persist, WellFormed, KeptInv, CarriedAll, Carried, ToldWritten,
                    Requests
<1>2. /\ told'[g] = (IF q.val > told[g] THEN q.val ELSE told[g])
      /\ \A x \in Groups \ {g} : told'[x] = told[x]
      /\ UNCHANGED wrote
  BY <1>1 DEF Persist, Newer, Types, RequestTypes
<1>3. /\ q.how = "DELETE" => /\ settled'[g] = wrote
                             /\ g = "tool" => settled'["annos"] = wrote
                             /\ \A x \in Groups : settled'[x] \in {settled[x], wrote}
      /\ q.how # "DELETE" => settled' = settled
  BY <1>1 DEF Persist, LetGo, Groups
<1>4. ToldWritten'
  BY <1>1, <1>2 DEF ToldWritten
<1>5. RowsWritten'
  <2>1. \A k \in Kinds : row[k].val <= wrote /\ row'[k].val \in {0, row[k].val, q.val}
    BY PersistVals DEF KeptInv, RowsWritten
  <2>2. QED  BY <1>1, <1>2, <2>1 DEF RowsWritten
<1>6. CarriedAll'
  <2>1. req'[t].step = "idle"
    BY DEF Persist, Answered, Idle, Types, RequestTypes
  <2>2. QED  BY <2>1 DEF CarriedAll, Alone
<1>7. WorkKept'
  <2> SUFFICES ASSUME NEW x \in Groups, told'[x] > settled'[x]
               PROVE  \E k \in Kinds : Group(k) = x /\ Held(k)' /\ row'[k].val >= told'[x]
    BY DEF WorkKept
  <2>1. \A k \in Kinds : row'[k] = row[k] /\ Held(k) => Held(k)'
    BY DEF Held
  \* Whatever survives of an older promise is in a row the request did not touch.
  <2>2. CASE q.how = "DELETE" \/ x # g
    <3>1. x # g /\ ~(q.how = "DELETE" /\ g = "tool" /\ x = "annos")
      BY <1>1, <1>2, <1>3, <2>2
    <3>2. told'[x] = told[x] /\ told[x] > settled[x]
      BY <1>1, <1>2, <1>3, <3>1
    <3>3. PICK k \in Kinds : Group(k) = x /\ Held(k) /\ row[k].val >= told[x]
      BY <3>2 DEF KeptInv, WorkKept
    <3>4. row'[k] = row[k]
      BY <3>1, <3>3, PersistTouches
    <3>5. QED  BY <2>1, <3>2, <3>3, <3>4
  <2>3. CASE q.how # "DELETE" /\ x = g /\ told[g] > q.val
    <3>1. told'[g] = told[g] /\ told[g] > settled[g]
      BY <1>1, <1>2, <1>3, <2>3
    <3>2. q.op = "retry" /\ row[q.kind].val = q.val
      BY <1>1, <2>3 DEF Carried
    <3>3. PICK k \in Kinds : Group(k) = g /\ Held(k) /\ row[k].val >= told[g]
      BY <1>1, <3>1 DEF KeptInv, WorkKept
    <3>4. row[k].val \in Nat
      BY DEF Types, RowsType, RowSet
    <3>5. k # q.kind
      BY <1>1, <2>3, <3>2, <3>3, <3>4
    <3>6. row'[k] = row[k]
      BY <2>3, <3>2, <3>5, PersistTouches
    <3>7. QED  BY <2>1, <2>3, <3>1, <3>3, <3>6
  <2>4. CASE q.how # "DELETE" /\ x = g /\ ~(told[g] > q.val)
    <3>1. told'[g] = q.val
      BY <1>1, <1>2, <2>4
    <3>2. q.step # "accepted"
      BY <1>1, <1>3, <2>4, <3>1 DEF Carried
    <3>3. PICK k \in Kinds : k = q.kind
      BY <1>1
    <3>4. Held(k)' /\ row'[k].val = q.val
      BY <2>4, <3>2, <3>3, FallbackHolds DEF Persist
    <3>5. QED  BY <1>1, <2>4, <3>1, <3>3, <3>4
  <2>5. QED  BY <2>2, <2>3, <2>4
<1>8. QED  BY <1>4, <1>5, <1>6, <1>7 DEF KeptInv

LEMMA StepKept ==
  ASSUME Types, KeptInv, Alone, [Next]_vars
  PROVE  KeptInv'
<1>1. CASE UNCHANGED <<row, req, wrote, told, settled>>
  BY <1>1 DEF KeptInv, ToldWritten, RowsWritten, CarriedAll, Carried, WorkKept, Held
<1>2. ASSUME NEW t \in Tabs, ReadGrant(t) \/ RevokeUnreadable(t) \/ RefreshGrant(t) \/ StoreRefreshed(t)
                             \/ Refuse(t) \/ Kill(t) \/ (Call(t) /\ ~Accepted(t))
      PROVE  KeptInv'
  <2>1. UNCHANGED <<row, wrote, told, settled>>
    BY <1>2 DEF ReadGrant, RevokeUnreadable, RefreshGrant, StoreRefreshed, Refuse, Kill, Call, Rejected,
                rowVars
  <2>2. req[t] \in Requests /\ req[t].step # "idle"
    BY <1>2 DEF ReadGrant, RevokeUnreadable, RefreshGrant, StoreRefreshed, Refuse, Kill, Call,
                Types, RequestTypes
  <2>3. CASE Answered(t)
    BY <2>1, <2>3, MovesKept DEF Answered, Idle
  <2>4. CASE Fails(t, TRUE) \/ Fails(t, FALSE)
    <3>1. PICK auth \in BOOLEAN : req' = [req EXCEPT ![t] = [req[t] EXCEPT !.step = "failed", !.auth = auth]]
      BY <2>2, <2>4 DEF Fails, Types, RequestTypes, Requests
    <3> DEFINE r == [req[t] EXCEPT !.step = "failed", !.auth = auth]
    <3>2. r.step = "failed" /\ r.op = req[t].op /\ r.kind = req[t].kind /\ r.how = req[t].how /\ r.val = req[t].val
      BY <2>2 DEF Requests
    <3>3. QED  BY <2>1, <2>2, <3>1, <3>2, MovesKept
  <2>5. CASE Goes(t, "call")
    <3> DEFINE r == [req[t] EXCEPT !.step = "call"]
    <3>1. r.step = "call" /\ r.op = req[t].op /\ r.kind = req[t].kind /\ r.how = req[t].how /\ r.val = req[t].val
      BY <2>2 DEF Requests
    <3>2. QED  BY <2>1, <2>2, <2>5, <3>1, MovesKept DEF Goes
  <2>6. CASE ReadGrant(t)
    <3>1. CASE GrantStep = "reauth"
      BY <2>3, <2>6, <3>1 DEF ReadGrant, Answered
    <3>2. CASE GrantStep # "reauth"
      <4> DEFINE r == [req[t] EXCEPT !.step = GrantStep, !.pair = grant.pair]
      <4>1. /\ r.step = GrantStep /\ GrantStep # "accepted" /\ req' = [req EXCEPT ![t] = r]
            /\ r.op = req[t].op /\ r.kind = req[t].kind /\ r.how = req[t].how /\ r.val = req[t].val
        BY <2>2, <2>6, <3>2 DEF Requests, ReadGrant, GrantStep
      <4>2. QED  BY <2>1, <2>2, <4>1, MovesKept
    <3>3. QED  BY <3>1, <3>2
  <2>7. CASE RefreshGrant(t) /\ req' = [req EXCEPT ![t].step = "save", ![t].pair = issued']
    <3> DEFINE r == [req[t] EXCEPT !.step = "save", !.pair = issued']
    <3>1. req' = [req EXCEPT ![t] = r]
      BY <2>2, <2>7 DEF Types, RequestTypes, Requests
    <3>2. r.step = "save" /\ r.op = req[t].op /\ r.kind = req[t].kind /\ r.how = req[t].how /\ r.val = req[t].val
      BY <2>2 DEF Requests
    <3>3. QED  BY <2>1, <2>2, <3>1, <3>2, MovesKept
  <2>8. QED
    BY <1>2, <2>3, <2>4, <2>5, <2>6, <2>7 DEF RevokeUnreadable, RefreshGrant, StoreRefreshed, Refuse, Kill,
                                              Call, Rejected
<1>3. CASE SignIn \/ SignOut \/ Upsets
  BY <1>1, <1>3 DEF SignIn, SignOut, Upsets, rowVars
<1>4. CASE UNCHANGED vars
  BY <1>1, <1>4 DEF vars, rowVars
<1>5. QED
  BY <1>2, <1>3, <1>4, RouteKept, AcceptedKept, PersistKept DEF Next, Attempt

\* A user with one tab never loses what he was told is kept: it is in a row until Toolhub
\* took it or something newer, or he let go of it, through any failure, retry and kill.
THEOREM NoWorkLost == ASSUME Alone PROVE Spec => []WorkKept
<1>1. Init => KeptInv
  BY DEF Init, RowsInit, KeptInv, ToldWritten, RowsWritten, CarriedAll, WorkKept, Idle, NoRow
<1>2. Types /\ KeptInv /\ [Next]_vars => KeptInv'
  BY StepKept
<1>3. KeptInv => WorkKept
  BY DEF KeptInv
<1>4. Types /\ [Next]_vars => Types'
  BY StepTypes
<1>5. QED  BY InitTypes, <1>1, <1>2, <1>3, <1>4, PTL DEF Spec

---------------------------------------------------------------------------
(* One tab: the rows say what Toolhub has.                                 *)

\* Nothing is ahead of what was written, and what is held was written.
Contents ==
    /\ \A o \in Objects : official[o] <= wrote
    /\ \A k \in Kinds : Held(k) => row[k].val > 0
\* The two drafts that may stand for one tool differ: one's acceptance is not the other's.
Apart == ~lost /\ Held("new") /\ Held("edits") => row["new"].val # row["edits"].val
\* A new content is newer than all there is, here or at Toolhub, until it is accepted.
Fresh(v) == (\A o \in Objects : official[o] < v) /\ (\A k \in Kinds : row[k].val < v)
FreshAll == \A t \in Tabs :
    req[t].step \notin {"idle", "accepted"} /\ req[t].op # "retry" /\ req[t].how # "DELETE" /\ ~lost =>
        Fresh(req[t].val)
\* Rows agree at every step but one: between the acceptance and the transaction that ends
\* the request it is the rows that transaction will leave that agree.
AgreeingAll == ~lost =>
    /\ (\A t \in Tabs : req[t].step # "accepted") => Agreeing(row)
    /\ \A t \in Tabs : req[t].step = "accepted" => Agreeing(AfterSuccess(req[t]))
TruthInv == Contents /\ Apart /\ FreshAll /\ AgreeingAll

LEMMA ObjectFacts ==
  /\ Tool \in Objects /\ Annos \in Objects /\ <<0, "favorite">> \in Objects
  /\ \A i \in Ids, k \in Numbered : <<i, k>> \in Objects
  /\ \A k \in Drafts : <<0, Group(k)>> \in Objects
  BY DEF Objects, Tool, Annos, Drafts, Group

LEMMA KindFacts == Numbered \subseteq Kinds /\ Drafts \subseteq Kinds /\ "favorite" \in Kinds
  BY DEF Numbered, Drafts, Kinds

\* Fewer rows of the same content agree with Toolhub as the rows did.
LEMMA FewerAgree ==
  ASSUME Agreeing(row), UNCHANGED official,
         \A k \in Kinds : row'[k] = row[k] \/ row'[k].status = "none" \/ row'[k].gone
  PROVE  Agreeing(row)'
  BY KindFacts DEF Agreeing, Live

LEMMA FewerTrue ==
  ASSUME Types, TruthInv, UNCHANGED <<official, wrote, lost, req>>,
         \A t \in Tabs : req[t].step = "idle",
         \A k \in Kinds : row'[k] = row[k] \/ row'[k].status = "none" \/ row'[k].gone
  PROVE  TruthInv'
<1>1. Contents' /\ Apart'
  BY KindFacts DEF TruthInv, Contents, Apart, Held, Kinds, Drafts
<1>2. FreshAll'
  BY DEF FreshAll
<1>3. AgreeingAll'
  BY FewerAgree DEF TruthInv, AgreeingAll
<1>4. QED  BY <1>1, <1>2, <1>3 DEF TruthInv

\* The rows and Toolhub stay, and the request moves on without being accepted or, if it
\* had been, is lost.
LEMMA MovesTrue ==
  ASSUME Types, TruthInv, Alone, NEW t \in Tabs, NEW q,
         UNCHANGED <<row, official, wrote>>,
         req' = [req EXCEPT ![t] = q],
         lost' \/ (~lost /\ req[t].step # "accepted"),
         q.step # "idle" =>
           /\ req[t].step # "idle"
           /\ q.op = req[t].op /\ q.kind = req[t].kind /\ q.how = req[t].how /\ q.val = req[t].val
           /\ q.step # "accepted"
  PROVE  TruthInv'
<1>1. Contents' /\ Apart'
  BY DEF TruthInv, Contents, Apart, Held
<1>2. \A s \in Tabs : s = t /\ req'[s] = q
  BY DEF Alone, Types, RequestTypes
<1>3. FreshAll'
  BY <1>2 DEF TruthInv, FreshAll, Fresh
<1>4. AgreeingAll'
  <2> SUFFICES ASSUME ~lost' PROVE Agreeing(row)' /\ q.step # "accepted"
    BY <1>2 DEF AgreeingAll
  <2>1. Agreeing(row)
    BY <1>2 DEF TruthInv, AgreeingAll
  <2>2. Agreeing(row)'
    BY <2>1 DEF Agreeing, Live
  <2>3. QED  BY <2>2
<1>5. QED  BY <1>1, <1>3, <1>4 DEF TruthInv

\* A route that asks: the content of a write is ahead of everything.
LEMMA AsksTrue ==
  ASSUME Types, KeptInv, TruthInv, Alone, NEW t \in Tabs, NEW op, NEW kind, NEW how, NEW val, NEW id,
         req[t].step = "idle", Asks(t, op, kind, how, val, id),
         wrote' = wrote \/ wrote' = wrote + 1,
         how # "DELETE" /\ op # "retry" => val = wrote + 1
  PROVE  TruthInv'
<1>1. \A s \in Tabs : s = t /\ req'[s] = Request(op, kind, how, val, id)
  BY DEF Alone, Types, RequestTypes, Asks
<1>2. UNCHANGED <<row, official, lost>> /\ wrote \in Nat /\ \A o \in Objects : official[o] \in Nat
  BY DEF Asks, rowVars, Types, RequestTypes, RowsType
<1>3. Contents' /\ Apart'
  BY <1>2 DEF TruthInv, Contents, Apart, Held
<1>4. FreshAll'
  <2>1. PICK v : v = wrote + 1
    OBVIOUS
  <2>2. Fresh(v)'
    <3>1. \A k \in Kinds : row[k].val \in Nat
      BY DEF Types, RowsType, RowSet
    <3>2. QED  BY <1>2, <2>1, <3>1 DEF Fresh, TruthInv, Contents, KeptInv, RowsWritten
  <2>3. \A s \in Tabs : req'[s].op = op /\ req'[s].how = how /\ req'[s].val = val
    BY <1>1 DEF Request
  <2>4. \A s \in Tabs : req'[s].op # "retry" /\ req'[s].how # "DELETE" => req'[s].val = v
    BY <2>1, <2>3
  <2>5. QED  BY <2>2, <2>4 DEF FreshAll, Fresh
<1>5. AgreeingAll'
  <2> SUFFICES ASSUME ~lost' PROVE Agreeing(row)'
    BY <1>1 DEF AgreeingAll, Request
  <2>1. Agreeing(row)
    BY <1>1, <1>2 DEF TruthInv, AgreeingAll
  <2>2. QED  BY <1>2, <2>1 DEF Agreeing, Live
<1>6. QED  BY <1>3, <1>4, <1>5 DEF TruthInv

LEMMA RouteTrue ==
  ASSUME Types, KeptInv, TruthInv, Alone, NEW t \in Tabs, Route(t)
  PROVE  TruthInv'
<1>1. req[t].step = "idle" /\ \A s \in Tabs : req[s].step = "idle"
  BY DEF Alone, Route, WriteTool, DeleteTool, RetryTool, DiscardTool, Annotate, WriteList, DeleteList,
         RetryList, DiscardList, AddCrawlerUrl, DeleteCrawlerUrl, RetryCrawlerUrl, DiscardCrawlerUrl,
         AddFavorite, DeleteFavorite, RetryFavorite, DiscardFavorite, DeleteEvolvedData, Retry, Discard,
         Guarded
<1>2. CASE WriteTool(t) \/ Annotate(t) \/ WriteList(t) \/ AddCrawlerUrl(t) \/ AddFavorite(t)
  <2>1. \E op, kind, how, id : Writes(t, op, kind, how, id)
    BY <1>2 DEF WriteTool, Annotate, WriteList, AddCrawlerUrl, AddFavorite
  <2>2. QED  BY <1>1, <2>1, AsksTrue DEF Writes
<1>3. CASE DeleteTool(t) \/ DeleteList(t) \/ DeleteCrawlerUrl(t) \/ DeleteFavorite(t)
  <2>1. \E kind, id : Deletes(t, kind, id)
    BY <1>3 DEF DeleteTool, DeleteList, DeleteCrawlerUrl, DeleteFavorite
  <2>2. QED  BY <1>1, <2>1, AsksTrue DEF Deletes
<1>4. CASE RetryTool(t) \/ RetryList(t) \/ RetryCrawlerUrl(t) \/ RetryFavorite(t)
  <2>1. \E k, how, id : Retry(t, k, how, id)
    BY <1>4 DEF RetryTool, RetryList, RetryCrawlerUrl, RetryFavorite
  <2>2. QED  BY <1>1, <2>1, AsksTrue DEF Retry
<1>5. CASE DiscardTool(t) \/ DiscardList(t) \/ DiscardCrawlerUrl(t) \/ DiscardFavorite(t)
           \/ DeleteEvolvedData(t)
  <2>1. UNCHANGED <<official, wrote, lost, req>>
    BY <1>5 DEF DiscardTool, DiscardList, DiscardCrawlerUrl, DiscardFavorite, DeleteEvolvedData, Discard
  <2>2. (\E ks : row' = Dropped(ks)) \/ row' = [row EXCEPT !["list"].gone = TRUE]
    BY <1>5 DEF DiscardTool, DiscardList, DiscardCrawlerUrl, DiscardFavorite, DeleteEvolvedData, Discard
  <2>3. \A k \in Kinds : row'[k] = row[k] \/ row'[k].status = "none" \/ row'[k].gone
    BY <2>2 DEF Dropped, NoRow, Types, RowsType, RowSet
  <2>4. QED  BY <1>1, <2>1, <2>3, FewerTrue
<1>6. QED  BY <1>2, <1>3, <1>4, <1>5 DEF Route

---------------------------------------------------------------------------
(* What an accepted request does to the one object it is about.             *)

Target(q) == IF q.how = "POST" /\ q.kind \in Numbered THEN <<made + 1, q.kind>> ELSE Object(q)

LEMMA AcceptedTarget ==
  ASSUME RowsType, NEW q, q.kind \in Kinds, q.how \in Hows, Acceptable(q)
  PROVE  /\ Target(q) \in Objects
         /\ q.kind \in Drafts => Target(q) = <<0, Group(q.kind)>>
         /\ q.kind = "favorite" => Target(q) = <<0, "favorite">>
         /\ q.kind \in Numbered => \E i \in Ids : Target(q) = <<i, q.kind>>
<1>1. CASE q.kind \in Drafts
  <2>1. Target(q) = <<0, Group(q.kind)>>
    BY <1>1 DEF Target, Object, Numbered, Drafts
  <2>2. QED  BY <1>1, <2>1, ObjectFacts DEF Drafts, Numbered
<1>2. CASE q.kind = "favorite"
  <2>1. Target(q) = <<0, "favorite">>
    BY <1>2 DEF Target, Object, Numbered, Group
  <2>2. QED  BY <1>2, <2>1, ObjectFacts DEF Drafts, Numbered
<1>3. CASE q.kind \in Numbered /\ q.how = "POST"
  <2>1. made + 1 \in Ids
    BY <1>3 DEF Acceptable, Numbered, RowsType, Ids
  <2>2. QED  BY <1>3, <2>1, ObjectFacts DEF Target, Numbered, Drafts
<1>4. CASE q.kind \in Numbered /\ q.how # "POST"
  <2>1. Target(q) = <<q.id, q.kind>> /\ Object(q) = <<q.id, q.kind>>
    BY <1>4 DEF Target, Object, Group, Numbered
  <2>2. Object(q) \in Objects
    BY <1>4 DEF Acceptable, Numbered
  <2>3. q.id \in Ids
    BY <1>4, <2>1, <2>2 DEF Objects, Tool, Annos, Numbered
  <2>4. QED  BY <1>4, <2>1, <2>2, <2>3 DEF Numbered, Drafts
<1>5. QED  BY <1>1, <1>2, <1>3, <1>4 DEF Kinds, Numbered

LEMMA AppliedTarget ==
  ASSUME RowsType, NEW q, q.kind \in Kinds, q.how \in Hows, Acceptable(q), Apply(q)
  PROVE  /\ official'[Target(q)] = IF q.how = "DELETE" THEN 0 ELSE q.val
         /\ \A o \in Objects \ {Target(q)} :
                \/ official'[o] = official[o]
                \/ o = Annos /\ q.how = "DELETE" /\ q.kind = "edits" /\ official'[o] = 0
<1>1. Target(q) \in Objects
  BY AcceptedTarget
<1>2. CASE q.how = "POST" /\ q.kind \in Numbered
  BY <1>1, <1>2 DEF Apply, Target, RowsType
<1>3. CASE ~(q.how = "POST" /\ q.kind \in Numbered)
  <2>1. Target(q) = Object(q)
    BY <1>3 DEF Target
  <2>2. official' = [o \in Objects |-> IF o = Object(q) THEN IF q.how = "DELETE" THEN 0 ELSE q.val
                           ELSE IF o = Annos /\ q.how = "DELETE" /\ q.kind = "edits" THEN 0
                           ELSE official[o]]
    BY <1>3 DEF Apply
  <2>3. QED  BY <1>1, <2>1, <2>2
<1>4. QED  BY <1>2, <1>3


\* The heart of the matter: the rows that the transaction behind an accepted request will
\* leave agree with what Toolhub has from now on.
LEMMA AcceptedAgrees ==
  ASSUME Types, Agreeing(row), Apart, ~lost, NEW q, NEW r,
         q.kind \in Kinds, q.how \in Hows, Acceptable(q), Apply(q),
         r.op = q.op, r.kind = q.kind, r.how = q.how, r.val = q.val, r.id = q.id,
         r.new = OfficialId(q),
         q.op = "retry" => q.how # "DELETE" /\ Held(q.kind) /\ row[q.kind].val = q.val,
         q.how # "DELETE" => q.val \in Nat \ {0},
         NEW rows, rows = AfterSuccess(r)
  PROVE  Agreeing(rows)'
<1> DEFINE obj == Target(q)
<1>1. /\ obj \in Objects
      /\ q.kind \in Drafts => obj = <<0, Group(q.kind)>>
      /\ q.kind = "favorite" => obj = <<0, "favorite">>
      /\ q.kind \in Numbered => \E i \in Ids : obj = <<i, q.kind>>
  BY AcceptedTarget DEF Types
<1>2. /\ official'[obj] = IF q.how = "DELETE" THEN 0 ELSE q.val
      /\ \A o \in Objects \ {obj} :
             \/ official'[o] = official[o]
             \/ o = Annos /\ q.how = "DELETE" /\ q.kind = "edits" /\ official'[o] = 0
  BY AppliedTarget DEF Types
<1>3. \A ks : \A k \in Kinds : Dropped(ks)[k] = IF k \in ks THEN NoRow ELSE row[k]
  BY DEF Dropped
<1>4. ~(NoRow.status # "none")
  BY DEF NoRow
<1>5. \A k \in Kinds : row[k].val \in Nat
  BY DEF Types, RowsType, RowSet
\* What a row of another kind says is about another object.
<1>6. \A k \in Numbered \ {q.kind} :
          row[k].status = "official" /\ ~row[k].gone =>
              row[k].id \in Ids /\ row[k].val = official'[<<row[k].id, k>>]
  <2> SUFFICES ASSUME NEW k \in Numbered \ {q.kind}, row[k].status = "official", ~row[k].gone
               PROVE  row[k].id \in Ids /\ row[k].val = official'[<<row[k].id, k>>]
    OBVIOUS
  <2>1. row[k].id \in Ids /\ row[k].val = official[<<row[k].id, k>>]
    BY DEF Agreeing
  <2>2. <<row[k].id, k>> \in Objects
    BY <2>1, ObjectFacts
  <2>3. <<row[k].id, k>> # Annos
    BY DEF Numbered, Annos
  <2>4. <<row[k].id, k>> # obj
    <3>1. CASE q.kind \in Numbered
      BY <1>1, <3>1
    <3>2. CASE q.kind \in Drafts
      BY <1>1, <3>2 DEF Drafts, Numbered, Group
    <3>3. CASE q.kind = "favorite"
      BY <1>1, <3>3 DEF Numbered
    <3>4. QED  BY <3>1, <3>2, <3>3 DEF Kinds, Numbered
  <2>5. QED  BY <1>2, <2>1, <2>2, <2>3, <2>4
<1>7. \A k \in Drafts : row[k].status # "none" /\ ~row[k].gone /\ Group(k) # Group(q.kind) =>
          row[k].val # official'[<<0, Group(k)>>] \/ (q.how = "DELETE" /\ q.kind = "edits")
  <2> SUFFICES ASSUME NEW k \in Drafts, row[k].status # "none", ~row[k].gone,
                      Group(k) # Group(q.kind), ~(q.how = "DELETE" /\ q.kind = "edits")
               PROVE  row[k].val # official'[<<0, Group(k)>>]
    OBVIOUS
  <2>1. row[k].val # official[<<0, Group(k)>>]
    BY DEF Agreeing
  <2>2. <<0, Group(k)>> \in Objects /\ <<0, Group(k)>> # obj
    BY <1>1, ObjectFacts DEF Drafts, Kinds, Numbered, Group, Ids
  <2>3. QED  BY <1>2, <2>1, <2>2
<1>8. q.kind # "favorite" /\ row["favorite"].status = "official" /\ ~row["favorite"].gone =>
          official'[<<0, "favorite">>] # 0
  <2> SUFFICES ASSUME q.kind # "favorite", row["favorite"].status = "official", ~row["favorite"].gone
               PROVE  official'[<<0, "favorite">>] # 0
    OBVIOUS
  <2>1. official[<<0, "favorite">>] # 0
    BY DEF Agreeing, Live
  <2>2. <<0, "favorite">> \in Objects /\ <<0, "favorite">> # obj /\ <<0, "favorite">> # Annos
    BY <1>1, ObjectFacts DEF Drafts, Kinds, Numbered, Group, Ids, Annos
  <2>3. QED  BY <1>2, <2>1, <2>2
<1>9. CASE q.kind \in Drafts
  <2>1. rows = Dropped(DropsOnSuccess(r))
    BY <1>9 DEF AfterSuccess, Drafts, Numbered
  <2>2. q.kind \notin Numbered /\ q.kind # "favorite" /\ \A k \in Numbered : k \in Kinds /\ k # q.kind
    BY <1>9 DEF Drafts, Numbered, Kinds
  <2>3. \A k \in Kinds : rows[k] = NoRow \/ rows[k] = row[k]
    BY <1>3, <2>1
  <2>4. \A k \in Drafts : rows[k].status # "none" /\ ~rows[k].gone =>
            rows[k].val # official'[<<0, Group(k)>>]
    <3> SUFFICES ASSUME NEW k \in Drafts, rows[k].status # "none", ~rows[k].gone
                 PROVE  rows[k].val # official'[<<0, Group(k)>>]
      OBVIOUS
    <3>1. k \notin DropsOnSuccess(r) /\ rows[k] = row[k]
      BY <1>3, <1>4, <2>1, KindFacts
    <3>2. CASE q.op = "retry"
      <4>1. k # q.kind /\ q.how # "DELETE"
        BY <3>1, <3>2 DEF DropsOnSuccess
      <4>2. CASE Group(k) = Group(q.kind)
        <5>1. row[k].val # row[q.kind].val
          BY <1>9, <3>1, <3>2, <4>1, <4>2 DEF Apart, Held, Drafts, Group
        <5>2. official'[<<0, Group(k)>>] = q.val
          BY <1>1, <1>2, <1>9, <4>1, <4>2
        <5>3. QED  BY <3>1, <3>2, <5>1, <5>2
      <4>3. CASE Group(k) # Group(q.kind)
        BY <1>7, <3>1, <4>1, <4>3
      <4>4. QED  BY <4>2, <4>3
    <3>3. CASE q.op # "retry"
      <4>1. Group(k) # Group(q.kind) /\ ~(q.how = "DELETE" /\ q.kind = "edits")
        BY <1>9, <3>1, <3>3 DEF DropsOnSuccess, Drafts, Group
      <4>2. QED  BY <1>7, <3>1, <4>1
    <3>4. QED  BY <3>2, <3>3
  <2>5. \A k \in Numbered : rows[k].status = "official" /\ ~rows[k].gone =>
            rows[k].id \in Ids /\ rows[k].val = official'[<<rows[k].id, k>>]
    BY <1>4, <1>6, <2>2, <2>3
  <2>6. rows["favorite"].status = "official" /\ ~rows["favorite"].gone => official'[<<0, "favorite">>] # 0
    BY <1>4, <1>8, <2>2, <2>3, KindFacts
  <2>7. QED  BY <2>4, <2>5, <2>6 DEF Agreeing, Live
<1>10. CASE q.kind = "favorite"
  <2>1. \A k \in Kinds \ {"favorite"} : rows[k] = row[k]
    BY <1>3, <1>10 DEF AfterSuccess, Drafts, Numbered, DropsOnSuccess, Stored, Types, RowsType
  <2>2. q.how = "DELETE" => rows["favorite"] = NoRow
    BY <1>3, <1>10, KindFacts DEF AfterSuccess, Drafts, Numbered, DropsOnSuccess
  <2>3. q.how # "DELETE" => official'[<<0, "favorite">>] # 0
    BY <1>1, <1>2, <1>10
  <2>4. "favorite" \notin Numbered \cup Drafts /\ Group("favorite") \notin {"tool", "annos"}
        /\ \A k \in Drafts : Group(k) \in {"tool", "annos"}
    BY DEF Numbered, Drafts, Group
  <2>5. \A k \in Drafts : rows[k].status # "none" /\ ~rows[k].gone =>
            rows[k].val # official'[<<0, Group(k)>>]
    BY <1>7, <1>10, <2>1, <2>4, KindFacts
  <2>6. \A k \in Numbered : rows[k].status = "official" /\ ~rows[k].gone =>
            rows[k].id \in Ids /\ rows[k].val = official'[<<rows[k].id, k>>]
    BY <1>6, <1>10, <2>1, <2>4, KindFacts
  <2>7. rows["favorite"].status = "official" => official'[<<0, "favorite">>] # 0
    BY <1>4, <2>2, <2>3
  <2>8. QED  BY <2>5, <2>6, <2>7 DEF Agreeing, Live
<1>11. CASE q.kind \in Numbered
  <2>1. \A k \in Kinds \ {q.kind} : rows[k] = row[k]
    BY <1>11 DEF AfterSuccess, Drafts, Numbered, Stored, Types, RowsType
  <2>2. q.kind \notin Drafts /\ q.kind # "favorite" /\ q.kind \in Kinds
        /\ \A k \in Drafts : Group(k) # Group(q.kind)
    BY <1>11 DEF Numbered, Drafts, Kinds, Group
  <2>3. \A k \in Drafts : rows[k].status # "none" /\ ~rows[k].gone =>
            rows[k].val # official'[<<0, Group(k)>>]
    BY <1>7, <2>1, <2>2, KindFacts DEF Drafts
  <2>4. rows["favorite"].status = "official" /\ ~rows["favorite"].gone => official'[<<0, "favorite">>] # 0
    BY <1>8, <2>1, <2>2, KindFacts
  <2>5. rows[q.kind].status = "official" /\ ~rows[q.kind].gone =>
            rows[q.kind].id \in Ids /\ rows[q.kind].val = official'[<<rows[q.kind].id, q.kind>>]
    <3>1. CASE q.how = "DELETE"
      <4>1. obj = <<q.id, q.kind>>
        BY <1>11, <3>1 DEF Target, Object, Group, Numbered
      <4>2. CASE row[q.kind].id = q.id
        BY <1>11, <3>1, <4>2 DEF AfterSuccess, Types, RowsType, RowSet
      <4>3. CASE row[q.kind].id # q.id
        <5>1. rows = row
          BY <1>11, <3>1, <4>3 DEF AfterSuccess
        <5>2. row[q.kind].status = "official" /\ ~row[q.kind].gone =>
                  /\ row[q.kind].id \in Ids /\ row[q.kind].val = official[<<row[q.kind].id, q.kind>>]
                  /\ <<row[q.kind].id, q.kind>> \in Objects
          BY <1>11, ObjectFacts DEF Agreeing
        <5>3. <<row[q.kind].id, q.kind>> # obj /\ q.kind # "edits"
          BY <1>11, <4>1, <4>3 DEF Numbered
        <5>4. QED  BY <1>2, <5>1, <5>2, <5>3
      <4>4. QED  BY <4>2, <4>3
    <3>2. CASE q.how # "DELETE"
      <4>1. obj = <<OfficialId(q), q.kind>>
        BY <1>11, <3>2 DEF Target, Object, Group, Numbered, OfficialId, Apply
      <4>2. OfficialId(q) \in Ids
        BY <1>1, <1>11, <4>1
      <4>3. rows = Stored(q.kind, "official", q.val, OfficialId(q))
        BY <1>11, <2>2, <3>2 DEF AfterSuccess
      <4>4. rows[q.kind].val = q.val /\ rows[q.kind].id = OfficialId(q)
        BY <2>2, <4>3 DEF Stored, Types, RowsType
      <4>5. QED  BY <1>2, <3>2, <4>1, <4>2, <4>4
    <3>3. QED  BY <3>1, <3>2
  <2>6. \A k \in Numbered : rows[k].status = "official" /\ ~rows[k].gone =>
            rows[k].id \in Ids /\ rows[k].val = official'[<<rows[k].id, k>>]
    BY <1>6, <2>1, <2>5, KindFacts
  <2>7. QED  BY <2>3, <2>4, <2>6 DEF Agreeing, Live
<1>12. QED  BY <1>9, <1>10, <1>11 DEF Kinds, Numbered

\* What a request under way carries is a content, not the absence of one.
LEMMA CarriesContent ==
  ASSUME Types, KeptInv, Contents, NEW t \in Tabs, req[t].step # "idle"
  PROVE  /\ req[t].kind \in Kinds /\ req[t].how \in Hows /\ req[t].op \in Ops /\ req[t].val \in Nat
         /\ Carried(req[t])
         /\ req[t].how # "DELETE" => req[t].val > 0
<1>1. req[t].kind \in Kinds /\ req[t].how \in Hows /\ req[t].op \in Ops /\ req[t].val \in Nat
  BY DEF Types, RequestTypes, WellFormed, Requests
<1>2. Carried(req[t])
  BY DEF KeptInv, CarriedAll
<1>3. req[t].how # "DELETE" => req[t].val > 0
  BY <1>1, <1>2 DEF Carried, Contents
<1>4. QED  BY <1>1, <1>2, <1>3

LEMMA AcceptedTrue ==
  ASSUME Types, KeptInv, TruthInv, Alone, NEW t \in Tabs, Call(t), Accepted(t)
  PROVE  TruthInv'
<1>1. /\ UNCHANGED <<row, wrote>> /\ req[t].step = "call" /\ \A s \in Tabs : s = t
      /\ Acceptable(req[t]) /\ Apply(req[t])
  BY DEF Call, Accepted, Alone
<1>2. /\ req[t].kind \in Kinds /\ req[t].how \in Hows /\ req[t].val \in Nat
      /\ Carried(req[t])
      /\ req[t].how # "DELETE" => req[t].val > 0
  BY <1>1, CarriesContent DEF TruthInv
<1>3. PICK q : q = req[t]
  OBVIOUS
<1>4. Contents'
  <2>1. /\ official'[Target(q)] = IF q.how = "DELETE" THEN 0 ELSE q.val
        /\ \A o \in Objects \ {Target(q)} :
               \/ official'[o] = official[o]
               \/ o = Annos /\ q.how = "DELETE" /\ q.kind = "edits" /\ official'[o] = 0
    BY <1>1, <1>2, <1>3, AppliedTarget DEF Types
  <2>2. q.val <= wrote /\ wrote \in Nat /\ \A o \in Objects : official[o] <= wrote
    BY <1>2, <1>3 DEF Carried, Types, RequestTypes, TruthInv, Contents
  <2>3. \A o \in Objects : official'[o] <= wrote
    BY <1>2, <1>3, <2>1, <2>2
  <2>4. QED  BY <1>1, <2>3 DEF TruthInv, Contents, Held
<1>5. CASE lost'
  BY <1>1, <1>4, <1>5 DEF TruthInv, Apart, FreshAll, AgreeingAll
<1>6. CASE ~lost'
  <2>1. ~lost /\ req' = [req EXCEPT ![t].step = "accepted", ![t].new = OfficialId(req[t])]
    <3>1. lost' # TRUE
      BY <1>6
    <3>2. req' = [req EXCEPT ![t].step = "accepted", ![t].new = OfficialId(req[t])] /\ lost' = lost
      BY <3>1 DEF Accepted
    <3>3. QED  BY <1>6, <3>2
  <2>2. PICK id : id = OfficialId(q)
    OBVIOUS
  <2>3. PICK r : r = [q EXCEPT !.step = "accepted", !.new = id]
    OBVIOUS
  <2>4. /\ r.step = "accepted" /\ r.op = q.op /\ r.kind = q.kind /\ r.how = q.how /\ r.val = q.val
        /\ r.id = q.id /\ r.new = id /\ req'[t] = r
    <3>1. q \in Requests
      BY <1>3 DEF Types, RequestTypes
    <3>2. req'[t] = r
      BY <1>3, <2>1, <2>2, <2>3 DEF Types, RequestTypes
    <3>3. QED  BY <2>3, <3>1, <3>2 DEF Requests
  <2>5. Agreeing(row)
    BY <1>1, <2>1 DEF TruthInv, AgreeingAll
  <2>6. PICK rows : rows = AfterSuccess(r)
    OBVIOUS
  <2>7. Agreeing(rows)'
    BY <1>1, <1>2, <1>3, <2>1, <2>2, <2>4, <2>5, <2>6, AcceptedAgrees DEF Carried, TruthInv
  <2>8. (AfterSuccess(req[t]))' = rows
    BY <1>1, <2>4, <2>6 DEF AfterSuccess, Dropped, Stored, Synced
  <2>9. Agreeing(AfterSuccess(req[t]))'
    BY <2>7, <2>8 DEF Agreeing, Live
  <2>10. AgreeingAll'
    BY <1>1, <2>4, <2>9 DEF AgreeingAll
  <2>11. Apart' /\ FreshAll'
    BY <1>1, <1>6, <2>1, <2>4 DEF TruthInv, Apart, Held, FreshAll
  <2>12. QED  BY <1>4, <2>10, <2>11 DEF TruthInv
<1>7. QED  BY <1>5, <1>6

LEMMA PersistTrue ==
  ASSUME Types, KeptInv, TruthInv, Alone, NEW t \in Tabs, Persist(t)
  PROVE  TruthInv'
<1>1. /\ UNCHANGED <<official, wrote, lost>> /\ req[t].step # "idle" /\ \A s \in Tabs : s = t
      /\ req'[t].step = "idle"
  BY DEF Persist, Alone, Answered, Idle, Types, RequestTypes
<1>2. PICK q : q = req[t]
  OBVIOUS
<1>3. /\ q.kind \in Kinds /\ q.how \in Hows /\ q.val \in Nat /\ Carried(q)
      /\ q.how # "DELETE" => q.val > 0
  BY <1>1, <1>2, CarriesContent DEF TruthInv
<1>4. \A ks : \A k \in Kinds : Dropped(ks)[k] = IF k \in ks THEN NoRow ELSE row[k]
  BY DEF Dropped
<1>5. NoRow.status = "none" /\ \A k \in Kinds : row[k].val \in Nat
  BY DEF NoRow, Types, RowsType, RowSet
\* A row stays, goes, is put away, or is the one of this request and holds its content.
<1>6. \A k \in Kinds :
          \/ row'[k] = row[k] \/ row'[k].status = "none" \/ row'[k].gone
          \/ k = q.kind /\ q.how # "DELETE" /\ row'[k].val = q.val
  <2>1. \A status, id : \A k \in Kinds :
            IF k = q.kind THEN Stored(q.kind, status, q.val, id)[k].val = q.val
                          ELSE Stored(q.kind, status, q.val, id)[k] = row[k]
    BY <1>3 DEF Stored, Types, RowsType
  <2>2. CASE OnSuccess(q)
    <3>1. CASE q.how = "DELETE" /\ q.kind \in Numbered
      BY <1>3, <2>2, <3>1 DEF OnSuccess, AfterSuccess, Types, RowsType, RowSet
    <3>2. CASE ~(q.how = "DELETE" /\ q.kind \in Numbered) /\ (q.kind \in Drafts \/ q.how = "DELETE")
      <4>1. row' = Dropped(DropsOnSuccess(q))
        BY <2>2, <3>2 DEF OnSuccess, AfterSuccess
      <4>2. QED  BY <1>4, <1>5, <4>1
    <3>3. CASE q.kind \notin Drafts /\ q.how # "DELETE"
      <4>1. row' = Stored(q.kind, "official", q.val, q.new)
        BY <2>2, <3>3 DEF OnSuccess, AfterSuccess
      <4>2. QED  BY <2>1, <3>3, <4>1
    <3>4. QED  BY <3>1, <3>2, <3>3
  <2>3. CASE OnFallback(q)
    <3>1. CASE q.how = "DELETE"
      <4>1. row' = Dropped({q.kind})
        BY <2>3, <3>1 DEF OnFallback, AfterFallback
      <4>2. QED  BY <1>4, <1>5, <4>1
    <3>2. CASE q.how # "DELETE"
      <4>1. PICK id : row' = Stored(q.kind, "local_fallback", q.val, id)
        BY <2>3, <3>2 DEF OnFallback, AfterFallback, Draft
      <4>2. QED  BY <2>1, <3>2, <4>1
    <3>3. QED  BY <3>1, <3>2
  <2>4. QED  BY <1>2, <2>2, <2>3 DEF Persist
<1>7. Contents'
  BY <1>1, <1>3, <1>6 DEF TruthInv, Contents, Held
<1>8. FreshAll'
  BY <1>1 DEF FreshAll
<1>9. CASE lost
  BY <1>1, <1>7, <1>8, <1>9 DEF TruthInv, Apart, AgreeingAll
<1>10. CASE ~lost /\ q.step = "accepted"
  <2>1. Agreeing(AfterSuccess(q)) /\ row' = AfterSuccess(q)
    BY <1>1, <1>2, <1>10 DEF Persist, OnSuccess, TruthInv, AgreeingAll
  <2>2. Agreeing(row)'
    BY <1>1, <2>1 DEF Agreeing, Live
  <2>3. AgreeingAll'
    BY <1>1, <2>2 DEF AgreeingAll
  <2>4. Apart'
    <3>1. \A k \in {"new", "edits"} : row'[k] = row[k] \/ row'[k].status = "none"
      <4>1. CASE q.kind \in Drafts
        <5>1. row' = Dropped(DropsOnSuccess(q))
          BY <2>1, <4>1 DEF AfterSuccess, Drafts, Numbered
        <5>2. QED  BY <1>4, <1>5, <5>1 DEF Kinds, Drafts
      <4>2. CASE q.kind = "favorite"
        BY <1>4, <1>5, <2>1, <4>2
           DEF AfterSuccess, Drafts, Kinds, Numbered, DropsOnSuccess, Stored, Types, RowsType
      <4>3. CASE q.kind \in Numbered
        BY <2>1, <4>3 DEF AfterSuccess, Drafts, Kinds, Numbered, Stored, Types, RowsType
      <4>4. QED  BY <1>3, <4>1, <4>2, <4>3 DEF Kinds, Numbered
    <3>2. QED  BY <1>1, <3>1 DEF TruthInv, Apart, Held
  <2>5. QED  BY <1>7, <1>8, <2>3, <2>4 DEF TruthInv
<1>11. CASE ~lost /\ q.step # "accepted"
  <2>1. OnFallback(q) /\ Agreeing(row)
    BY <1>1, <1>2, <1>11 DEF Persist, TruthInv, AgreeingAll
  <2>2. q.op # "retry" /\ q.how # "DELETE" => Fresh(q.val)
    BY <1>1, <1>2, <1>11 DEF TruthInv, FreshAll
  <2>3. CASE q.how = "DELETE"
    <3>1. row' = Dropped({q.kind})
      BY <2>1, <2>3 DEF OnFallback, AfterFallback
    <3>2. \A k \in Kinds : row'[k] = row[k] \/ row'[k].status = "none" \/ row'[k].gone
      BY <1>4, <1>5, <3>1
    <3>3. AgreeingAll'
      BY <1>1, <2>1, <3>2, FewerAgree DEF AgreeingAll
    <3>4. Apart'
      BY <1>1, <3>2 DEF TruthInv, Apart, Held, Kinds, Drafts
    <3>5. QED  BY <1>7, <1>8, <3>3, <3>4 DEF TruthInv
  <2>4. CASE q.how # "DELETE"
    <3>1. PICK id : row' = Stored(q.kind, "local_fallback", q.val, id)
      BY <2>1, <2>4 DEF OnFallback, AfterFallback, Draft
    <3>2. /\ \A k \in Kinds \ {q.kind} : row'[k] = row[k]
          /\ row'[q.kind].status = "local_fallback" /\ row'[q.kind].val = q.val
      BY <1>3, <3>1 DEF Stored, Synced, Types, RowsType
    <3>3. Apart'
      <4>1. CASE q.op = "retry"
        <5>1. Held(q.kind) /\ row[q.kind].val = q.val
          BY <1>3, <4>1 DEF Carried
        <5>2. \A k \in Kinds : Held(k)' => Held(k) /\ row'[k].val = row[k].val
          BY <3>2, <5>1 DEF Held
        <5>3. QED  BY <1>1, <5>2 DEF TruthInv, Apart, Kinds, Drafts
      <4>2. CASE q.op # "retry"
        <5>1. \A k \in Kinds : row[k].val < q.val
          BY <2>2, <2>4, <4>2 DEF Fresh
        <5>2. \A k \in Kinds \ {q.kind} : row'[k].val < row'[q.kind].val
          BY <1>5, <3>2, <5>1
        <5>3. \A k \in Kinds \ {q.kind} : row'[k].val # row'[q.kind].val
          BY <1>3, <1>5, <3>2, <5>2
        <5>4. CASE q.kind \in {"new", "edits"}
          BY <5>3, <5>4 DEF Apart, Kinds, Drafts
        <5>5. CASE q.kind \notin {"new", "edits"}
          BY <1>1, <3>2, <5>5 DEF TruthInv, Apart, Held, Kinds, Drafts
        <5>6. QED  BY <5>4, <5>5
      <4>3. QED  BY <4>1, <4>2
    <3>4. \A k \in Drafts : row'[k].status # "none" /\ ~row'[k].gone =>
              row'[k].val # official[<<0, Group(k)>>]
      <4> SUFFICES ASSUME NEW k \in Drafts, row'[k].status # "none", ~row'[k].gone
                   PROVE  row'[k].val # official[<<0, Group(k)>>]
        OBVIOUS
      <4>1. CASE k # q.kind
        BY <2>1, <3>2, <4>1, KindFacts DEF Agreeing
      <4>2. CASE k = q.kind /\ q.op = "retry"
        BY <1>3, <2>1, <3>2, <4>2 DEF Carried, Held, Agreeing
      <4>3. CASE k = q.kind /\ q.op # "retry"
        <5>1. official[<<0, Group(k)>>] < q.val
          BY <2>2, <2>4, <4>3, ObjectFacts DEF Fresh
        <5>2. official[<<0, Group(k)>>] \in Nat
          BY ObjectFacts DEF Types, RowsType
        <5>3. QED  BY <1>3, <3>2, <4>3, <5>1, <5>2
      <4>4. QED  BY <4>1, <4>2, <4>3
    <3>5. \A k \in Numbered : row'[k].status = "official" /\ ~row'[k].gone =>
              row'[k].id \in Ids /\ row'[k].val = official[<<row'[k].id, k>>]
      BY <2>1, <3>2, KindFacts DEF Agreeing
    <3>6. row'["favorite"].status = "official" /\ ~row'["favorite"].gone => official[<<0, "favorite">>] # 0
      BY <2>1, <3>2, KindFacts DEF Agreeing, Live
    <3>7. Agreeing(row)'
      BY <1>1, <3>4, <3>5, <3>6 DEF Agreeing, Live
    <3>8. AgreeingAll'
      BY <1>1, <3>7 DEF AgreeingAll
    <3>9. QED  BY <1>7, <1>8, <3>3, <3>8 DEF TruthInv
  <2>5. QED  BY <2>3, <2>4
<1>12. QED  BY <1>9, <1>10, <1>11

LEMMA StepTrue ==
  ASSUME Types, KeptInv, TruthInv, Alone, [Next]_vars
  PROVE  TruthInv'
<1>1. CASE UNCHANGED <<row, official, req, wrote, lost>>
  <2>1. Contents' /\ Apart' /\ FreshAll'
    BY <1>1 DEF TruthInv, Contents, Apart, Held, FreshAll, Fresh
  <2>2. Agreeing(row)' = Agreeing(row)
    BY <1>1 DEF Agreeing, Live
  <2>3. \A t \in Tabs : Agreeing(AfterSuccess(req[t]))' = Agreeing(AfterSuccess(req[t]))
    BY <1>1 DEF Agreeing, Live, AfterSuccess, Stored, Synced, Dropped
  <2>4. AgreeingAll'
    BY <1>1, <2>2, <2>3 DEF TruthInv, AgreeingAll
  <2>5. QED  BY <2>1, <2>4 DEF TruthInv
<1>2. ASSUME NEW t \in Tabs, ReadGrant(t) \/ RevokeUnreadable(t) \/ RefreshGrant(t) \/ StoreRefreshed(t)
                             \/ Refuse(t) \/ Kill(t) \/ (Call(t) /\ ~Accepted(t))
      PROVE  TruthInv'
  <2>1. UNCHANGED <<row, official, wrote>>
    BY <1>2 DEF ReadGrant, RevokeUnreadable, RefreshGrant, StoreRefreshed, Refuse, Kill, Call, Rejected,
                rowVars
  <2>2. req[t] \in Requests /\ req[t].step # "idle"
    BY <1>2 DEF ReadGrant, RevokeUnreadable, RefreshGrant, StoreRefreshed, Refuse, Kill, Call,
                Types, RequestTypes
  <2>3. lost' \/ (~lost /\ req[t].step # "accepted")
    <3>1. CASE Kill(t)
      BY <3>1 DEF Kill
    <3>2. CASE ~Kill(t)
      <4>1. req[t].step # "accepted"
        BY <1>2, <3>2 DEF ReadGrant, RevokeUnreadable, RefreshGrant, StoreRefreshed, Refuse, Call
      <4>2. lost' = lost \/ lost' = TRUE
        BY <1>2, <3>2 DEF ReadGrant, RevokeUnreadable, RefreshGrant, StoreRefreshed, Refuse, Call, Rejected
      <4>3. lost \in BOOLEAN
        BY DEF Types, RequestTypes
      <4>4. QED  BY <4>1, <4>2, <4>3
    <3>3. QED  BY <3>1, <3>2
  <2>4. CASE Answered(t)
    BY <2>1, <2>3, <2>4, MovesTrue DEF Answered, Idle
  <2>5. CASE Fails(t, TRUE) \/ Fails(t, FALSE)
    <3>1. PICK auth \in BOOLEAN : req' = [req EXCEPT ![t] = [req[t] EXCEPT !.step = "failed", !.auth = auth]]
      BY <2>2, <2>5 DEF Fails, Types, RequestTypes, Requests
    <3> DEFINE r == [req[t] EXCEPT !.step = "failed", !.auth = auth]
    <3>2. r.step = "failed" /\ r.op = req[t].op /\ r.kind = req[t].kind /\ r.how = req[t].how /\ r.val = req[t].val
      BY <2>2 DEF Requests
    <3>3. QED  BY <2>1, <2>2, <2>3, <3>1, <3>2, MovesTrue
  <2>6. CASE Goes(t, "call")
    <3> DEFINE r == [req[t] EXCEPT !.step = "call"]
    <3>1. r.step = "call" /\ r.op = req[t].op /\ r.kind = req[t].kind /\ r.how = req[t].how /\ r.val = req[t].val
      BY <2>2 DEF Requests
    <3>2. req' = [req EXCEPT ![t] = r]
      BY <2>6 DEF Goes
    <3>3. QED  BY <2>1, <2>2, <2>3, <3>1, <3>2, MovesTrue
  <2>7. CASE ReadGrant(t)
    <3>1. CASE GrantStep = "reauth"
      BY <2>4, <2>7, <3>1 DEF ReadGrant, Answered
    <3>2. CASE GrantStep # "reauth"
      <4> DEFINE r == [req[t] EXCEPT !.step = GrantStep, !.pair = grant.pair]
      <4>1. /\ r.step = GrantStep /\ GrantStep # "accepted" /\ req' = [req EXCEPT ![t] = r]
            /\ r.op = req[t].op /\ r.kind = req[t].kind /\ r.how = req[t].how /\ r.val = req[t].val
        BY <2>2, <2>7, <3>2 DEF Requests, ReadGrant, GrantStep
      <4>2. QED  BY <2>1, <2>2, <2>3, <4>1, MovesTrue
    <3>3. QED  BY <3>1, <3>2
  <2>8. CASE RefreshGrant(t) /\ req' = [req EXCEPT ![t].step = "save", ![t].pair = issued']
    <3> DEFINE r == [req[t] EXCEPT !.step = "save", !.pair = issued']
    <3>1. req' = [req EXCEPT ![t] = r]
      BY <2>2, <2>8 DEF Types, RequestTypes, Requests
    <3>2. r.step = "save" /\ r.op = req[t].op /\ r.kind = req[t].kind /\ r.how = req[t].how /\ r.val = req[t].val
      BY <2>2 DEF Requests
    <3>3. QED  BY <2>1, <2>2, <2>3, <3>1, <3>2, MovesTrue
  <2>9. QED
    BY <1>2, <2>4, <2>5, <2>6, <2>7, <2>8 DEF RevokeUnreadable, RefreshGrant, StoreRefreshed, Refuse, Kill,
                                              Call, Rejected
<1>3. CASE SignIn \/ SignOut \/ Upsets
  BY <1>1, <1>3 DEF SignIn, SignOut, Upsets, rowVars
<1>4. CASE UNCHANGED vars
  BY <1>1, <1>4 DEF vars, rowVars
<1>5. QED
  BY <1>2, <1>3, <1>4, RouteTrue, AcceptedTrue, PersistTrue DEF Next, Attempt

\* What an idle user with one tab reads in his rows is so: a record marked official is
\* what Toolhub has under its id, and a draft is something Toolhub does not have, unless
\* one of his requests was killed or its reply was lost.
THEOREM RowsTellTruth == ASSUME Alone PROVE Spec => []RowsTrue
<1>1. Init => TruthInv
  <2> SUFFICES ASSUME Init PROVE TruthInv
    OBVIOUS
  <2>1. /\ \A k \in Kinds : row[k] = NoRow
        /\ \A o \in Objects : official[o] = 0
        /\ \A t \in Tabs : req[t].step = "idle"
        /\ wrote = 0 /\ NoRow.status = "none"
    BY DEF Init, RowsInit, Idle, NoRow
  <2>2. Contents /\ Apart /\ FreshAll
    BY <2>1 DEF Contents, Apart, FreshAll, Held, Kinds, Drafts
  <2>3. Agreeing(row)
    BY <2>1, KindFacts DEF Agreeing
  <2>4. QED  BY <2>1, <2>2, <2>3 DEF TruthInv, AgreeingAll
<1>2. Init => KeptInv
  BY DEF Init, RowsInit, KeptInv, ToldWritten, RowsWritten, CarriedAll, WorkKept, Idle, NoRow
<1>3. Types /\ [Next]_vars => Types'
  BY StepTypes
<1>4. Types /\ KeptInv /\ [Next]_vars => KeptInv'
  BY StepKept
<1>5. Types /\ KeptInv /\ TruthInv /\ [Next]_vars => TruthInv'
  BY StepTrue
<1>6. Types /\ TruthInv => RowsTrue
  BY DEF Types, TruthInv, AgreeingAll, RowsTrue, TypeOK, Agrees
<1>7. QED  BY InitTypes, <1>1, <1>2, <1>3, <1>4, <1>5, <1>6, PTL DEF Spec
=============================================================================
