------------------------------ MODULE Identity ------------------------------
(***************************************************************************)
(* identity_graph.py, wikimedia_user_reconciliation.py, account_linking.py *)
(* and projection_refresh.py: who is who.  The official accounts are       *)
(* mirrored, each mirrored account is bound to a person by the strongest   *)
(* proof there is, and the memberships of bound Toolforge accounts become  *)
(* evidence about tools.  Four writers bind: the synchronization (the      *)
(* Wikimedia id in LDAP, or a handle with a tool both sides vouch for),    *)
(* the user-space rule, and a user who signs a challenge with an ssh key.  *)
(*                                                                         *)
(* Every writer is one database transaction.  A process that dies loses    *)
(* the transaction it was in, and projection_refresh what it remembered.   *)
(* people_reconcile also attaches identifiers: what its discovery of       *)
(* registry names and its identities-only mode attach is left out.         *)
(***************************************************************************)
EXTENDS AccountMirrors

CONSTANTS
    Visitors,       \* the Toolhub accounts whose owners sign in here
    Tools,
    Projects,       \* Toolforge projects, what memberships name
    ProjectOf,      \* the project a tool's record points at, or None
    Verifies,       \* whether that record proves it (a candidate host only hints at it)
    UserSpace,      \* the owner of the user page a tool's record points at, or None
    GlobalName,     \* the Wikimedia username of a global id
    Vouched,        \* <<handle, tool>>: what other sources verified without a person
    Refreshes       \* bound: refreshes between reading their input and publishing it

ASSUME CatalogAssumption ==
    /\ ProjectOf \in [Tools -> Projects \cup {None}] /\ Verifies \in [Tools -> BOOLEAN]
    /\ UserSpace \in [Tools -> Names \cup {None}] /\ GlobalName \in [GlobalIds -> Names]
    /\ Vouched \subseteq Names \X Tools /\ IsFiniteSet(Tools) /\ Refreshes \in Nat

VARIABLES
    live,           \* the tools in the catalog
    evidence,       \* current LDAP evidence: [tool, uid, person, verified]
    pages,          \* current user-space evidence: [tool, person]
    relMarker,      \* TOOLFORGE_RELATIONSHIP_META_KEY: the stored fingerprint, if any
    pageMarker,     \* META_KEY of the user-space rule
    users,          \* local users: Toolhub id -> [name, global, person]
    challenges,     \* open account link challenges: <<Toolhub id, uidNumber>>
    refresh,        \* projection_refresh: the fingerprints read and not yet published
    marker          \* IDENTITY_META_KEY

derivedVars == <<evidence, pages, relMarker, pageMarker, marker>>
identityVars == <<worldVars, mirrorVars, graph, derivedVars, live, users, challenges, refresh>>

IdentityInit ==
    /\ MirrorsInit
    /\ live = Tools
    /\ evidence = {} /\ pages = {}
    /\ relMarker = {} /\ pageMarker = {} /\ marker = {}
    /\ users = <<>> /\ challenges = {} /\ refresh = {}

----------------------------------------------------------------------------
(***************************************************************************)
(* synchronize: Toolhub accounts.  The pass reads the owners of all        *)
(* identifiers once and keeps that index beside the tables it writes, so   *)
(* its state is S = [g: the graph, known: the index].                      *)
(***************************************************************************)
Index(g) == [ns \in Namespaces |->
               [v \in {w \in DOMAIN g.ids[ns] : g.ids[ns][w].current} |-> g.ids[ns][v].person]]
Known(S, ns, v) == IF v \in DOMAIN S.known[ns] THEN S.known[ns][v] ELSE Nobody
Learn(known, who, p) ==
    [ns \in Namespaces |-> IF ns \in DOMAIN who THEN With(known[ns], who[ns], p) ELSE known[ns]]

KnownGlobal(S, row) == IF row.global = None THEN Nobody ELSE Known(S, "globalId", row.global)

\* identifiers_complete: nothing to write about who owns what.
Complete(S, t, row) ==
    LET p == Known(S, "toolhubId", t) IN
    /\ p # Nobody
    /\ row.global = None \/ KnownGlobal(S, row) = p
    /\ Known(S, "toolhubName", row.name) = p

Learned(S, g, t, row) ==
    [g |-> g, known |-> Learn(S.known, Official(t, row), Owner(g.ids, "toolhubId", t))]
Owned(S, t, row) == IF Complete(S, t, row) THEN S ELSE Learned(S, EnsuredOfficial(S.g, t, row), t, row)

\* The account, and the Wikimedia account it shows, are verified for their owner.
VerifiedFor(S, p, t, row) ==
    [S EXCEPT !.g.binds = [a \in Accounts |->
        IF a = <<"toolhub", t>> THEN Binding(p, "verified", "toolhubAccount")
        ELSE IF a = <<"wikimedia", row.global>> THEN Binding(p, "verified", "toolhubGlobal")
        ELSE S.g.binds[a]]]
OwnedBy(N, t, row) == VerifiedFor(N, Known(N, "toolhubId", t), t, row)

BindToolhub(S, t) ==
    IF Disagree(Known(S, "toolhubId", t), KnownGlobal(S, accounts[t]))
    THEN [S EXCEPT !.g = SetBinding(@, <<"toolhub", t>>, Nobody, "conflict", "toolhubGlobal")]
    ELSE OwnedBy(Owned(S, t, accounts[t]), t, accounts[t])

----------------------------------------------------------------------------
(* synchronize: Toolforge accounts.                                        *)

Bears(u, row) == [uidNumber |-> u, developerName |-> row.developer, shellName |-> row.shell]
Joined(S, u, row, p, proof) ==
    [g |-> Bound(S.g, u, row, p, proof), known |-> Learn(S.known, Bears(u, row), p)]

\* LDAP itself names the Wikimedia account: its person is found or made, and the
\* Toolforge account bound to it; a contradiction is recorded as a conflict.
Settled(S, u, row, p) ==
    /\ VerifiedPerson(S.g, <<"toolforge", u>>) = p
    /\ \A ns \in DOMAIN Bears(u, row) : Known(S, ns, Bears(u, row)[ns]) = p

WhoSul(row) == [globalId |-> row.global, wikiName |-> GlobalName[row.global]]
PersonSul(S, row) ==
    IF KnownGlobal(S, row) # Nobody THEN S
    ELSE [g     |-> Ensured(S.g, WhoSul(row)),
          known |-> Learn(S.known, [globalId |-> row.global], Chosen(S.g, WhoSul(row)))]
BoundSul(S, u, row, p) ==
    IF Settled(S, u, row, p) THEN S
    ELSE IF Accepted(S.g, u, p) THEN Joined(S, u, row, p, "sul")
    ELSE [S EXCEPT !.g = SetBinding(@, <<"toolforge", u>>, Nobody, "conflict", "sul")]
WithSul(N, u, row) == BoundSul(N, u, row, KnownGlobal(N, row))
BySul(S, u, row) == WithSul(PersonSul(S, row), u, row)

\* _unique_toolhub_handle_candidate: the one Toolhub account of that name.
Namesakes(row) == {t \in DOMAIN accounts : accounts[t].name \in {row.developer, row.shell}}

\* The shell name is looked up last and wins.
Matched(row, t) == IF accounts[t].name = row.shell THEN "shellName" ELSE "developerName"

\* names_by_toolforge_project and candidate_names_by_toolforge_project.
Named(project, verified) == {n \in live : ProjectOf[n] = project /\ Verifies[n] = verified}

\* _verified_shared_tool_names: tools of its projects that another source vouches for,
\* for the bearer of the handle.
SharedTools(S, u, row, kind) ==
    LET handle == Bears(u, row)[kind]
        bearer == Known(S, kind, handle)
        joined == UNION {Named(j, TRUE) : j \in row.projects}
    IN  {n \in joined : <<handle, n>> \in Vouched
                          \/ (bearer # Nobody /\ [tool |-> n, person |-> bearer] \in pages)}

ToNamesake(S, u, row, t, p) ==
    IF p = Nobody THEN S
    ELSE IF SharedTools(S, u, row, Matched(row, t)) # {}
         THEN IF Accepted(S.g, u, p) THEN Joined(S, u, row, p, "sharedTool") ELSE S
    ELSE IF S.g.binds[<<"toolforge", u>>].status = "verified" THEN S
    ELSE [S EXCEPT !.g = SetBinding(@, <<"toolforge", u>>, p, "candidate", "handle")]

ByHandle(S, u, row) ==
    IF Cardinality(Namesakes(row)) # 1 THEN S
    ELSE LET t == CHOOSE s \in Namesakes(row) : TRUE
         IN  ToNamesake(S, u, row, t, Known(S, "toolhubId", t))

BindToolforge(S, u) ==
    IF developers[u].global # None THEN BySul(S, u, developers[u]) ELSE ByHandle(S, u, developers[u])

BoundToolhub(S) == ForEach(DOMAIN accounts, BindToolhub, S)
BoundToolforge(S) == ForEach(DOMAIN developers, BindToolforge, S)
Bindings(g) == BoundToolforge(BoundToolhub([g |-> g, known |-> Index(g)])).g

----------------------------------------------------------------------------
(* synchronize: local users, and the memberships of bound accounts.        *)

\* What a user gives link_user; the Wikimedia id is adopted from the projection.
Adopted(t) == IF t \in DOMAIN accounts /\ accounts[t].global # None THEN accounts[t].global
                                                                   ELSE users[t].global
UserSays(t) == Official(t, [name |-> users[t].name, global |-> Adopted(t)])
EnsuredUser(g, t) == Ensured(g, UserSays(t))
Linked(g) == ForEach(DOMAIN users, EnsuredUser, g)
LinkedUsers(g) ==
    [t \in DOMAIN users |-> [users[t] EXCEPT !.global = Adopted(t),
                                             !.person = Owner(g.ids, "toolhubId", t)]]

\* _relationship_fingerprint: the verified bindings, the memberships, the aliases.
Memberships == {x \in (DOMAIN developers) \X Projects : x[2] \in developers[x[1]].projects}
Aliases == [v \in BOOLEAN |-> {x \in Projects \X live : x[2] \in Named(x[1], v)}]
BoundIn(g) == {u \in UidNumbers : VerifiedPerson(g, <<"toolforge", u>>) # Nobody}
RelationshipInput(g) == [binds   |-> {<<u, g.binds[<<"toolforge", u>>]>> : u \in BoundIn(g)},
                         members |-> Memberships,
                         aliases |-> Aliases]

\* One row per membership of a bound account and tool of that project.  The person is
\* resolved from the account's number and name, as replace_source_evidence does.
Held(g) == {x \in Memberships \X live : x[1][1] \in BoundIn(g) /\ ProjectOf[x[2]] = x[1][2]}
LdapSays(u) == [uidNumber |-> u, developerName |-> developers[u].developer]
EnsuredHolder(g, u) == Ensured(g, LdapSays(u))
Restated(g) == ForEach({x[1][1] : x \in Held(g)}, EnsuredHolder, g)
Rows(g) ==
    {[tool |-> x[2], uid |-> x[1][1], person |-> Chosen(g, LdapSays(x[1][1])),
      verified |-> Verifies[x[2]]] : x \in Held(g)}

\* _sync_toolforge_relationships: nothing when the input is the stored one.
Related(g) ==
    IF relMarker = {RelationshipInput(g)}
    THEN [graph |-> g, evidence |-> evidence, relMarker |-> relMarker]
    ELSE [graph |-> Restated(g), evidence |-> Rows(g), relMarker |-> {RelationshipInput(g)}]

\* synchronize, from the graph g, as a step.
Synchronize(g) ==
    \E linked \in {Linked(Bindings(g))} :
    \E done \in {Related(linked)} :
        /\ users' = LinkedUsers(linked)
        /\ graph' = done.graph
        /\ evidence' = done.evidence
        /\ relMarker' = done.relMarker

----------------------------------------------------------------------------
(***************************************************************************)
(* wikimedia_user_reconciliation: the record of a tool points at a user    *)
(* page; its owner has one Wikimedia identity and bears the name of one    *)
(* developer account.                                                      *)
(***************************************************************************)
PageOwners == {UserSpace[n] : n \in live} \ {None}

\* _wikimedia_people: persons of that wiki username with exactly one global id.
OwnerOf(g, name) ==
    LET p == Owner(g.ids, "wikiName", name)
        globals == {v \in DOMAIN g.ids["globalId"] : Owner(g.ids, "globalId", v) = p}
    IN  IF p # Nobody /\ Cardinality(globals) = 1 THEN p ELSE Nobody

\* _toolforge_accounts: enabled accounts by developer name.
Developers(name) == {u \in DOMAIN developers : ~developers[u].disabled /\ developers[u].developer = name}
Matching(g, name) ==
    {u \in Developers(name) : Cardinality(Developers(name)) = 1 /\ Accepted(g, u, OwnerOf(g, name))}

GlobalOf(g, p) == CHOOSE v \in DOMAIN g.ids["globalId"] : Owner(g.ids, "globalId", v) = p
OnAccounts(g, us, p, said) ==
    IF us = {} THEN Ensured(g, said)
    ELSE LET u == CHOOSE w \in us : TRUE
         IN  Ensured(Bound(g, u, developers[u], p, "userSpace"), said @@ LdapSays(u))
OfOwner(g, name, p) ==
    IF p = Nobody THEN g
    ELSE OnAccounts(g, Matching(g, name), p, [globalId |-> GlobalOf(g, p), wikiName |-> name])
OnPage(g, name) == OfOwner(g, name, OwnerOf(g, name))
OnPages(g) == FoldSet(LAMBDA name, h : OnPage(h, name), g, PageOwners)

\* Its _fingerprint: everything the rule reads and writes.
PageInput(g, pg) == [tools |-> live,
                     devs  |-> [u \in DOMAIN developers |-> <<developers[u].shell, developers[u].developer,
                                                              developers[u].disabled>>],
                     ids   |-> <<g.ids["wikiName"], g.ids["globalId"]>>,
                     binds |-> [u \in UidNumbers |-> g.binds[<<"toolforge", u>>]],
                     pages |-> pg]

PageRowsOf(g) ==
    {[tool |-> n, person |-> OwnerOf(g, UserSpace[n])] :
        n \in {m \in live : UserSpace[m] # None /\ OwnerOf(g, UserSpace[m]) # Nobody}}
PagedAs(g, rows) == [graph |-> g, pages |-> rows, mark |-> {PageInput(g, rows)}]
Paged(g) ==
    IF pageMarker = {PageInput(g, pages)} THEN [graph |-> g, pages |-> pages, mark |-> pageMarker]
    ELSE PagedAs(OnPages(g), PageRowsOf(g))

\* _publish_user_space: the rule in a transaction of its own, hourly.
PublishUserSpace ==
    /\ \E paged \in {Paged(graph)} :
         graph' = paged.graph /\ pages' = paged.pages /\ pageMarker' = paged.mark
    /\ UNCHANGED <<worldVars, mirrorVars, evidence, relMarker, marker, live, users, challenges, refresh>>

\* The weekly rebuild: everything is synchronized, whatever the markers of the refresh say.
Rebuild ==
    /\ Synchronize(graph)
    /\ UNCHANGED <<worldVars, mirrorVars, pages, pageMarker, marker, live, challenges, refresh>>

----------------------------------------------------------------------------
(* projection_refresh: mirror the accounts, then publish what follows.     *)

\* Mutant: the Wikimedia ids of LDAP are left out of the fingerprint.
SansGlobals == [accounts   |-> accounts,
                developers |-> [u \in DOMAIN developers |-> [developers[u] EXCEPT !.global = None]],
                aliases    |-> Aliases]

\* input_fingerprint.
Input == [accounts |-> accounts, developers |-> developers, aliases |-> Aliases]

Mirroring == UNCHANGED <<derivedVars, live, users, challenges, refresh>>

\* The fingerprint is read in one transaction; with the stored one there is nothing to do.
\* Every deployment starts a refresh beside the scheduled one, so another may mirror
\* accounts, or be half way through them, between this step and the next.
ReadInput ==
    /\ Cardinality(refresh) < Refreshes
    /\ marker # {Input}
    /\ refresh' = refresh \cup {Input}
    /\ UNCHANGED <<worldVars, mirrorVars, graph, derivedVars, live, users, challenges>>

\* _publish_identity_projection: in another transaction, the bindings, the user-space
\* rule and the links of the users; the marker is the fingerprint read before.
Publish ==
    /\ \E read \in refresh : marker' = {read} /\ refresh' = refresh \ {read}
    /\ \E done \in {Related(Linked(Bindings(graph)))} :
       \E paged \in {Paged(done.graph)} :
         /\ graph' = Linked(paged.graph)
         /\ users' = LinkedUsers(graph')
         /\ evidence' = done.evidence /\ relMarker' = done.relMarker
         /\ pages' = paged.pages /\ pageMarker' = paged.mark
    /\ UNCHANGED <<worldVars, mirrorVars, live, challenges>>

RefreshDies ==
    /\ \E read \in refresh : refresh' = refresh \ {read}
    /\ UNCHANGED <<worldVars, mirrorVars, graph, derivedVars, live, users, challenges>>

----------------------------------------------------------------------------
(* A person at the site.                                                   *)

\* upsert_user at login: the name is the one Toolhub gives, the person stays.
SignIn(t) ==
    /\ t \in DOMAIN hub
    /\ users' = With(users, t,
                     [name   |-> hub[t].name,
                      global |-> IF hub[t].global = None /\ t \in DOMAIN users THEN users[t].global
                                                                             ELSE hub[t].global,
                      person |-> IF t \in DOMAIN users THEN users[t].person ELSE Nobody])
    /\ users' # users
    /\ UNCHANGED <<worldVars, mirrorVars, graph, derivedVars, live, challenges, refresh>>

\* link_user on a page of one's own; digests first adopt the Wikimedia id.
LinkUser(t, says, global) ==
    /\ graph' = Ensured(graph, says)
    /\ users' = [users EXCEPT ![t].global = global, ![t].person = Chosen(graph, says)]

OpenProfile(t) ==
    /\ t \in DOMAIN users
    /\ LinkUser(t, Official(t, users[t]), users[t].global)
    /\ UNCHANGED <<worldVars, mirrorVars, derivedVars, live, challenges, refresh>>

OpenDigests(t) ==
    /\ t \in DOMAIN users /\ users[t].global = None /\ Adopted(t) # None
    /\ LinkUser(t, UserSays(t), Adopted(t))
    /\ UNCHANGED <<worldVars, mirrorVars, derivedVars, live, challenges, refresh>>

\* start_toolforge_challenge: the name is that of one enabled account, bound to nobody.
StartChallenge(t, u) ==
    /\ t \in DOMAIN users /\ u \in DOMAIN developers /\ <<t, u>> \notin challenges
    /\ \E name \in {developers[u].developer, developers[u].shell} :
         {u} = {w \in DOMAIN developers : /\ ~developers[w].disabled
                                          /\ name \in {developers[w].developer, developers[w].shell}}
    /\ VerifiedPerson(graph, <<"toolforge", u>>) = Nobody
    /\ challenges' = challenges \cup {<<t, u>>}
    /\ LinkUser(t, Official(t, users[t]), users[t].global)
    /\ UNCHANGED <<worldVars, mirrorVars, derivedVars, live, refresh>>

\* complete_toolforge_challenge: used once, and everything synchronized behind it.  The
\* keys are read from LDAP itself; a signature that does not verify changes nothing here.
CompleteChallenge(t, u) ==
    /\ <<t, u>> \in challenges /\ u \in DOMAIN developers /\ ~developers[u].disabled
    /\ \E p \in {Chosen(graph, Official(t, users[t]))} :
       \E mine \in {Ensured(graph, Official(t, users[t]))} :
         /\ Accepted(mine, u, p)
         /\ Synchronize(Bound(mine, u, developers[u], p, "authenticated"))
    /\ challenges' = challenges \ {<<t, u>>}
    /\ UNCHANGED <<worldVars, mirrorVars, pages, pageMarker, marker, live, refresh>>

ExpireChallenge(t, u) ==
    /\ <<t, u>> \in challenges /\ challenges' = challenges \ {<<t, u>>}
    /\ UNCHANGED <<worldVars, mirrorVars, graph, derivedVars, live, users, refresh>>

----------------------------------------------------------------------------
\* retire_tool_relationships: a tool leaves the catalog with all its evidence.
RetireTool(n) ==
    /\ n \in live /\ live' = live \ {n}
    /\ evidence' = {e \in evidence : e.tool # n} /\ pages' = {e \in pages : e.tool # n}
    /\ spent < Ops /\ spent' = spent + 1
    /\ UNCHANGED <<hub, ldap, mirrorVars, graph, relMarker, pageMarker, marker, users, challenges, refresh>>

\* It comes back after a synchronization has missed it: one that has not would find its
\* input unchanged and leave the evidence withdrawn (see "left out" in the README).
ReturnTool(n) ==
    /\ n \notin live /\ live' = live \cup {n}
    /\ \A m \in relMarker : \A v \in BOOLEAN : \A a \in m.aliases[v] : a[2] # n
    /\ spent < Ops /\ spent' = spent + 1
    /\ UNCHANGED <<hub, ldap, mirrorVars, graph, derivedVars, users, challenges, refresh>>

\* An account whose user signed in is neither renamed nor closed: every later pass would
\* take the name kept here for the newer one, and give it back to that person (see "left
\* out").
Unnoticed ==
    /\ \A t \in DOMAIN users : t \in DOMAIN hub' /\ hub'[t].name = users[t].name
    /\ UNCHANGED <<derivedVars, live, users, challenges, refresh>>

IdentityNext ==
    \/ \E t \in ToolhubIds : (Register(t) \/ Amend(t) \/ Close(t)) /\ Unnoticed
    \/ \E u \in UidNumbers : Enter(u) /\ Unnoticed
    \/ \E n \in Tools : RetireTool(n) \/ ReturnTool(n)
    \/ (BeginCycle \/ StorePage \/ ReplaceDevelopers) /\ Mirroring
    \/ ReadInput \/ Publish \/ RefreshDies
    \/ PublishUserSpace \/ Rebuild
    \/ \E t \in Visitors : SignIn(t) \/ OpenProfile(t) \/ OpenDigests(t)
    \/ \E t \in Visitors, u \in UidNumbers :
         StartChallenge(t, u) \/ CompleteChallenge(t, u) \/ ExpireChallenge(t, u)

IdentitySpec == IdentityInit /\ [][IdentityNext]_identityVars

----------------------------------------------------------------------------
\* Whoever is verified for an account owns its immutable id: the four writers that bind
\* never disagree with the identifiers they attach.
NamespaceOf(provider) == CASE provider = "toolhub"   -> "toolhubId"
                           [] provider = "wikimedia" -> "globalId"
                           [] provider = "toolforge" -> "uidNumber"
BindingsOwned ==
    \A a \in Accounts : VerifiedPerson(graph, a) # Nobody =>
        Owner(graph.ids, NamespaceOf(a[1]), a[2]) = VerifiedPerson(graph, a)

\* An immutable id never changes hands, whatever is renamed, signed, merged or refreshed.
StableStays ==
    [][\A ns \in Stable : \A v \in DOMAIN graph.ids[ns] :
         /\ v \in DOMAIN graph.ids'[ns]
         /\ Owner(graph.ids', ns, v) = Owner(graph.ids, ns, v)]_graph

\* An account that exists is not pruned by a generation that finishes: reading pages over
\* several runs loses none of them.
LiveKept == [][\A t \in DOMAIN accounts : t \in DOMAIN hub => t \in DOMAIN accounts']_accounts

\* With the marker of the present input, every account LDAP connects to a Wikimedia id is
\* bound to the owner of that id, unless its number was proven to belong to somebody else.
PublishedBinds ==
    marker = {Input} =>
        \A u \in DOMAIN developers : developers[u].global # None =>
            LET owner == Owner(graph.ids, "globalId", developers[u].global) IN
            \/ VerifiedPerson(graph, <<"toolforge", u>>) = owner
            \/ Disagree(Owner(graph.ids, "uidNumber", u), owner)

\* With the marker of the present accounts, the name of each one belongs to the person its
\* id belongs to: a name given up and taken by somebody else follows.
NamesFollow ==
    marker = {Input} /\ accounts = hub =>
        \A t \in DOMAIN accounts :
            \/ Owner(graph.ids, "toolhubName", accounts[t].name) = Owner(graph.ids, "toolhubId", t)
            \/ graph.binds[<<"toolhub", t>>].status = "conflict"

\* A synchronization leaves no membership of a bound account unstated and states no other.
Current == evidence = Rows(graph)
RelationshipsFollow == relMarker = {RelationshipInput(graph)} => Current

\* The graph and what is derived from it tell one story, whichever writer came last.
GraphAgrees == BindingsOwned /\ PublishedBinds /\ RelationshipsFollow

\* No writer takes an id from its owner, and no generation an account that exists.
NothingLost == StableStays /\ LiveKept
=============================================================================
