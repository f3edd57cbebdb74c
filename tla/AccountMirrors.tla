--------------------------- MODULE AccountMirrors ---------------------------
(***************************************************************************)
(* proxy/account_sync.py and toolforge_account_sync.py: the local copies   *)
(* of the official accounts.  Toolhub's are read page by page, in the      *)
(* order of their ids, over as many runs as it takes; rows the finished    *)
(* generation did not see are pruned.  Toolforge's are read from LDAP in   *)
(* one search and replaced in one transaction.                             *)
(*                                                                         *)
(* A generation number only ever tells the rows the active one has seen    *)
(* from the others, so it is kept as that set.                             *)
(***************************************************************************)
EXTENDS PersonIdentity, FiniteSetsExt

CONSTANTS
    PageSize,       \* accounts on a page of the official listing
    HubRows(_),     \* what the account t may say of itself: [name, global]
    LdapRows(_),    \* the entries the account u may have in LDAP
    HubStart,       \* the accounts on Toolhub when the first mirror is made
    LdapStart,      \* the entries in LDAP at that time
    Ops             \* bound: changes of the outside world after that

VARIABLES
    hub,            \* Toolhub: id -> [name, global], for the accounts there are
    ldap,           \* LDAP: uidNumber -> entry with its tool memberships
    accounts,       \* toolhub_account_projections
    developers,     \* toolforge_account_projections with their memberships
    cycle,          \* toolhub_account_sync_state
    graph,          \* people, person_identifiers, person_account_bindings
    spent

ASSUME MirrorsAssumption ==
    /\ PageSize \in Nat \ {0}
    /\ DOMAIN HubStart \subseteq ToolhubIds /\ IsFiniteSet(DOMAIN HubStart)
    /\ DOMAIN LdapStart \subseteq UidNumbers /\ IsFiniteSet(DOMAIN LdapStart)

worldVars  == <<hub, ldap, spent>>
mirrorVars == <<accounts, developers, cycle>>

MirrorsInit ==
    /\ hub = HubStart /\ ldap = LdapStart
    /\ accounts = <<>> /\ developers = <<>>
    /\ cycle = [open |-> FALSE, page |-> 1, seen |-> {}]
    /\ graph = NoGraph
    /\ spent = 0

With(f, k, row) == [i \in DOMAIN f \cup {k} |-> IF i = k THEN row ELSE f[i]]

----------------------------------------------------------------------------
Outside ==
    /\ spent < Ops /\ spent' = spent + 1
    /\ UNCHANGED <<accounts, developers, cycle, graph>>

\* An account is made on Toolhub; its id is above every id so far.
Register(t) ==
    /\ t \notin DOMAIN hub /\ \A s \in DOMAIN hub \cup DOMAIN accounts : s < t
    /\ \E row \in HubRows(t) :
         /\ \A s \in DOMAIN hub : hub[s].name # row.name
         /\ hub' = With(hub, t, row)
    /\ Outside /\ UNCHANGED ldap

\* An account is renamed, or shows its Wikimedia identity.
Amend(t) ==
    /\ t \in DOMAIN hub
    /\ \E row \in HubRows(t) \ {hub[t]} :
         /\ \A s \in DOMAIN hub \ {t} : hub[s].name # row.name
         /\ hub[t].global \in {None, row.global}
         /\ hub' = [hub EXCEPT ![t] = row]
    /\ Outside /\ UNCHANGED ldap

\* An account is closed.  Closing one while the listing is being read shifts the pages
\* behind it: excluded here, see "left out" in the README.
Close(t) ==
    /\ t \in DOMAIN hub /\ ~cycle.open
    /\ hub' = [s \in DOMAIN hub \ {t} |-> hub[s]]
    /\ Outside /\ UNCHANGED ldap

\* A developer account is made, renamed, joined to a tool, connected to its Wikimedia
\* account or disabled.
Enter(u) ==
    /\ \E row \in LdapRows(u) :
         /\ u \in DOMAIN ldap => ldap[u] # row
         /\ ldap' = With(ldap, u, row)
    /\ Outside /\ UNCHANGED hub

----------------------------------------------------------------------------
\* _begin_cycle: a new generation, unless one is under way.
BeginCycle ==
    /\ ~cycle.open
    /\ cycle' = [open |-> TRUE, page |-> 1, seen |-> {}]
    /\ UNCHANGED <<worldVars, accounts, developers, graph>>

\* listing_page: the rows of one page, and whether another one follows.
Place(t) == Cardinality({s \in DOMAIN hub : s < t})
PageRows(k) == {t \in DOMAIN hub : Place(t) \div PageSize = k - 1}
HasNext(k) == k * PageSize < Cardinality(DOMAIN hub)

\* The rows of the page are upserted, and the people behind those that changed.
StoredRows(rows) == [t \in DOMAIN accounts \cup rows |-> IF t \in rows THEN hub[t] ELSE accounts[t]]
IdentityChanged(rows) == {t \in rows : t \notin DOMAIN accounts \/ accounts[t] # hub[t]}

EnsuredRow(g, t) == EnsuredOfficial(g, t, hub[t])
EnsuredRows(rows, g) == ForEach(rows, EnsuredRow, g)

\* Mutant: what the generation has not seen is pruned with every page.
PrunesEarly(stored, seen, last) == [t \in seen |-> stored[t]]

\* The generation is complete when it saw as many rows as the official count says; only
\* then the others are pruned.
Kept(stored, seen, last) ==
    IF last /\ Cardinality(seen) = Cardinality(DOMAIN hub)
    THEN [t \in seen |-> stored[t]] ELSE stored

\* _store_page.  A page past the end is an error, and the cursor stays.
StorePage ==
    LET rows == PageRows(cycle.page)
        seen == cycle.seen \cup rows
        last == ~HasNext(cycle.page)
    IN  /\ cycle.open
        /\ rows = {} => cycle.page = 1
        /\ accounts' = Kept(StoredRows(rows), seen, last)
        /\ cycle' = IF last THEN [open |-> FALSE, page |-> 1, seen |-> {}]
                            ELSE [open |-> TRUE, page |-> cycle.page + 1, seen |-> seen]
        /\ graph' = EnsuredRows(IdentityChanged(rows), graph)
        /\ UNCHANGED <<worldVars, developers>>

\* _replace_generation: the whole search result at once; an empty one is an error.
ReplaceDevelopers ==
    /\ ldap # <<>> /\ developers # ldap
    /\ developers' = ldap
    /\ UNCHANGED <<worldVars, accounts, cycle, graph>>
=============================================================================
