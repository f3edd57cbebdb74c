--------------------------- MODULE PersonIdentity ---------------------------
(***************************************************************************)
(* backend/people_index.py and identity_graph.py: which person an account  *)
(* belongs to.  An identifier is a value in a namespace; a stable one (an  *)
(* immutable account id) names its person for good, a handle moves with    *)
(* the account that bears it.  A binding records, per provider account,    *)
(* the person it was proven to belong to.                                  *)
(*                                                                         *)
(* Everything here works on one value, the graph                           *)
(*   [ids: identifiers, keys: the people by their canonical key, binds],   *)
(* because a transaction changes it in many steps and commits once.        *)
(* Display names, slugs, confidence and timestamps are left out.           *)
(***************************************************************************)
EXTENDS Naturals, Sequences, FiniteSets, SequencesExt

CONSTANTS
    ToolhubIds,     \* ids of official Toolhub accounts, in the order they were made
    UidNumbers,     \* uidNumbers of Toolforge developer accounts
    GlobalIds,      \* Wikimedia global user ids
    Names,          \* usernames, case folded
    None            \* a value that is not given

ASSUME IdentityAssumption ==
    /\ ToolhubIds \subseteq Nat \ {0} /\ UidNumbers \subseteq Nat \ {0}
    /\ None \notin ToolhubIds /\ None \notin GlobalIds /\ None \notin Names

Nobody == 0
Stable == {"toolhubId", "globalId", "uidNumber"}
Handles == {"toolhubName", "developerName", "shellName", "wikiName"}
Namespaces == Stable \cup Handles

Accounts == ({"toolhub"} \X ToolhubIds) \cup ({"wikimedia"} \X GlobalIds)
              \cup ({"toolforge"} \X UidNumbers)
Binding(p, status, proof) == [person |-> p, status |-> status, proof |-> proof]
Unbound == Binding(Nobody, "none", "none")

NoGraph == [ids   |-> [ns \in Namespaces |-> <<>>],
            keys  |-> <<>>,
            binds |-> [a \in Accounts |-> Unbound]]

\* What an observation gives, without the namespaces it has no value for.
Given(values) == [ns \in {n \in DOMAIN values : values[n] # None} |-> values[ns]]

\* _identifier_person, person_for_identifier: only a current row names its person.
Owner(ids, ns, v) ==
    IF v \in DOMAIN ids[ns] /\ ids[ns][v].current THEN ids[ns][v].person ELSE Nobody

\* _canonical_key: the strongest identifier given.
Rank == [toolhubId |-> 1, globalId |-> 2, uidNumber |-> 3,
         toolhubName |-> 4, developerName |-> 5, wikiName |-> 6]
Strongest(S) == CHOOSE n \in S : \A m \in S : Rank[n] <= Rank[m]
KeyOf(who) == LET ns == Strongest(DOMAIN who \cap DOMAIN Rank)  IN  <<ns, who[ns]>>

\* ensure_person: an immutable id is authoritative; a handle selects a person only
\* when no immutable id is given.
Considered(who) == IF DOMAIN who \cap Stable # {} THEN Stable ELSE Handles

Owning(g, who) ==
    {n \in DOMAIN who \cap DOMAIN Rank \cap Considered(who) : Owner(g.ids, n, who[n]) # Nobody}
Keyed(g, who) == {p \in DOMAIN g.keys : g.keys[p] = KeyOf(who)}

Chosen(g, who) ==
    IF Owning(g, who) # {}
    THEN LET ns == Strongest(Owning(g, who))  IN  Owner(g.ids, ns, who[ns])
    ELSE IF Keyed(g, who) # {} THEN CHOOSE p \in Keyed(g, who) : TRUE
    ELSE Len(g.keys) + 1

\* _retire_superseded_handles: the person's other handles of this namespace.
Superseded(rows, p, v) ==
    [w \in DOMAIN rows |->
        [rows[w] EXCEPT !.current = @ /\ (rows[w].person # p \/ w = v)]]

\* Mutant: whoever bore a handle first keeps it.
FirstBearer(rows, ns, p, v, authoritative) ==
    IF v \in DOMAIN rows /\ rows[v].person # p THEN rows
    ELSE [w \in DOMAIN rows \cup {v} |->
            IF w = v THEN [person |-> p, current |-> TRUE] ELSE rows[w]]

\* _upsert_identifier: only a handle, and only with an immutable id behind it, moves.
Upserted(rows, ns, p, v, authoritative) ==
    LET taken == v \in DOMAIN rows /\ rows[v].person # p
        kept  == [w \in DOMAIN rows \cup {v} |->
                    IF w = v THEN [person |-> p, current |-> TRUE] ELSE rows[w]]
    IN  IF taken /\ (~authoritative \/ ns \in Stable) THEN rows ELSE kept

EnsuredAs(g, who, p, stable) ==
    [g EXCEPT !.keys = IF p > Len(g.keys) THEN Append(g.keys, KeyOf(who))
                       ELSE IF stable THEN [g.keys EXCEPT ![p] = KeyOf(who)]
                       ELSE g.keys,
              !.ids = [ns \in Namespaces |->
                         IF ns \notin DOMAIN who THEN g.ids[ns]
                         ELSE Upserted(IF stable /\ ns \in Handles
                                       THEN Superseded(g.ids[ns], p, who[ns]) ELSE g.ids[ns],
                                       ns, p, who[ns], stable)]]
Ensured(g, who) == EnsuredAs(g, who, Chosen(g, who), DOMAIN who \cap Stable # {})

\* What an official Toolhub account says of its owner.
Official(t, row) == Given([toolhubId |-> t, globalId |-> row.global, toolhubName |-> row.name])

\* ensure_official_account_person: nothing when the two immutable ids disagree.
Disagree(a, b) == a # Nobody /\ b # Nobody /\ a # b
GlobalOwner(ids, row) == IF row.global = None THEN Nobody ELSE Owner(ids, "globalId", row.global)

EnsuredOfficial(g, t, row) ==
    IF Disagree(Owner(g.ids, "toolhubId", t), GlobalOwner(g.ids, row))
    THEN g ELSE Ensured(g, Official(t, row))

\* attach_verified_external_account, for a Toolforge account: its number, and the two
\* handles it bears now.
Attached(g, p, u, row) ==
    [g EXCEPT !.ids = [g.ids EXCEPT
        !["uidNumber"]     = Upserted(@, "uidNumber", p, u, FALSE),
        !["developerName"] = Upserted(Superseded(@, p, row.developer), "developerName", p, row.developer, TRUE),
        !["shellName"]     = Upserted(Superseded(@, p, row.shell), "shellName", p, row.shell, TRUE)]]

\* _set_binding raises when the account is verified for somebody else.
Contradicts(g, a, p) == g.binds[a].status = "verified" /\ g.binds[a].person # p
SetBinding(g, a, p, status, proof) == [g EXCEPT !.binds[a] = Binding(p, status, proof)]

\* bind_toolforge_account: the number belongs to nobody else, and no other person is
\* verified for the account.
Bindable(g, u, p) == Owner(g.ids, "uidNumber", u) \in {Nobody, p}
Accepted(g, u, p) == Bindable(g, u, p) /\ ~Contradicts(g, <<"toolforge", u>>, p)

Bound(g, u, row, p, proof) ==
    SetBinding(Attached(g, p, u, row), <<"toolforge", u>>, p, "verified", proof)

\* Do to the graph, or what stands for it, for each of the ids, from the least.
ForEach(ids, Do(_, _), g) ==
    MapThenFoldSet(LAMBDA i, h : Do(h, i), g, LAMBDA i : i, LAMBDA s : Max(s), ids)

VerifiedPerson(g, a) == IF g.binds[a].status = "verified" THEN g.binds[a].person ELSE Nobody
=============================================================================
