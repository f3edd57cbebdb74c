------------------------------- MODULE Grants -------------------------------
(***************************************************************************)
(* toolhub.py, oauth.py: the grant by which Evolved writes to Toolhub for  *)
(* one user, and the session by which the user reaches Evolved.            *)
(*                                                                         *)
(* Toolhub issues tokens in pairs, numbered as they are issued; a refresh  *)
(* ends the pair it is made with.  Encryption is a bit that says whether   *)
(* the key of today opens the row; a token is due when it ends within the  *)
(* refresh skew.  Identity and roles are left out.                         *)
(***************************************************************************)
EXTENDS Integers

CONSTANTS MaxPairs      \* bound: pairs Toolhub issues

ASSUME GrantsAssumption == MaxPairs \in Nat \ {0}

VARIABLES
    grant,          \* toolhub_tokens: the row of the user
    access,         \* the pairs whose access token Toolhub honours
    refresh,        \* the pairs whose refresh token Toolhub honours
    issued,         \* pairs issued so far
    signed,         \* the cookie carries the user's current session epoch
    leaving,        \* sign-outs that have removed the grant and not yet bumped the epoch
    crossed         \* history: the last sign-in came between the two steps of a sign-out

grantVars == <<grant, access, refresh, issued, signed, leaving, crossed>>

Pairs == 1 .. MaxPairs
NoGrant == [pair |-> 0, due |-> FALSE, readable |-> TRUE]
Grant(n) == [pair |-> n, due |-> FALSE, readable |-> TRUE]
GrantRows == [pair : Pairs, due : BOOLEAN, readable : BOOLEAN] \cup {NoGrant}

GrantsType ==
    /\ grant \in GrantRows
    /\ access \subseteq 1 .. issued /\ refresh \subseteq 1 .. issued
    /\ issued \in 0 .. MaxPairs
    /\ signed \in BOOLEAN /\ leaving \in Nat /\ crossed \in BOOLEAN

GrantsInit ==
    /\ grant = NoGrant
    /\ access = {} /\ refresh = {} /\ issued = 0
    /\ signed = FALSE /\ leaving = 0 /\ crossed = FALSE

\* Toolhub's token endpoint.
Issue(ended) ==
    /\ issued < MaxPairs
    /\ issued' = issued + 1
    /\ access' = (access \ ended) \cup {issued + 1}
    /\ refresh' = (refresh \ ended) \cup {issued + 1}

\* oauth_callback: the code is exchanged, the account and its grant are stored in one
\* transaction, and the cookie carries the epoch read there.  Any browser may sign in at any
\* moment, whatever the others do.
Login ==
    /\ Issue({})
    /\ grant' = Grant(issued + 1)
    /\ signed' = TRUE
    /\ crossed' = (leaving > 0)
    /\ UNCHANGED leaving

\* oauth_logout: two transactions.  The cookie need not carry the current epoch.
Forget ==
    /\ issued > 0
    /\ grant' = NoGrant
    /\ leaving' = leaving + 1
    /\ UNCHANGED <<access, refresh, issued, signed, crossed>>

Strand ==
    /\ leaving > 0
    /\ signed' = FALSE /\ leaving' = leaving - 1
    /\ UNCHANGED <<grant, access, refresh, issued, crossed>>

\* _load_grant: what is read decides what the request does next.
GrantStep ==
    IF grant = NoGrant THEN "reauth"
    ELSE IF ~grant.readable THEN "revoke"
    ELSE IF grant.due THEN "refresh" ELSE "call"

\* revoke_local_grant, after a row that did not open: its own transaction.
Revoke == grant' = NoGrant /\ UNCHANGED <<access, refresh, issued, signed, leaving, crossed>>

\* refresh_grant, when Toolhub answers it.
Renew(n) ==
    /\ n \in refresh
    /\ Issue({n})
    /\ UNCHANGED <<grant, signed, leaving, crossed>>

\* The row loaded is updated; a row that is gone makes the flush fail (fault: the row is
\* written whether or not it is still there).
KeepsAlways == TRUE
Keeps == grant # NoGrant
SaveGrant(n) ==
    /\ grant' = IF Keeps THEN Grant(n) ELSE grant
    /\ UNCHANGED <<access, refresh, issued, signed, leaving, crossed>>

\* The clock, Toolhub and the operator.
Expires ==
    /\ grant # NoGrant /\ ~grant.due
    /\ grant' = [grant EXCEPT !.due = TRUE]
    /\ UNCHANGED <<access, refresh, issued, signed, leaving, crossed>>

Withdraw(n) ==
    /\ n \in access \cup refresh
    /\ access' = access \ {n} /\ refresh' = refresh \ {n}
    /\ UNCHANGED <<grant, issued, signed, leaving, crossed>>

RotateKey ==
    /\ grant # NoGrant /\ grant.readable
    /\ grant' = [grant EXCEPT !.readable = FALSE]
    /\ UNCHANGED <<access, refresh, issued, signed, leaving, crossed>>
=============================================================================
