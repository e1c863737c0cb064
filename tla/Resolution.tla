----------------------------- MODULE Resolution -----------------------------
(***************************************************************************)
(* The read side of the authz schema: its tables, and the SQL functions    *)
(* that answer "what does this principal hold at this tenant".             *)
(*                                                                         *)
(* A table is a function from the ids of its rows to the rows, so DOMAIN   *)
(* is the set of rows that exist.  A principals row is created in the same *)
(* transaction as the users or api_keys row behind it and points at        *)
(* exactly that row (principals_exactly_one_of, principals_user_id_uq,     *)
(* principals_api_key_id_uq), so one id stands for the pair.               *)
(*                                                                         *)
(* The ancestor walk of tenant_chain is stated here by what it computes:   *)
(* Above(t) is every tenant the walk visits, Uncut(t) the ones it visits   *)
(* with crossed = false.  Module ChainWalk models the recursive query row  *)
(* by row and TLC checks the two against each other.                       *)
(***************************************************************************)
EXTENDS Integers, FiniteSets

CONSTANTS
    TenantIds,   \* ids a tenants row may have
    RoleIds,     \* ids a roles row may have
    ScopeIds,    \* ids a scopes row may have
    UserIds,     \* identities, one per address (users_email_id_uq)
    KeyIds,      \* api keys
    ScopeNames,  \* names a scope may have, Reserved and the application's
    None         \* SQL null

VARIABLES
    tenants,     \* id -> [parent, inherit]
    roles,       \* id -> [tenant, name, crosses]
    scopes,      \* id -> [tenant, name]
    roleScopes,  \* pairs <<role, scope>>
    users,       \* id -> [linked, claimed, off]
    keys,        \* id -> [tenant, revoked, expires]
    bindings,    \* <<principal, role, tenant>> -> [by, expires, revoked]
    now          \* the time a transaction that starts now would read

-----------------------------------------------------------------------------
\* The scope names the guards of the write functions ask for.
BindingsGrant  == "authz.bindings.grant"
BindingsRevoke == "authz.bindings.revoke"
RolesWrite     == "authz.roles.write"
ScopesWrite    == "authz.scopes.write"
TenantsWrite   == "authz.tenants.write"
UsersWrite     == "authz.users.write"
KeysWrite      == "authz.api_keys.write"

\* The authz. namespace, restricted to the scopes a guard asks for and to
\* authz.users.write, the one scope tenant_admin does not have.
Reserved == {BindingsGrant, BindingsRevoke, RolesWrite, ScopesWrite,
             TenantsWrite, UsersWrite, KeysWrite}

Principals == DOMAIN users \cup DOMAIN keys

\* Write one row of a table: an insert when k is new, an update otherwise.
Put(table, k, row) ==
    [x \in DOMAIN table \cup {k} |-> IF x = k THEN row ELSE table[x]]

-----------------------------------------------------------------------------
(* tenant_chain *)

\* S contains the parent of each of its tenants.
ClosedUp(S) == \A x \in S : tenants[x].parent \in S \cup {None}

\* Fault: the flag is read the wrong way round.
ClosedInheritInverted(S) ==
    \A x \in S : ~tenants[x].inherit => tenants[x].parent \in S \cup {None}

\* S contains the parent of each of its tenants that inherits.
ClosedInherit(S) ==
    \A x \in S : tenants[x].inherit => tenants[x].parent \in S \cup {None}

\* t and its ancestors: the smallest set closed upward that contains t.
Above(t) ==
    LET Closed == {S \in SUBSET DOMAIN tenants : t \in S /\ ClosedUp(S)}
    IN  {a \in DOMAIN tenants : t \in DOMAIN tenants /\ \A S \in Closed : a \in S}

\* The ancestors whose own rows reach t unfiltered (crossed = false).
Uncut(t) ==
    LET Closed == {S \in SUBSET DOMAIN tenants : t \in S /\ ClosedInherit(S)}
    IN  {a \in DOMAIN tenants : t \in DOMAIN tenants /\ \A S \in Closed : a \in S}

IsMaster(t) == t \in DOMAIN tenants /\ tenants[t].parent = None

\* master_tenant_id(); tenants_single_master_uq allows one such row.
MasterTenant == CHOOSE t \in DOMAIN tenants : IsMaster(t)

-----------------------------------------------------------------------------
(* Definitions visible at a tenant: the nearest of each name wins. *)

VisibleRoles(t) ==
    LET above == Above(t)
        uncut == Uncut(t)
    IN  {r \in DOMAIN roles : /\ roles[r].tenant \in above
                              /\ roles[r].tenant \in uncut \/ roles[r].crosses}

\* The ancestors of t form one path, so the nearest definition of a name is
\* the one every other visible definition of that name lies above.
EffectiveRoles(t) ==
    LET visible == VisibleRoles(t)
    IN  {r \in visible :
            \A q \in visible :
                roles[q].name = roles[r].name => roles[q].tenant \in Above(roles[r].tenant)}

\* A scope has no crosses_boundary of its own: past a cut it is visible only
\* by being attached to a crossing role, whichever role that is.
VisibleScopes(t) ==
    LET above == Above(t)
        uncut == Uncut(t)
    IN  {s \in DOMAIN scopes :
            /\ scopes[s].tenant \in above
            /\ \/ scopes[s].tenant \in uncut
               \/ \E r \in DOMAIN roles : <<r, s>> \in roleScopes /\ roles[r].crosses}

EffectiveScopeDefs(t) ==
    LET visible == VisibleScopes(t)
    IN  {s \in visible :
            \A q \in visible :
                scopes[q].name = scopes[s].name => scopes[q].tenant \in Above(scopes[s].tenant)}

-----------------------------------------------------------------------------
(* Grants in force. *)

Expired(e) == e # None /\ e <= now

\* The principal's own row admits its grants.  An unclaimed identity does.
Enabled(p) ==
    \/ p \in DOMAIN users /\ ~users[p].off
    \/ /\ p \in DOMAIN keys
       /\ keys[p].revoked = None
       /\ ~Expired(keys[p].expires)

Live(b) ==
    /\ bindings[b].revoked = None
    /\ ~Expired(bindings[b].expires)
    /\ Enabled(b[1])

\* Faults: no role crosses a cut; a binding is shadowed, like a definition,
\* by a role of the same name nearer to t.
BindingsInForceUncut(t) == {b \in DOMAIN bindings : b[3] \in Uncut(t) /\ Live(b)}

BindingsInForceShadowed(t) ==
    {b \in DOMAIN bindings :
        /\ b[3] \in Above(t)
        /\ b[3] \in Uncut(t) \/ roles[b[2]].crosses
        /\ Live(b)
        /\ \A r \in DOMAIN roles \ {b[2]} :
              roles[r].name = roles[b[2]].name => roles[r].tenant \notin Above(t) \ {b[3]}}

\* Bindings never shadow one another: no merge by name here.
BindingsInForce(t) ==
    LET above == Above(t)
        uncut == Uncut(t)
    IN  {b \in DOMAIN bindings :
            /\ b[3] \in above
            /\ b[3] \in uncut \/ roles[b[2]].crosses
            /\ Live(b)}

EffectiveBindings(p, t) == {b \in BindingsInForce(t) : b[1] = p}

\* Scopes come from each binding's own role, by name.
EffectiveScopes(p, t) ==
    LET held == {b[2] : b \in EffectiveBindings(p, t)}
    IN  {scopes[s].name : s \in {x \in DOMAIN scopes :
                                    \E r \in held : <<r, x>> \in roleScopes}}

HasScope(p, t, name) == name \in EffectiveScopes(p, t)

\* Somebody is behind the principal now: stricter than Enabled for a user.
PrincipalIsActive(p) ==
    /\ Enabled(p)
    /\ p \in DOMAIN users => users[p].linked
=============================================================================
