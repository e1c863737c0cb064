------------------------------- MODULE Authz -------------------------------
(***************************************************************************)
(* The write side of the authz schema.  One action per SQL function that   *)
(* changes a table; each is one transaction: its guards, its writes and    *)
(* the audit rows log_audit adds before it commits.  A call whose guard    *)
(* fails raises and rolls back, which changes nothing, so it is no step.   *)
(*                                                                         *)
(* An actor is any principal: the functions take it as an argument from a  *)
(* trusted server and ask only what it holds.                              *)
(***************************************************************************)
EXTENDS Resolution, Sequences

CONSTANTS
    Master, Admin, TenantAdmin,  \* the rows the bootstrap migration inserts
    RoleNames,                   \* names update_role and create_role may be given
    Expiries,                    \* expires_at values callers pass
    MaxTime                      \* bound on the clock

ASSUME BootstrapIds ==
    /\ Master \in TenantIds
    /\ Admin \in RoleIds /\ TenantAdmin \in RoleIds /\ Admin # TenantAdmin
    /\ Reserved \subseteq ScopeIds /\ Reserved \subseteq ScopeNames
    /\ {"admin", "tenant_admin"} \subseteq RoleNames

ASSUME DistinctIds ==
    /\ UserIds \cap KeyIds = {}
    /\ None \notin TenantIds \cup UserIds \cup KeyIds \cup ScopeNames \cup RoleNames
    /\ None \notin BOOLEAN \cup Nat

ASSUME ClockBounds ==
    /\ MaxTime \in Nat
    /\ Expiries \subseteq Nat \cup {None}

VARIABLE
    wrote   \* the audit rows the last transaction appended to audit_logs

tables == <<tenants, roles, scopes, roleScopes, users, keys, bindings>>
vars == <<tables, now, wrote>>

PrincipalIds == UserIds \cup KeyIds
Bindings == PrincipalIds \X RoleIds \X TenantIds
Times == 0..MaxTime

-----------------------------------------------------------------------------
(* Rows *)

\* SQL coalesce for the "null arguments leave a column alone" functions.
Coalesce(arg, column) == IF arg = None THEN column ELSE arg

AuditRow(action, actor, tenant, target, before, after) ==
    [action |-> action, actor |-> actor, tenant |-> tenant, target |-> target,
     before |-> before, after |-> after]

NewIdentity == [linked |-> FALSE, claimed |-> FALSE, off |-> FALSE]

\* claimed_at is set and auth_user_id has gone back to null.
Retired(p) == p \in DOMAIN users /\ users[p].claimed /\ ~users[p].linked

Grant(actor, e) == [by |-> actor, expires |-> e, revoked |-> None]

-----------------------------------------------------------------------------
(* The bootstrap migration: the master tenant, the reserved scopes, the    *)
(* crossing role admin with all of them, and tenant_admin without          *)
(* authz.users.write.                                                      *)

Init ==
    /\ tenants = [t \in {Master} |-> [parent |-> None, inherit |-> TRUE]]
    /\ scopes = [n \in Reserved |-> [tenant |-> Master, name |-> n]]
    /\ roles = [r \in {Admin, TenantAdmin} |->
                    [tenant |-> Master, crosses |-> r = Admin,
                     name |-> IF r = Admin THEN "admin" ELSE "tenant_admin"]]
    /\ roleScopes = ({Admin} \X Reserved) \cup ({TenantAdmin} \X (Reserved \ {UsersWrite}))
    /\ users = [p \in {} |-> NewIdentity]
    /\ keys = [k \in {} |-> None]
    /\ bindings = [b \in {} |-> None]
    /\ now = 0
    /\ wrote = << >>

-----------------------------------------------------------------------------
(* grant_role, invite_user, revoke_binding *)

\* You cannot grant what you do not hold, unless you own its definition.
MayDelegate(actor, s, t) ==
    \/ HasScope(actor, t, scopes[s].name)
    \/ HasScope(actor, scopes[s].tenant, ScopesWrite)

\* Fault: the role's scopes are not looked at.
MissingUnchecked(actor, r, t) == {}

\* v_missing: the scopes of the role the actor may not hand on.
Missing(actor, r, t) ==
    {s \in DOMAIN scopes : <<r, s>> \in roleScopes /\ ~MayDelegate(actor, s, t)}

\* Fault: any role may be granted, not only one visible at t.
MayGrantAnyRole(actor, r, t) ==
    HasScope(actor, t, BindingsGrant) /\ Missing(actor, r, t) = {}

MayGrant(actor, r, t) ==
    /\ HasScope(actor, t, BindingsGrant)
    /\ r \in EffectiveRoles(t)
    /\ Missing(actor, r, t) = {}

\* The upsert on (principal, role, tenant): a grant reinstates a revoked one,
\* and `before` tells the two apart.
GrantRow(actor, b, e) ==
    AuditRow("grant_role", actor, b[3], b,
             IF b \in DOMAIN bindings
             THEN [expires |-> bindings[b].expires, revoked |-> bindings[b].revoked]
             ELSE None,
             [expires |-> e])

\* Fault: on conflict do nothing, so a revoked binding stays revoked.
GrantRoleOnce(actor, p, r, t, e) ==
    LET b == <<p, r, t>>
    IN  /\ p \in Principals /\ ~Retired(p)
        /\ MayGrant(actor, r, t)
        /\ bindings' = IF b \in DOMAIN bindings THEN bindings
                       ELSE Put(bindings, b, Grant(actor, e))
        /\ wrote' = <<GrantRow(actor, b, e)>>
        /\ UNCHANGED <<tenants, roles, scopes, roleScopes, users, keys, now>>

GrantRole(actor, p, r, t, e) ==
    LET b == <<p, r, t>>
    IN  /\ p \in Principals /\ ~Retired(p)
        /\ MayGrant(actor, r, t)
        /\ bindings' = Put(bindings, b, Grant(actor, e))
        /\ wrote' = <<GrantRow(actor, b, e)>>
        /\ UNCHANGED <<tenants, roles, scopes, roleScopes, users, keys, now>>

\* Fault: the identity is looked up and not provisioned.
InviteUserUnprovisioned(actor, t, p, r) ==
    /\ MayGrant(actor, r, t)
    /\ bindings' = Put(bindings, <<p, r, t>>, Grant(actor, None))
    /\ wrote' = <<GrantRow(actor, <<p, r, t>>, None)>>
    /\ UNCHANGED <<tenants, roles, scopes, roleScopes, users, keys, now>>

\* p is the identity of the address; it is provisioned unclaimed when absent.
InviteUser(actor, t, p, r) ==
    LET b == <<p, r, t>>
        provisioned == p \notin DOMAIN users
    IN  /\ ~Retired(p)
        /\ MayGrant(actor, r, t)
        /\ users' = IF provisioned THEN Put(users, p, NewIdentity) ELSE users
        /\ bindings' = Put(bindings, b, Grant(actor, None))
        /\ wrote' = <<GrantRow(actor, b, None),
                      AuditRow("invite_user", actor, t, p, None,
                               [role |-> r, provisioned |-> provisioned])>>
        /\ UNCHANGED <<tenants, roles, scopes, roleScopes, keys, now>>

\* The update of a revocation, given its guard and the revoked_at it writes.
Revoke(actor, b, guard, revoked) ==
    /\ b \in DOMAIN bindings /\ guard
    /\ bindings' = Put(bindings, b, [bindings[b] EXCEPT !.revoked = revoked])
    /\ wrote' = <<AuditRow("revoke_binding", actor, b[3], b,
                           [revoked |-> bindings[b].revoked], [revoked |-> revoked])>>
    /\ UNCHANGED <<tenants, roles, scopes, roleScopes, users, keys, now>>

\* Faults: nobody's authority is asked for; a second revocation undoes the
\* first; a second revocation moves the first one's time.
RevokeBindingUnguarded(actor, b) == Revoke(actor, b, TRUE, now)

RevokeBindingToggles(actor, b) ==
    Revoke(actor, b, HasScope(actor, b[3], BindingsRevoke),
           IF bindings[b].revoked = None THEN now ELSE None)

RevokeBindingAgain(actor, b) == Revoke(actor, b, HasScope(actor, b[3], BindingsRevoke), now)

\* Anchored on the binding's own tenant; the first revoked_at is kept.
RevokeBinding(actor, b) ==
    Revoke(actor, b, HasScope(actor, b[3], BindingsRevoke),
           IF bindings[b].revoked = None THEN now ELSE bindings[b].revoked)

-----------------------------------------------------------------------------
(* create_role, update_role, add_role_scope, remove_role_scope, create_scope *)

CreateRole(actor, r, t, name, crosses) ==
    /\ r \notin DOMAIN roles
    /\ HasScope(actor, t, RolesWrite)
    /\ crosses => HasScope(actor, MasterTenant, RolesWrite)
    \* roles_tenant_name_uq
    /\ \A q \in DOMAIN roles : roles[q].tenant = t => roles[q].name # name
    /\ roles' = Put(roles, r, [tenant |-> t, name |-> name, crosses |-> crosses])
    /\ wrote' = <<AuditRow("create_role", actor, t, r, None,
                           [name |-> name, crosses |-> crosses])>>
    /\ UNCHANGED <<tenants, scopes, roleScopes, users, keys, bindings, now>>

\* name or crosses is None when the caller leaves the column alone.
UpdateRole(actor, r, name, crosses) ==
    LET t == roles[r].tenant
        before == [name |-> roles[r].name, crosses |-> roles[r].crosses]
        after == [name |-> Coalesce(name, roles[r].name),
                  crosses |-> Coalesce(crosses, roles[r].crosses)]
    IN  /\ r \in DOMAIN roles
        /\ HasScope(actor, t, RolesWrite)
        /\ after.crosses # roles[r].crosses => HasScope(actor, MasterTenant, RolesWrite)
        /\ \A q \in DOMAIN roles \ {r} : roles[q].tenant = t => roles[q].name # after.name
        /\ roles' = Put(roles, r, [tenant |-> t, name |-> after.name,
                                   crosses |-> after.crosses])
        /\ wrote' = <<AuditRow("update_role", actor, t, r, before, after)>>
        /\ UNCHANGED <<tenants, scopes, roleScopes, users, keys, bindings, now>>

AddRoleScope(actor, r, s) ==
    LET t == roles[r].tenant
    IN  /\ r \in DOMAIN roles
        /\ HasScope(actor, t, RolesWrite)
        /\ s \in EffectiveScopeDefs(t)
        /\ MayDelegate(actor, s, t)
        /\ roleScopes' = roleScopes \cup {<<r, s>>}
        /\ wrote' = <<AuditRow("add_role_scope", actor, t, r, None, s)>>
        /\ UNCHANGED <<tenants, roles, scopes, users, keys, bindings, now>>

\* Fault: nobody's authority is asked for.
RemoveRoleScopeUnguarded(actor, r, s) ==
    /\ r \in DOMAIN roles
    /\ roleScopes' = roleScopes \ {<<r, s>>}
    /\ wrote' = <<AuditRow("remove_role_scope", actor, roles[r].tenant, r, s, None)>>
    /\ UNCHANGED <<tenants, roles, scopes, users, keys, bindings, now>>

\* The hard delete; the audit row is what remains of the pair.
RemoveRoleScope(actor, r, s) ==
    LET t == roles[r].tenant
    IN  /\ r \in DOMAIN roles
        /\ HasScope(actor, t, RolesWrite)
        /\ roleScopes' = roleScopes \ {<<r, s>>}
        /\ wrote' = <<AuditRow("remove_role_scope", actor, t, r, s, None)>>
        /\ UNCHANGED <<tenants, roles, scopes, users, keys, bindings, now>>

CreateScope(actor, s, t, name) ==
    /\ s \notin DOMAIN scopes
    /\ HasScope(actor, t, ScopesWrite)
    /\ name \in Reserved => HasScope(actor, MasterTenant, ScopesWrite)
    \* scopes_tenant_id_name_uq
    /\ \A q \in DOMAIN scopes : scopes[q].tenant = t => scopes[q].name # name
    /\ scopes' = Put(scopes, s, [tenant |-> t, name |-> name])
    /\ wrote' = <<AuditRow("create_scope", actor, t, s, None, [name |-> name])>>
    /\ UNCHANGED <<tenants, roles, roleScopes, users, keys, bindings, now>>

-----------------------------------------------------------------------------
(* create_tenant, create_workspace, update_tenant *)

\* Fault: the new tenant is not put below its parent.
ChildDetached(parent) == [parent |-> None, inherit |-> TRUE]

Child(parent) == [parent |-> parent, inherit |-> TRUE]

\* Grants nothing: what the actor holds at the parent reaches the child.
CreateTenant(actor, t, parent) ==
    /\ t \notin DOMAIN tenants /\ parent \in DOMAIN tenants
    /\ HasScope(actor, parent, TenantsWrite)
    /\ tenants' = Put(tenants, t, Child(parent))
    /\ wrote' = <<AuditRow("create_tenant", actor, t, t, None, [parent |-> parent])>>
    /\ UNCHANGED <<roles, scopes, roleScopes, users, keys, bindings, now>>

\* No scope check: only that somebody is behind the actor.  The role is the
\* one the master names tenant_admin when the call runs.
CreateWorkspace(actor, t, r) ==
    LET b == <<actor, r, t>>
    IN  /\ PrincipalIsActive(actor)
        /\ t \notin DOMAIN tenants
        /\ r \in DOMAIN roles
        /\ roles[r].tenant = MasterTenant /\ roles[r].name = "tenant_admin"
        /\ tenants' = Put(tenants, t, Child(MasterTenant))
        /\ bindings' = Put(bindings, b, Grant(actor, None))
        /\ wrote' = <<AuditRow("create_workspace", actor, t, t, None,
                               [parent |-> MasterTenant, role |-> r])>>
        /\ UNCHANGED <<roles, scopes, roleScopes, users, keys, now>>

\* Renaming asks at the tenant, changing inherit at its parent.  The name
\* itself is not modelled, only whether the call gives one.
UpdateTenant(actor, t, renames, inherit) ==
    LET after == Coalesce(inherit, tenants[t].inherit)
    IN  /\ t \in DOMAIN tenants
        /\ renames => HasScope(actor, t, TenantsWrite)
        /\ after # tenants[t].inherit =>
               /\ ~IsMaster(t)
               /\ HasScope(actor, tenants[t].parent, TenantsWrite)
        /\ tenants' = Put(tenants, t, [tenants[t] EXCEPT !.inherit = after])
        /\ wrote' = <<AuditRow("update_tenant", actor, t, t,
                               [inherit |-> tenants[t].inherit], [inherit |-> after])>>
        /\ UNCHANGED <<roles, scopes, roleScopes, users, keys, bindings, now>>

-----------------------------------------------------------------------------
(* create_api_key, revoke_api_key *)

\* Only a user issues a key; the key's principal comes with it.
CreateApiKey(actor, k, t, e) ==
    /\ k \notin DOMAIN keys
    /\ HasScope(actor, t, KeysWrite)
    /\ actor \in DOMAIN users
    /\ keys' = Put(keys, k, [tenant |-> t, revoked |-> None, expires |-> e])
    /\ wrote' = <<AuditRow("create_api_key", actor, t, k, None, [expires |-> e])>>
    /\ UNCHANGED <<tenants, roles, scopes, roleScopes, users, bindings, now>>

RevokeApiKey(actor, k) ==
    LET revoked == IF keys[k].revoked = None THEN now ELSE keys[k].revoked
    IN  /\ k \in DOMAIN keys
        /\ HasScope(actor, keys[k].tenant, KeysWrite)
        /\ keys' = Put(keys, k, [keys[k] EXCEPT !.revoked = revoked])
        /\ wrote' = <<AuditRow("revoke_api_key", actor, keys[k].tenant, k,
                               [revoked |-> keys[k].revoked], [revoked |-> revoked])>>
        /\ UNCHANGED <<tenants, roles, scopes, roleScopes, users, bindings, now>>

-----------------------------------------------------------------------------
(* Operator tools and the identity lifecycle, which write no audit row. *)

\* Fault: on conflict do update, which reinstates and leaves no trace.
ProvisionAdminAgain(p, r) ==
    /\ r \in DOMAIN roles
    /\ roles[r].tenant = MasterTenant /\ roles[r].name = "admin"
    /\ users' = IF p \in DOMAIN users THEN users ELSE Put(users, p, NewIdentity)
    /\ bindings' = Put(bindings, <<p, r, MasterTenant>>, Grant(p, None))
    /\ wrote' = << >>
    /\ UNCHANGED <<tenants, roles, scopes, roleScopes, keys, now>>

\* provision_admin, from psql: "on conflict do nothing" leaves a binding
\* that exists as it is, a revoked one included.
ProvisionAdmin(p, r) ==
    LET b == <<p, r, MasterTenant>>
    IN  /\ r \in DOMAIN roles
        /\ roles[r].tenant = MasterTenant /\ roles[r].name = "admin"
        /\ users' = IF p \in DOMAIN users THEN users ELSE Put(users, p, NewIdentity)
        /\ bindings' = IF b \in DOMAIN bindings THEN bindings
                       ELSE Put(bindings, b, Grant(p, None))
        /\ wrote' = << >>
        /\ UNCHANGED <<tenants, roles, scopes, roleScopes, keys, now>>

\* claim_auth_user: the address is confirmed.  An identity that waits is
\* linked, an absent one is created linked, a retired one is left alone.
ClaimAuthUser(p) ==
    /\ p \in DOMAIN users => ~users[p].claimed
    /\ users' = Put(users, p, [linked |-> TRUE, claimed |-> TRUE,
                               off |-> p \in DOMAIN users /\ users[p].off])
    /\ wrote' = << >>
    /\ UNCHANGED <<tenants, roles, scopes, roleScopes, keys, bindings, now>>

\* reclaim_identity, from psql, once the address has a confirmed account.
ReclaimIdentity(p) ==
    /\ p \in DOMAIN users /\ ~users[p].linked
    /\ users' = [users EXCEPT ![p].linked = TRUE, ![p].claimed = TRUE]
    /\ wrote' = << >>
    /\ UNCHANGED <<tenants, roles, scopes, roleScopes, keys, bindings, now>>

\* The Supabase account is deleted: the foreign key sets auth_user_id null.
DeleteAccount(p) ==
    /\ p \in DOMAIN users /\ users[p].linked
    /\ users' = [users EXCEPT ![p].linked = FALSE]
    /\ wrote' = << >>
    /\ UNCHANGED <<tenants, roles, scopes, roleScopes, keys, bindings, now>>

\* disabled_at or deleted_at is set.  No function of the kit does it; the
\* resolution functions read it, so an administrator's tool must.
SwitchOff(p) ==
    /\ p \in DOMAIN users
    /\ users' = [users EXCEPT ![p].off = TRUE]
    /\ wrote' = << >>
    /\ UNCHANGED <<tenants, roles, scopes, roleScopes, keys, bindings, now>>

Tick ==
    /\ now < MaxTime
    /\ now' = now + 1
    /\ wrote' = << >>
    /\ UNCHANGED tables

-----------------------------------------------------------------------------
Membership(actor) ==
    \/ \E p \in Principals, r \in DOMAIN roles, t \in DOMAIN tenants, e \in Expiries :
            GrantRole(actor, p, r, t, e)
    \/ \E t \in DOMAIN tenants, p \in UserIds, r \in DOMAIN roles : InviteUser(actor, t, p, r)
    \/ \E b \in DOMAIN bindings : RevokeBinding(actor, b)

Vocabulary(actor) ==
    \/ \E r \in RoleIds, t \in DOMAIN tenants, n \in RoleNames, c \in BOOLEAN :
            CreateRole(actor, r, t, n, c)
    \/ \E r \in DOMAIN roles, n \in RoleNames \cup {None}, c \in BOOLEAN \cup {None} :
            UpdateRole(actor, r, n, c)
    \/ \E r \in DOMAIN roles, s \in DOMAIN scopes : AddRoleScope(actor, r, s)
    \/ \E r \in DOMAIN roles, s \in DOMAIN scopes : RemoveRoleScope(actor, r, s)
    \/ \E s \in ScopeIds, t \in DOMAIN tenants, n \in ScopeNames : CreateScope(actor, s, t, n)

Tree(actor) ==
    \/ \E t \in TenantIds, parent \in DOMAIN tenants : CreateTenant(actor, t, parent)
    \/ \E t \in TenantIds, r \in DOMAIN roles : CreateWorkspace(actor, t, r)
    \/ \E t \in DOMAIN tenants, n \in BOOLEAN, i \in BOOLEAN \cup {None} :
            UpdateTenant(actor, t, n, i)

ApiKeys(actor) ==
    \/ \E k \in KeyIds, t \in DOMAIN tenants, e \in Expiries : CreateApiKey(actor, k, t, e)
    \/ \E k \in DOMAIN keys : RevokeApiKey(actor, k)

OperatorTools ==
    \/ \E p \in UserIds, r \in DOMAIN roles : ProvisionAdmin(p, r)
    \/ \E p \in UserIds : ClaimAuthUser(p)
    \/ \E p \in UserIds : ReclaimIdentity(p)
    \/ \E p \in UserIds : DeleteAccount(p)
    \/ \E p \in UserIds : SwitchOff(p)

Next ==
    \/ \E actor \in Principals :
            Membership(actor) \/ Vocabulary(actor) \/ Tree(actor) \/ ApiKeys(actor)
    \/ OperatorTools
    \/ Tick

Spec == Init /\ [][Next]_vars

-----------------------------------------------------------------------------
(* Invariants *)

\* Rows are of their types, references exist, and the master is the one root.
TenantsOK ==
    /\ DOMAIN tenants \subseteq TenantIds
    /\ tenants \in [DOMAIN tenants -> [parent : DOMAIN tenants \cup {None}, inherit : BOOLEAN]]
    /\ \A t \in DOMAIN tenants : tenants[t].parent = None <=> t = Master
    /\ Master \in DOMAIN tenants

RolesOK ==
    /\ DOMAIN roles \subseteq RoleIds
    /\ roles \in [DOMAIN roles -> [tenant : DOMAIN tenants, name : RoleNames, crosses : BOOLEAN]]

ScopesOK ==
    /\ DOMAIN scopes \subseteq ScopeIds
    /\ scopes \in [DOMAIN scopes -> [tenant : DOMAIN tenants, name : ScopeNames]]
    /\ roleScopes \subseteq (DOMAIN roles) \X (DOMAIN scopes)

PrincipalsOK ==
    /\ DOMAIN users \subseteq UserIds
    /\ users \in [DOMAIN users -> [linked : BOOLEAN, claimed : BOOLEAN, off : BOOLEAN]]
    /\ DOMAIN keys \subseteq KeyIds
    /\ keys \in [DOMAIN keys -> [tenant : DOMAIN tenants, revoked : Times \cup {None},
                                 expires : Expiries]]

BindingsOK ==
    /\ DOMAIN bindings \subseteq Principals \X (DOMAIN roles) \X (DOMAIN tenants)
    /\ bindings \in [DOMAIN bindings -> [by : Principals, expires : Expiries \cup {None},
                                         revoked : Times \cup {None}]]

\* The actor and the tenant of an audit row exist: log_audit resolves both.
AuditOK ==
    /\ DOMAIN wrote = 1..Len(wrote)
    /\ \A i \in DOMAIN wrote : wrote[i].actor \in Principals /\ wrote[i].tenant \in DOMAIN tenants

\* Every table holds rows of its type whose references exist, the tree has
\* one root, and the rows last written name an existing tenant and actor.
TypeOK ==
    /\ TenantsOK /\ RolesOK /\ ScopesOK /\ PrincipalsOK /\ BindingsOK /\ AuditOK
    /\ now \in Times

\* A tenant is reached only by definitions of its own or of its ancestors: a
\* binding's role is owned at or above the binding's tenant, and a role's
\* scopes are defined at or above the role's tenant, however the tree, the
\* roles and the grants were built up (grant_role's visibility guard,
\* add_role_scope's, and the workspace's self-grant).
NothingFromOtherBranches ==
    /\ \A b \in DOMAIN bindings : roles[b[2]].tenant \in Above(b[3])
    /\ \A rs \in roleScopes : scopes[rs[2]].tenant \in Above(roles[rs[1]].tenant)

\* A grant that has just returned has been given: its principal, if enabled
\* and if the grant is not already expired, holds every scope of the role at
\* the tenant, also when the binding existed and was revoked.
GrantTakesEffect ==
    \A i \in DOMAIN wrote :
        LET b == wrote[i].target IN
        wrote[i].action = "grant_role" /\ Enabled(b[1]) /\ ~Expired(wrote[i].after.expires)
        => \A s \in DOMAIN scopes :
                <<b[2], s>> \in roleScopes => HasScope(b[1], b[3], scopes[s].name)

-----------------------------------------------------------------------------
(* Action properties.  Each speaks of the change one transaction makes to   *)
(* what everybody holds everywhere.                                         *)

\* Who holds what at t: the pairs <<p, s>> with s \in EffectiveScopes(p, t).
Holdings(t) ==
    UNION {{b[1]} \X {scopes[x].name : x \in {y \in DOMAIN scopes : <<b[2], y>> \in roleScopes}} :
              b \in BindingsInForce(t)}

Gains(t) == Holdings(t)' \ Holdings(t)
Losses(t) == Holdings(t) \ Holdings(t)'

\* The actor of the step: it wrote an audit row.
Actor == wrote'[1].actor
Did(action) == wrote' # << >> /\ wrote'[1].action = action

\* The actor is the authority over some definition of the name.
OwnsDefinition(actor, name) ==
    \E s \in DOMAIN scopes : scopes[s].name = name /\ HasScope(actor, scopes[s].tenant, ScopesWrite)

\* No escalation.  Whoever newly holds a scope at a tenant got it from an
\* actor who held it there or owns its definition; or who held it at the
\* tenant of the role or binding it comes through; or by master authority
\* over a crossing role; or at a tenant just created, from its parent or as
\* the workspace's owner; or because its parent's authority took a cut away;
\* or from the operator's own provision_admin.  (grant_role, invite_user,
\* create_role, update_role, add_role_scope, create_tenant, update_tenant.)
GainsAccountedFor ==
    [][\A t \in DOMAIN tenants' : \A g \in Gains(t) : LET q == g[1] s == g[2] IN
        \/ /\ wrote' = << >>
           /\ \E b \in DOMAIN bindings' \ DOMAIN bindings : b[1] = q /\ b[3] = Master
        \/ /\ wrote' # << >>
           /\ \/ HasScope(Actor, t, s)
              \/ OwnsDefinition(Actor, s)
              \/ \E b \in EffectiveBindings(q, t)' : b[2] \in DOMAIN roles /\
                    \/ HasScope(Actor, roles[b[2]].tenant, s)
                    \/ roles'[b[2]].crosses /\ \/ HasScope(Actor, b[3], s)
                                               \/ HasScope(Actor, Master, RolesWrite)
              \/ t \notin DOMAIN tenants /\ \/ HasScope(q, tenants'[t].parent, s)
                                            \/ Did("create_workspace") /\ q = Actor
              \/ \E c \in Above(t) :
                    /\ tenants'[c].inherit /\ ~tenants[c].inherit
                    /\ HasScope(Actor, tenants[c].parent, TenantsWrite)
                    /\ HasScope(q, tenants[c].parent, s)]_vars

\* Oversight.  A user loses a scope at a tenant only to somebody with
\* authority at or above the tenant of every binding that conferred it, or
\* to a cut below it, which it can see and heal: it keeps what it held at
\* the cut tenant's parent, where inherit is set back.  Time, a disabled
\* account and the operator's tools write no row and are set aside.
LossesComeFromAbove ==
    [][\A t \in DOMAIN tenants : \A l \in Losses(t) : LET q == l[1] s == l[2] IN
        \/ wrote' = << >> \/ q \notin UserIds
        \/ \A b \in EffectiveBindings(q, t) :
              (\E x \in DOMAIN scopes : scopes[x].name = s /\ <<b[2], x>> \in roleScopes) =>
              \E a \in Above(b[3]), power \in {BindingsRevoke, BindingsGrant, RolesWrite} :
                  HasScope(Actor, a, power)
        \/ /\ Did("update_tenant")
           /\ \E p \in DOMAIN tenants :
                 tenants[wrote'[1].target].parent = p /\ HasScope(q, p, s)']_vars

\* The platform operator is never locked out from below: what a user holds
\* through a crossing role of the master bound at the master, it loses only
\* to authority at the master, whatever tenants cut, shadow or revoke.
OperatorReach ==
    [][\A t \in DOMAIN tenants : \A l \in Losses(t) : LET q == l[1] s == l[2] IN
        (\E b \in EffectiveBindings(q, t) :
            /\ q \in UserIds /\ b[3] = Master /\ roles[b[2]].tenant = Master /\ roles[b[2]].crosses
            /\ \E x \in DOMAIN scopes : scopes[x].name = s /\ <<b[2], x>> \in roleScopes)
        => \/ wrote' = << >>
           \/ \E power \in {BindingsRevoke, BindingsGrant, RolesWrite} :
                 HasScope(Actor, Master, power)]_vars

\* Withdrawing never grants: no revocation, detachment or cut gives anybody
\* anything anywhere, which is why these calls check no holds-it rule.
NarrowingNarrows ==
    [][(\/ Did("revoke_binding") \/ Did("remove_role_scope") \/ Did("revoke_api_key")
        \/ Did("update_tenant") /\ ~wrote'[1].after.inherit)
       => \A t \in TenantIds : Gains(t) = {}]_vars

\* A revoked grant or key stays revoked, from the moment it was first
\* revoked, through every retry; only a new grant, whose audit row records
\* that moment, clears it.
RevocationStands ==
    [][/\ \A b \in DOMAIN bindings : bindings[b].revoked # None =>
            \/ bindings'[b].revoked = bindings[b].revoked
            \/ /\ Did("grant_role") /\ wrote'[1].target = b
               /\ wrote'[1].before.revoked = bindings[b].revoked
       /\ \A k \in DOMAIN keys : keys[k].revoked # None =>
            keys'[k].revoked = keys[k].revoked]_vars
=============================================================================
