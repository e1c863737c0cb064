---------------------------- MODULE AuthzProofs ----------------------------
(***************************************************************************)
(* Theorems about Authz, for every set of tenants, roles, scopes,          *)
(* principals and expiries: that the tables stay sound and nothing foreign *)
(* comes into a tenant, that what narrows narrows, and, from there on, who *)
(* holds what: that a grant takes effect, that nobody gains what no actor  *)
(* could hand on, and that nobody below takes from above.                  *)
(***************************************************************************)
EXTENDS Authz, FiniteSetTheorems, TLAPS

-----------------------------------------------------------------------------
(* Lemmas about the tables *)

\* Writing a row of the right type keeps a table typed and adds its id.
LEMMA PutType ==
    ASSUME NEW table, NEW D, NEW R, NEW k, NEW row,
           table \in [D -> R], row \in R
    PROVE  Put(table, k, row) \in [D \cup {k} -> R]
BY DEF Put

\* References stay good while the tables they point into only grow.
LEMMA ReferencesKept ==
    ASSUME TypeOK,
           DOMAIN tenants \subseteq DOMAIN tenants',
           DOMAIN roles \subseteq DOMAIN roles',
           DOMAIN scopes \subseteq DOMAIN scopes',
           Principals \subseteq Principals'
    PROVE  /\ UNCHANGED tenants => TenantsOK'
           /\ UNCHANGED roles => RolesOK'
           /\ UNCHANGED <<scopes, roleScopes>> => ScopesOK'
           /\ UNCHANGED <<users, keys>> => PrincipalsOK'
           /\ UNCHANGED bindings => BindingsOK'
<1>1. UNCHANGED tenants => TenantsOK'
  BY DEF TypeOK, TenantsOK
<1>2. UNCHANGED roles => RolesOK'
  BY DEF TypeOK, RolesOK
<1>3. UNCHANGED <<scopes, roleScopes>> => ScopesOK'
  BY DEF TypeOK, ScopesOK
<1>4. UNCHANGED <<users, keys>> => PrincipalsOK'
  BY DEF TypeOK, PrincipalsOK
<1>5. UNCHANGED bindings => BindingsOK'
  BY DEF TypeOK, BindingsOK
<1> QED BY <1>1, <1>2, <1>3, <1>4, <1>5

\* Two audit rows, or one, by an actor and at a tenant that exist.
LEMMA RowsTyped ==
    ASSUME NEW r, r.actor \in Principals', r.tenant \in (DOMAIN tenants)',
           NEW q, q.actor \in Principals', q.tenant \in (DOMAIN tenants)',
           wrote' = <<r>> \/ wrote' = <<r, q>> \/ wrote' = << >>
    PROVE  AuditOK'
BY DEF AuditOK

-----------------------------------------------------------------------------
(* Type correctness *)

LEMMA TypeInit == Init => TypeOK
<1> SUFFICES ASSUME Init PROVE TypeOK
  OBVIOUS
<1> USE BootstrapIds, DistinctIds, ClockBounds
<1>1. TenantsOK
  BY DEF Init, TenantsOK
<1>2. RolesOK
  BY DEF Init, RolesOK
<1>3. ScopesOK
  BY DEF Init, ScopesOK
<1>4. PrincipalsOK /\ BindingsOK
  BY DEF Init, PrincipalsOK, BindingsOK
<1>5. AuditOK /\ now \in Times
  BY DEF Init, AuditOK, Times
<1> QED BY <1>1, <1>2, <1>3, <1>4, <1>5 DEF TypeOK

\* grant_role, invite_user and revoke_binding.
LEMMA TypeMembership ==
    ASSUME TypeOK, NEW actor \in Principals, Membership(actor)
    PROVE  TypeOK'
<1>1. ASSUME NEW p \in Principals, NEW r \in DOMAIN roles, NEW t \in DOMAIN tenants,
             NEW e \in Expiries, GrantRole(actor, p, r, t, e)
      PROVE  TypeOK'
  <2>1. UNCHANGED <<tenants, roles, scopes, roleScopes, users, keys, now>>
    BY <1>1 DEF GrantRole
  <2>2. BindingsOK'
    <3>1. Grant(actor, e) \in [by : Principals, expires : Expiries \cup {None},
                               revoked : Times \cup {None}]
      BY <1>1 DEF Grant
    <3>2. bindings' \in [DOMAIN bindings \cup {<<p, r, t>>} ->
                           [by : Principals, expires : Expiries \cup {None},
                            revoked : Times \cup {None}]]
      BY <1>1, <3>1, PutType DEF GrantRole, TypeOK, BindingsOK
    <3> QED BY <1>1, <2>1, <3>2 DEF TypeOK, BindingsOK, Principals
  <2>3. AuditOK'
    BY <1>1, <2>1, RowsTyped DEF GrantRole, GrantRow, AuditRow, Principals
  <2> QED BY <2>1, <2>2, <2>3, ReferencesKept DEF TypeOK, Principals
<1>2. ASSUME NEW t \in DOMAIN tenants, NEW p \in UserIds, NEW r \in DOMAIN roles,
             InviteUser(actor, t, p, r)
      PROVE  TypeOK'
  <2>1. /\ UNCHANGED <<tenants, roles, scopes, roleScopes, keys, now>>
        /\ users' = IF p \notin DOMAIN users THEN Put(users, p, NewIdentity) ELSE users
        /\ bindings' = Put(bindings, <<p, r, t>>, Grant(actor, None))
    BY <1>2 DEF InviteUser
  <2>2. DOMAIN users' = DOMAIN users \cup {p} /\ PrincipalsOK'
    <3>1. CASE p \in DOMAIN users
      BY <2>1, <3>1 DEF TypeOK, PrincipalsOK
    <3>2. CASE p \notin DOMAIN users
      <4>1. NewIdentity \in [linked : BOOLEAN, claimed : BOOLEAN, off : BOOLEAN]
        BY DEF NewIdentity
      <4>2. users' \in [DOMAIN users \cup {p} ->
                          [linked : BOOLEAN, claimed : BOOLEAN, off : BOOLEAN]]
        BY <2>1, <3>2, <4>1, PutType DEF TypeOK, PrincipalsOK
      <4> QED BY <2>1, <4>2 DEF TypeOK, PrincipalsOK
    <3> QED BY <3>1, <3>2
  <2>3. BindingsOK'
    <3>1. Grant(actor, None) \in [by : Principals', expires : Expiries \cup {None},
                                  revoked : Times \cup {None}]
      BY <2>1, <2>2 DEF Grant, Principals
    <3>2. bindings \in [DOMAIN bindings -> [by : Principals', expires : Expiries \cup {None},
                                            revoked : Times \cup {None}]]
      BY <2>1, <2>2 DEF TypeOK, BindingsOK, Principals
    <3>3. bindings' \in [DOMAIN bindings \cup {<<p, r, t>>} ->
                           [by : Principals', expires : Expiries \cup {None},
                            revoked : Times \cup {None}]]
      BY <2>1, <3>1, <3>2, PutType
    <3> QED BY <2>1, <2>2, <3>3 DEF TypeOK, BindingsOK, Principals
  <2>4. AuditOK'
    BY <1>2, <2>1, <2>2, RowsTyped DEF InviteUser, GrantRow, AuditRow, Principals
  <2> QED BY <2>1, <2>2, <2>3, <2>4, ReferencesKept DEF TypeOK, Principals
<1>3. ASSUME NEW b \in DOMAIN bindings, RevokeBinding(actor, b)
      PROVE  TypeOK'
  <2>1. PICK revoked \in Times \cup {None} :
            /\ bindings' = Put(bindings, b, [bindings[b] EXCEPT !.revoked = revoked])
            /\ wrote' = <<AuditRow("revoke_binding", actor, b[3], b,
                           [revoked |-> bindings[b].revoked], [revoked |-> revoked])>>
            /\ UNCHANGED <<tenants, roles, scopes, roleScopes, users, keys, now>>
    BY <1>3 DEF RevokeBinding, Revoke, TypeOK, BindingsOK
  <2>2. BindingsOK'
    <3>1. [bindings[b] EXCEPT !.revoked = revoked] \in
             [by : Principals, expires : Expiries \cup {None}, revoked : Times \cup {None}]
      BY <1>3 DEF TypeOK, BindingsOK
    <3>2. bindings' \in [DOMAIN bindings \cup {b} ->
                           [by : Principals, expires : Expiries \cup {None},
                            revoked : Times \cup {None}]]
      BY <2>1, <3>1, PutType DEF TypeOK, BindingsOK
    <3>3. DOMAIN bindings \cup {b} = DOMAIN bindings
      OBVIOUS
    <3> QED BY <2>1, <3>2, <3>3 DEF TypeOK, BindingsOK, Principals
  <2>3. b[3] \in DOMAIN tenants
    BY <1>3 DEF TypeOK, BindingsOK
  <2>4. AuditOK'
    BY <2>1, <2>3, RowsTyped DEF AuditRow, Principals
  <2> QED BY <2>1, <2>2, <2>4, ReferencesKept DEF TypeOK, Principals
<1> QED BY <1>1, <1>2, <1>3 DEF Membership

\* create_role, update_role, add_role_scope, remove_role_scope, create_scope.
LEMMA TypeVocabulary ==
    ASSUME TypeOK, NEW actor \in Principals, Vocabulary(actor)
    PROVE  TypeOK'
<1> DEFINE RoleRow == [tenant : DOMAIN tenants, name : RoleNames, crosses : BOOLEAN]
<1>1. ASSUME NEW r \in RoleIds, NEW t \in DOMAIN tenants, NEW n \in RoleNames,
             NEW c \in BOOLEAN, CreateRole(actor, r, t, n, c)
      PROVE  TypeOK'
  <2>1. /\ UNCHANGED <<tenants, scopes, roleScopes, users, keys, bindings, now>>
        /\ roles' = Put(roles, r, [tenant |-> t, name |-> n, crosses |-> c])
    BY <1>1 DEF CreateRole
  <2>2. roles' \in [DOMAIN roles \cup {r} -> RoleRow]
    BY <2>1, PutType DEF TypeOK, RolesOK
  <2>3. RolesOK'
    BY <2>1, <2>2 DEF TypeOK, RolesOK
  <2>4. AuditOK'
    BY <1>1, <2>1, RowsTyped DEF CreateRole, AuditRow, Principals
  <2> QED BY <2>1, <2>2, <2>3, <2>4, ReferencesKept DEF TypeOK, Principals
<1>2. ASSUME NEW r \in DOMAIN roles, NEW n \in RoleNames \cup {None},
             NEW c \in BOOLEAN \cup {None}, UpdateRole(actor, r, n, c)
      PROVE  TypeOK'
  <2>1. PICK row \in RoleRow :
           /\ UNCHANGED <<tenants, scopes, roleScopes, users, keys, bindings, now>>
           /\ row.tenant = roles[r].tenant
           /\ roles' = Put(roles, r, row)
    <3>1. Coalesce(n, roles[r].name) \in RoleNames /\ Coalesce(c, roles[r].crosses) \in BOOLEAN
      BY DEF Coalesce, TypeOK, RolesOK
    <3>2. /\ UNCHANGED <<tenants, scopes, roleScopes, users, keys, bindings, now>>
          /\ roles' = Put(roles, r, [tenant |-> roles[r].tenant,
                                     name |-> Coalesce(n, roles[r].name),
                                     crosses |-> Coalesce(c, roles[r].crosses)])
      BY <1>2 DEF UpdateRole
    <3> QED BY <3>1, <3>2 DEF TypeOK, RolesOK
  <2>2. roles' \in [DOMAIN roles \cup {r} -> RoleRow] /\ DOMAIN roles \cup {r} = DOMAIN roles
    BY <2>1, PutType DEF TypeOK, RolesOK
  <2>3. RolesOK'
    BY <2>1, <2>2 DEF TypeOK, RolesOK
  <2>4. AuditOK'
    <3>1. roles[r].tenant \in DOMAIN tenants
      BY DEF TypeOK, RolesOK
    <3> QED BY <1>2, <2>1, <3>1, RowsTyped DEF UpdateRole, AuditRow, Principals
  <2> QED BY <2>1, <2>2, <2>3, <2>4, ReferencesKept DEF TypeOK, Principals
<1>3. ASSUME NEW r \in DOMAIN roles, NEW s \in DOMAIN scopes,
             AddRoleScope(actor, r, s) \/ RemoveRoleScope(actor, r, s)
      PROVE  TypeOK'
  <2>1. /\ UNCHANGED <<tenants, roles, scopes, users, keys, bindings, now>>
        /\ roleScopes' \subseteq roleScopes \cup {<<r, s>>}
    BY <1>3 DEF AddRoleScope, RemoveRoleScope
  <2>2. ScopesOK'
    BY <2>1 DEF TypeOK, ScopesOK
  <2>3. AuditOK'
    <3>1. roles[r].tenant \in DOMAIN tenants
      BY DEF TypeOK, RolesOK
    <3> QED BY <1>3, <2>1, <3>1, RowsTyped DEF AddRoleScope, RemoveRoleScope, AuditRow, Principals
  <2> QED BY <2>1, <2>2, <2>3, ReferencesKept DEF TypeOK, Principals
<1>4. ASSUME NEW s \in ScopeIds, NEW t \in DOMAIN tenants, NEW n \in ScopeNames,
             CreateScope(actor, s, t, n)
      PROVE  TypeOK'
  <2>1. /\ UNCHANGED <<tenants, roles, roleScopes, users, keys, bindings, now>>
        /\ scopes' = Put(scopes, s, [tenant |-> t, name |-> n])
    BY <1>4 DEF CreateScope
  <2>2. scopes' \in [DOMAIN scopes \cup {s} -> [tenant : DOMAIN tenants, name : ScopeNames]]
    BY <2>1, PutType DEF TypeOK, ScopesOK
  <2>3. ScopesOK'
    BY <2>1, <2>2 DEF TypeOK, ScopesOK
  <2>4. AuditOK'
    BY <1>4, <2>1, RowsTyped DEF CreateScope, AuditRow, Principals
  <2> QED BY <2>1, <2>2, <2>3, <2>4, ReferencesKept DEF TypeOK, Principals
<1> QED BY <1>1, <1>2, <1>3, <1>4 DEF Vocabulary

\* A new tenant below an existing one keeps the tree a tree.
LEMMA TypeChild ==
    ASSUME TypeOK, NEW t \in TenantIds, t \notin DOMAIN tenants, NEW parent \in DOMAIN tenants,
           tenants' = Put(tenants, t, Child(parent))
    PROVE  TenantsOK' /\ DOMAIN tenants' = DOMAIN tenants \cup {t}
<1>1. /\ DOMAIN tenants' = DOMAIN tenants \cup {t}
      /\ tenants' \in [DOMAIN tenants \cup {t} ->
                         [parent : DOMAIN tenants \cup {t, None}, inherit : BOOLEAN]]
  BY DEF Put, Child, TypeOK, TenantsOK
<1>2. \A x \in DOMAIN tenants' : tenants'[x].parent = None <=> x = Master
  BY DistinctIds DEF Put, Child, TypeOK, TenantsOK
<1> QED BY <1>1, <1>2 DEF TypeOK, TenantsOK

\* create_tenant, create_workspace and update_tenant.
LEMMA TypeTree ==
    ASSUME TypeOK, NEW actor \in Principals, Tree(actor)
    PROVE  TypeOK'
<1>1. ASSUME NEW t \in TenantIds, NEW parent \in DOMAIN tenants, CreateTenant(actor, t, parent)
      PROVE  TypeOK'
  <2>1. /\ UNCHANGED <<roles, scopes, roleScopes, users, keys, bindings, now>>
        /\ tenants' = Put(tenants, t, Child(parent)) /\ t \notin DOMAIN tenants
    BY <1>1 DEF CreateTenant
  <2>2. TenantsOK' /\ DOMAIN tenants' = DOMAIN tenants \cup {t}
    BY <2>1, TypeChild
  <2>3. AuditOK'
    BY <1>1, <2>1, <2>2, RowsTyped DEF CreateTenant, AuditRow, Principals
  <2> QED BY <2>1, <2>2, <2>3, ReferencesKept DEF TypeOK, Principals
<1>2. ASSUME NEW t \in TenantIds, NEW r \in DOMAIN roles, CreateWorkspace(actor, t, r)
      PROVE  TypeOK'
  <2>1. /\ UNCHANGED <<roles, scopes, roleScopes, users, keys, now>>
        /\ tenants' = Put(tenants, t, Child(MasterTenant)) /\ t \notin DOMAIN tenants
        /\ bindings' = Put(bindings, <<actor, r, t>>, Grant(actor, None))
        /\ roles[r].tenant = MasterTenant
    BY <1>2 DEF CreateWorkspace
  <2>2. MasterTenant \in DOMAIN tenants
    BY <2>1 DEF TypeOK, RolesOK
  <2>3. TenantsOK' /\ DOMAIN tenants' = DOMAIN tenants \cup {t}
    BY <2>1, <2>2, TypeChild
  <2>4. BindingsOK'
    <3>1. Grant(actor, None) \in [by : Principals, expires : Expiries \cup {None},
                                  revoked : Times \cup {None}]
      BY DEF Grant
    <3>2. bindings' \in [DOMAIN bindings \cup {<<actor, r, t>>} ->
                           [by : Principals, expires : Expiries \cup {None},
                            revoked : Times \cup {None}]]
      BY <2>1, <3>1, PutType DEF TypeOK, BindingsOK
    <3> QED BY <2>1, <2>3, <3>2 DEF TypeOK, BindingsOK, Principals
  <2>5. AuditOK'
    BY <1>2, <2>1, <2>3, RowsTyped DEF CreateWorkspace, AuditRow, Principals
  <2> QED BY <2>1, <2>3, <2>4, <2>5, ReferencesKept DEF TypeOK, Principals
<1>3. ASSUME NEW t \in DOMAIN tenants, NEW n \in BOOLEAN, NEW i \in BOOLEAN \cup {None},
             UpdateTenant(actor, t, n, i)
      PROVE  TypeOK'
  <2>1. PICK inherit \in BOOLEAN :
            /\ UNCHANGED <<roles, scopes, roleScopes, users, keys, bindings, now>>
            /\ tenants' = Put(tenants, t, [tenants[t] EXCEPT !.inherit = inherit])
    <3>1. Coalesce(i, tenants[t].inherit) \in BOOLEAN
      BY DEF Coalesce, TypeOK, TenantsOK
    <3>2. /\ UNCHANGED <<roles, scopes, roleScopes, users, keys, bindings, now>>
          /\ tenants' = Put(tenants, t, [tenants[t] EXCEPT
                                           !.inherit = Coalesce(i, tenants[t].inherit)])
      BY <1>3 DEF UpdateTenant
    <3> WITNESS Coalesce(i, tenants[t].inherit) \in BOOLEAN
    <3> QED BY <3>2
  <2>2. DOMAIN tenants' = DOMAIN tenants /\ TenantsOK'
    <3>1. /\ DOMAIN tenants' = DOMAIN tenants
          /\ \A x \in DOMAIN tenants : tenants'[x].parent = tenants[x].parent
          /\ tenants' \in [DOMAIN tenants -> [parent : DOMAIN tenants \cup {None},
                                              inherit : BOOLEAN]]
      BY <2>1 DEF Put, TypeOK, TenantsOK
    <3> QED BY <3>1 DEF TypeOK, TenantsOK
  <2>3. AuditOK'
    <3>1. PICK before, after : wrote' = <<AuditRow("update_tenant", actor, t, t, before, after)>>
      BY <1>3 DEF UpdateTenant
    <3>2. actor \in Principals' /\ t \in DOMAIN tenants'
      BY <2>1, <2>2 DEF Principals
    <3> QED BY <3>1, <3>2, RowsTyped DEF AuditRow
  <2> QED BY <2>1, <2>2, <2>3, ReferencesKept DEF TypeOK, Principals
<1> QED BY <1>1, <1>2, <1>3 DEF Tree

\* create_api_key and revoke_api_key.
LEMMA TypeApiKeys ==
    ASSUME TypeOK, NEW actor \in Principals, ApiKeys(actor)
    PROVE  TypeOK'
<1> DEFINE KeyRow == [tenant : DOMAIN tenants, revoked : Times \cup {None}, expires : Expiries]
<1>1. ASSUME NEW k \in KeyIds, NEW row \in KeyRow, keys' = Put(keys, k, row),
             UNCHANGED <<tenants, roles, scopes, roleScopes, users, bindings, now>>
      PROVE  Principals \subseteq Principals' /\ PrincipalsOK'
  <2>1. keys' \in [DOMAIN keys \cup {k} -> KeyRow]
    BY <1>1, PutType DEF TypeOK, PrincipalsOK
  <2> QED BY <1>1, <2>1 DEF TypeOK, PrincipalsOK, Principals
<1>2. ASSUME NEW k \in KeyIds, NEW t \in DOMAIN tenants, NEW e \in Expiries,
             CreateApiKey(actor, k, t, e)
      PROVE  TypeOK'
  <2>1. /\ UNCHANGED <<tenants, roles, scopes, roleScopes, users, bindings, now>>
        /\ keys' = Put(keys, k, [tenant |-> t, revoked |-> None, expires |-> e])
    BY <1>2 DEF CreateApiKey
  <2>2. Principals \subseteq Principals' /\ PrincipalsOK'
    BY <1>1, <2>1
  <2>3. AuditOK'
    BY <1>2, <2>1, <2>2, RowsTyped DEF CreateApiKey, AuditRow
  <2> QED BY <2>1, <2>2, <2>3, ReferencesKept DEF TypeOK
<1>3. ASSUME NEW k \in DOMAIN keys, RevokeApiKey(actor, k)
      PROVE  TypeOK'
  <2>1. PICK revoked \in Times \cup {None} :
            /\ UNCHANGED <<tenants, roles, scopes, roleScopes, users, bindings, now>>
            /\ keys' = Put(keys, k, [keys[k] EXCEPT !.revoked = revoked])
    BY <1>3 DEF RevokeApiKey, TypeOK, PrincipalsOK
  <2>2. Principals \subseteq Principals' /\ PrincipalsOK'
    <3>1. [keys[k] EXCEPT !.revoked = revoked] \in KeyRow /\ k \in KeyIds
      BY DEF TypeOK, PrincipalsOK
    <3> QED BY <1>1, <2>1, <3>1
  <2>3. AuditOK'
    <3>1. keys[k].tenant \in DOMAIN tenants
      BY DEF TypeOK, PrincipalsOK
    <3> QED BY <1>3, <2>1, <2>2, <3>1, RowsTyped DEF RevokeApiKey, AuditRow
  <2> QED BY <2>1, <2>2, <2>3, ReferencesKept DEF TypeOK
<1> QED BY <1>2, <1>3 DEF ApiKeys

\* provision_admin, claim_auth_user, reclaim_identity, and what happens to
\* an account.
LEMMA TypeOperatorTools ==
    ASSUME TypeOK, OperatorTools
    PROVE  TypeOK'
<1> DEFINE UserRow == [linked : BOOLEAN, claimed : BOOLEAN, off : BOOLEAN]
<1>1. ASSUME NEW p \in UserIds,
             users' \in [DOMAIN users \cup {p} -> UserRow], UNCHANGED <<tenants, keys>>
      PROVE  Principals \subseteq Principals' /\ PrincipalsOK'
  BY <1>1 DEF TypeOK, PrincipalsOK, Principals
<1>2. wrote' = << >> /\ UNCHANGED <<tenants, roles, scopes, roleScopes, keys, now>>
  BY DEF OperatorTools, ProvisionAdmin, ClaimAuthUser, ReclaimIdentity, DeleteAccount, SwitchOff
<1>3. AuditOK'
  BY <1>2 DEF AuditOK
<1>4. ASSUME NEW p \in UserIds, NEW r \in DOMAIN roles, ProvisionAdmin(p, r)
      PROVE  TypeOK'
  <2>1. users' \in [DOMAIN users \cup {p} -> UserRow] /\ p \in Principals'
    <3>1. CASE p \in DOMAIN users
      BY <1>2, <1>4, <3>1 DEF ProvisionAdmin, TypeOK, PrincipalsOK, Principals
    <3>2. CASE p \notin DOMAIN users
      <4>1. NewIdentity \in UserRow
        BY DEF NewIdentity
      <4>2. users' = Put(users, p, NewIdentity)
        BY <1>4, <3>2 DEF ProvisionAdmin
      <4>3. users' \in [DOMAIN users \cup {p} -> UserRow]
        BY <4>1, <4>2, PutType DEF TypeOK, PrincipalsOK
      <4> QED BY <4>3 DEF Principals
    <3> QED BY <3>1, <3>2
  <2>2. Principals \subseteq Principals' /\ PrincipalsOK'
    BY <1>1, <1>2, <2>1
  <2>3. BindingsOK'
    <3> DEFINE b == <<p, r, MasterTenant>>
               Row == [by : Principals', expires : Expiries \cup {None},
                       revoked : Times \cup {None}]
    <3>1. b \in Principals' \X (DOMAIN roles) \X (DOMAIN tenants)
      BY <1>4, <2>1 DEF ProvisionAdmin, TypeOK, RolesOK
    <3>2. /\ bindings \in [DOMAIN bindings -> Row]
          /\ DOMAIN bindings \subseteq Principals' \X (DOMAIN roles) \X (DOMAIN tenants)
      BY <2>2 DEF TypeOK, BindingsOK
    <3>3. Grant(p, None) \in Row
      BY <2>1 DEF Grant
    <3>4. Put(bindings, b, Grant(p, None)) \in [DOMAIN bindings \cup {b} -> Row]
      BY <3>2, <3>3, PutType
    <3>5. bindings' = bindings \/ bindings' = Put(bindings, b, Grant(p, None))
      BY <1>4 DEF ProvisionAdmin
    <3>6. /\ bindings' \in [DOMAIN bindings' -> Row]
          /\ DOMAIN bindings' \subseteq Principals' \X (DOMAIN roles) \X (DOMAIN tenants)
      BY <3>1, <3>2, <3>4, <3>5
    <3> QED BY <1>2, <3>6 DEF BindingsOK
  <2> QED BY <1>2, <1>3, <2>2, <2>3, ReferencesKept DEF TypeOK
<1>5. ASSUME NEW p \in UserIds,
             \/ ClaimAuthUser(p) \/ ReclaimIdentity(p) \/ DeleteAccount(p) \/ SwitchOff(p)
      PROVE  TypeOK'
  <2>1. UNCHANGED bindings
    BY <1>5 DEF ClaimAuthUser, ReclaimIdentity, DeleteAccount, SwitchOff
  <2>2. users' \in [DOMAIN users \cup {p} -> UserRow]
    <3>1. CASE ClaimAuthUser(p)
      <4>1. [linked |-> TRUE, claimed |-> TRUE, off |-> p \in DOMAIN users /\ users[p].off]
              \in UserRow
        BY DEF TypeOK, PrincipalsOK
      <4> QED BY <3>1, <4>1, PutType DEF ClaimAuthUser, TypeOK, PrincipalsOK
    <3>2. CASE ReclaimIdentity(p)
      BY <3>2 DEF ReclaimIdentity, TypeOK, PrincipalsOK
    <3>3. CASE DeleteAccount(p)
      BY <3>3 DEF DeleteAccount, TypeOK, PrincipalsOK
    <3>4. CASE SwitchOff(p)
      BY <3>4 DEF SwitchOff, TypeOK, PrincipalsOK
    <3> QED BY <1>5, <3>1, <3>2, <3>3, <3>4
  <2>3. Principals \subseteq Principals' /\ PrincipalsOK'
    BY <1>1, <1>2, <2>2
  <2> QED BY <1>2, <1>3, <2>1, <2>3, ReferencesKept DEF TypeOK
<1> QED BY <1>4, <1>5 DEF OperatorTools

LEMMA TypeStep == TypeOK /\ [Next]_vars => TypeOK'
<1> SUFFICES ASSUME TypeOK, [Next]_vars PROVE TypeOK'
  OBVIOUS
<1>1. CASE \E actor \in Principals :
              Membership(actor) \/ Vocabulary(actor) \/ Tree(actor) \/ ApiKeys(actor)
  BY <1>1, TypeMembership, TypeVocabulary, TypeTree, TypeApiKeys
<1>2. CASE OperatorTools
  BY <1>2, TypeOperatorTools
<1>3. CASE Tick
  <2>1. now' \in Times
    BY <1>3, ClockBounds DEF Tick, TypeOK, Times
  <2>2. AuditOK' /\ UNCHANGED tables
    BY <1>3 DEF Tick, AuditOK
  <2> QED BY <2>1, <2>2, ReferencesKept DEF TypeOK, tables, Principals
<1>4. CASE UNCHANGED vars
  <2>1. UNCHANGED <<now, wrote>> /\ UNCHANGED tables
    BY <1>4 DEF vars
  <2>2. AuditOK'
    BY <2>1 DEF AuditOK, TypeOK, tables, Principals
  <2> QED BY <2>1, <2>2, ReferencesKept DEF TypeOK, tables, Principals
<1> QED BY <1>1, <1>2, <1>3, <1>4 DEF Next

\* Every reachable state of every instance is well typed: references exist,
\* the tree has the master as its one root, and audit rows name an actor and
\* a tenant that exist.
THEOREM TypeCorrect == Spec => []TypeOK
BY TypeInit, TypeStep, PTL DEF Spec

-----------------------------------------------------------------------------
(* Nothing reaches a tenant from another branch *)

\* The walk from a tenant visits the tenant itself.
LEMMA AboveSelf ==
    ASSUME NEW t \in DOMAIN tenants
    PROVE  t \in Above(t)
BY DEF Above

\* Ancestors depend on the parents alone.
LEMMA AboveSame ==
    ASSUME DOMAIN tenants' = DOMAIN tenants,
           \A x \in DOMAIN tenants : tenants'[x].parent = tenants[x].parent
    PROVE  \A t : Above(t)' = Above(t)
<1>1. \A S \in SUBSET DOMAIN tenants : ClosedUp(S)' <=> ClosedUp(S)
  BY DEF ClosedUp
<1> QED BY <1>1 DEF Above

\* A new leaf takes no ancestor from anybody, and has its parent above it.
LEMMA AboveChild ==
    ASSUME TypeOK, NEW t \in TenantIds, t \notin DOMAIN tenants, NEW parent \in DOMAIN tenants,
           tenants' = Put(tenants, t, Child(parent))
    PROVE  /\ \A x \in DOMAIN tenants : Above(x) \subseteq Above(x)'
           /\ parent \in Above(t)'
<1>1. /\ DOMAIN tenants' = DOMAIN tenants \cup {t}
      /\ tenants'[t].parent = parent
      /\ \A x \in DOMAIN tenants : tenants'[x] = tenants[x]
  BY DEF Put, Child
<1>2. ASSUME NEW x \in DOMAIN tenants, NEW a \in Above(x),
             NEW S \in SUBSET DOMAIN tenants', x \in S, ClosedUp(S)'
      PROVE  a \in S
  <2> DEFINE Old == S \cap DOMAIN tenants
  <2>1. ClosedUp(Old)
    <3>1. ASSUME NEW y \in Old PROVE tenants[y].parent \in Old \cup {None}
      BY <1>1, <1>2, <3>1 DEF ClosedUp, TypeOK, TenantsOK
    <3> QED BY <3>1 DEF ClosedUp
  <2>2. Old \in SUBSET DOMAIN tenants /\ x \in Old
    BY <1>2
  <2>3. a \in Old
    BY <2>1, <2>2 DEF Above
  <2> QED BY <2>3
<1>3. \A x \in DOMAIN tenants : Above(x) \subseteq Above(x)'
  <2> SUFFICES ASSUME NEW x \in DOMAIN tenants, NEW a \in Above(x) PROVE a \in Above(x)'
    OBVIOUS
  <2>1. a \in DOMAIN tenants' /\ x \in DOMAIN tenants'
    BY <1>1 DEF Above
  <2> QED BY <1>2, <2>1 DEF Above
<1>4. ASSUME NEW S \in SUBSET DOMAIN tenants', t \in S, ClosedUp(S)'
      PROVE  parent \in S
  BY <1>1, <1>4, DistinctIds DEF ClosedUp, TypeOK, TenantsOK
<1>5. parent \in Above(t)'
  BY <1>1, <1>4 DEF Above
<1> QED BY <1>3, <1>5

\* What to show of a step: tenants keep their ancestors, definitions their
\* tenants, and what is new refers upward.
LEMMA BranchesKept ==
    ASSUME TypeOK, NothingFromOtherBranches,
           \A x \in DOMAIN tenants : Above(x) \subseteq Above(x)',
           \A r \in DOMAIN roles : roles'[r].tenant = roles[r].tenant,
           \A s \in DOMAIN scopes : scopes'[s].tenant = scopes[s].tenant,
           \A b \in DOMAIN bindings' \ DOMAIN bindings : roles'[b[2]].tenant \in Above(b[3])',
           \A rs \in roleScopes' \ roleScopes :
               scopes'[rs[2]].tenant \in Above(roles[rs[1]].tenant)'
    PROVE  NothingFromOtherBranches'
<1>1. ASSUME NEW b \in DOMAIN bindings PROVE roles'[b[2]].tenant \in Above(b[3])'
  <2>1. b[2] \in DOMAIN roles /\ b[3] \in DOMAIN tenants
    BY DEF TypeOK, BindingsOK
  <2>2. roles[b[2]].tenant \in Above(b[3])
    BY DEF NothingFromOtherBranches
  <2> QED BY <2>1, <2>2
<1>2. ASSUME NEW rs \in roleScopes
      PROVE  scopes'[rs[2]].tenant \in Above(roles[rs[1]].tenant)'
  <2>1. rs[1] \in DOMAIN roles /\ rs[2] \in DOMAIN scopes
    BY DEF TypeOK, ScopesOK
  <2>2. roles[rs[1]].tenant \in DOMAIN tenants
    BY <2>1 DEF TypeOK, RolesOK
  <2>3. scopes[rs[2]].tenant \in Above(roles[rs[1]].tenant)
    BY DEF NothingFromOtherBranches
  <2> QED BY <2>1, <2>2, <2>3
<1> QED BY <1>1, <1>2 DEF NothingFromOtherBranches

\* A role visible at a tenant is defined at or above it; so is a scope.
LEMMA VisibleIsAbove ==
    ASSUME NEW t
    PROVE  /\ \A r \in EffectiveRoles(t) : roles[r].tenant \in Above(t)
           /\ \A s \in EffectiveScopeDefs(t) : scopes[s].tenant \in Above(t)
BY DEF EffectiveRoles, VisibleRoles, EffectiveScopeDefs, VisibleScopes

LEMMA BranchesMembership ==
    ASSUME TypeOK, NothingFromOtherBranches, NEW actor \in Principals, Membership(actor)
    PROVE  NothingFromOtherBranches'
<1>1. UNCHANGED <<tenants, roles, scopes, roleScopes>>
  BY DEF Membership, GrantRole, InviteUser, RevokeBinding, Revoke
<1>2. \A t : Above(t)' = Above(t)
  BY <1>1, AboveSame
<1>3. ASSUME NEW b \in DOMAIN bindings' \ DOMAIN bindings
      PROVE  roles[b[2]].tenant \in Above(b[3])
  <2>1. ASSUME NEW p \in Principals, NEW r \in DOMAIN roles, NEW t \in DOMAIN tenants,
               NEW e \in Expiries, GrantRole(actor, p, r, t, e)
        PROVE  roles[b[2]].tenant \in Above(b[3])
    <3>1. bindings' = Put(bindings, <<p, r, t>>, Grant(actor, e)) /\ r \in EffectiveRoles(t)
      BY <2>1 DEF GrantRole, MayGrant
    <3>2. b = <<p, r, t>>
      BY <1>3, <3>1 DEF Put
    <3> QED BY <3>1, <3>2, VisibleIsAbove
  <2>2. ASSUME NEW t \in DOMAIN tenants, NEW p \in UserIds, NEW r \in DOMAIN roles,
               InviteUser(actor, t, p, r)
        PROVE  roles[b[2]].tenant \in Above(b[3])
    <3>1. bindings' = Put(bindings, <<p, r, t>>, Grant(actor, None)) /\ r \in EffectiveRoles(t)
      BY <2>2 DEF InviteUser, MayGrant
    <3>2. b = <<p, r, t>>
      BY <1>3, <3>1 DEF Put
    <3> QED BY <3>1, <3>2, VisibleIsAbove
  <2>3. ASSUME NEW c \in DOMAIN bindings, RevokeBinding(actor, c)
        PROVE  roles[b[2]].tenant \in Above(b[3])
    <3>1. DOMAIN bindings' = DOMAIN bindings \cup {c}
      BY <2>3 DEF RevokeBinding, Revoke, Put
    <3> QED BY <1>3, <3>1
  <2> QED BY <2>1, <2>2, <2>3 DEF Membership
<1> QED BY <1>1, <1>2, <1>3, BranchesKept

LEMMA BranchesVocabulary ==
    ASSUME TypeOK, NothingFromOtherBranches, NEW actor \in Principals, Vocabulary(actor)
    PROVE  NothingFromOtherBranches'
<1>1. UNCHANGED <<tenants, bindings>>
  BY DEF Vocabulary, CreateRole, UpdateRole, AddRoleScope, RemoveRoleScope, CreateScope
<1>2. \A t : Above(t)' = Above(t)
  BY <1>1, AboveSame
<1>3. ASSUME NEW r \in RoleIds, NEW t \in DOMAIN tenants, NEW n \in RoleNames,
             NEW c \in BOOLEAN, CreateRole(actor, r, t, n, c)
      PROVE  NothingFromOtherBranches'
  <2>1. /\ UNCHANGED <<scopes, roleScopes>>
        /\ \A x \in DOMAIN roles : roles'[x].tenant = roles[x].tenant
    BY <1>3 DEF CreateRole, Put
  <2> QED BY <1>1, <1>2, <2>1, BranchesKept
<1>4. ASSUME NEW r \in DOMAIN roles, NEW n \in RoleNames \cup {None},
             NEW c \in BOOLEAN \cup {None}, UpdateRole(actor, r, n, c)
      PROVE  NothingFromOtherBranches'
  <2>1. /\ UNCHANGED <<scopes, roleScopes>>
        /\ \A x \in DOMAIN roles : roles'[x].tenant = roles[x].tenant
    BY <1>4 DEF UpdateRole, Put
  <2> QED BY <1>1, <1>2, <2>1, BranchesKept
<1>5. ASSUME NEW r \in DOMAIN roles, NEW s \in DOMAIN scopes,
             AddRoleScope(actor, r, s) \/ RemoveRoleScope(actor, r, s)
      PROVE  NothingFromOtherBranches'
  <2>1. UNCHANGED <<roles, scopes>>
    BY <1>5 DEF AddRoleScope, RemoveRoleScope
  <2>2. \A rs \in roleScopes' \ roleScopes : scopes[rs[2]].tenant \in Above(roles[rs[1]].tenant)
    BY <1>5, VisibleIsAbove DEF AddRoleScope, RemoveRoleScope
  <2> QED BY <1>1, <1>2, <2>1, <2>2, BranchesKept
<1>6. ASSUME NEW s \in ScopeIds, NEW t \in DOMAIN tenants, NEW n \in ScopeNames,
             CreateScope(actor, s, t, n)
      PROVE  NothingFromOtherBranches'
  <2>1. /\ UNCHANGED <<roles, roleScopes>>
        /\ \A x \in DOMAIN scopes : scopes'[x].tenant = scopes[x].tenant
    BY <1>6 DEF CreateScope, Put
  <2> QED BY <1>1, <1>2, <2>1, BranchesKept
<1> QED BY <1>3, <1>4, <1>5, <1>6 DEF Vocabulary

LEMMA BranchesTree ==
    ASSUME TypeOK, NothingFromOtherBranches, NEW actor \in Principals, Tree(actor)
    PROVE  NothingFromOtherBranches'
<1>1. UNCHANGED <<roles, scopes, roleScopes>>
  BY DEF Tree, CreateTenant, CreateWorkspace, UpdateTenant
<1>2. ASSUME NEW t \in TenantIds, NEW parent \in DOMAIN tenants, CreateTenant(actor, t, parent)
      PROVE  NothingFromOtherBranches'
  <2>1. \A x \in DOMAIN tenants : Above(x) \subseteq Above(x)'
    BY <1>2, AboveChild DEF CreateTenant
  <2>2. UNCHANGED bindings
    BY <1>2 DEF CreateTenant
  <2> QED BY <1>1, <2>1, <2>2, BranchesKept
<1>3. ASSUME NEW t \in TenantIds, NEW r \in DOMAIN roles, CreateWorkspace(actor, t, r)
      PROVE  NothingFromOtherBranches'
  <2>1. /\ t \notin DOMAIN tenants
        /\ tenants' = Put(tenants, t, Child(MasterTenant))
        /\ bindings' = Put(bindings, <<actor, r, t>>, Grant(actor, None))
        /\ roles[r].tenant = MasterTenant
    BY <1>3 DEF CreateWorkspace
  <2>2. MasterTenant \in DOMAIN tenants
    BY <2>1 DEF TypeOK, RolesOK
  <2>3. /\ \A x \in DOMAIN tenants : Above(x) \subseteq Above(x)'
        /\ MasterTenant \in Above(t)'
    BY <2>1, <2>2, AboveChild
  <2>4. \A b \in DOMAIN bindings' \ DOMAIN bindings : b = <<actor, r, t>>
    BY <2>1 DEF Put
  <2>5. \A b \in DOMAIN bindings' \ DOMAIN bindings : roles[b[2]].tenant \in Above(b[3])'
    BY <2>1, <2>3, <2>4
  <2> QED BY <1>1, <2>3, <2>5, BranchesKept
<1>4. ASSUME NEW t \in DOMAIN tenants, NEW n \in BOOLEAN, NEW i \in BOOLEAN \cup {None},
             UpdateTenant(actor, t, n, i)
      PROVE  NothingFromOtherBranches'
  <2>1. /\ DOMAIN tenants' = DOMAIN tenants
        /\ \A x \in DOMAIN tenants : tenants'[x].parent = tenants[x].parent
    BY <1>4 DEF UpdateTenant, Put, TypeOK, TenantsOK
  <2>2. \A x : Above(x)' = Above(x)
    BY <2>1, AboveSame
  <2>3. UNCHANGED bindings
    BY <1>4 DEF UpdateTenant
  <2> QED BY <1>1, <2>2, <2>3, BranchesKept
<1> QED BY <1>2, <1>3, <1>4 DEF Tree

LEMMA BranchesRest ==
    ASSUME TypeOK, NothingFromOtherBranches,
           \/ \E actor \in Principals : ApiKeys(actor)
           \/ OperatorTools \/ Tick \/ UNCHANGED vars
    PROVE  NothingFromOtherBranches'
<1>1. UNCHANGED <<tenants, roles, scopes, roleScopes>>
  BY DEF ApiKeys, CreateApiKey, RevokeApiKey, OperatorTools, ProvisionAdmin, ClaimAuthUser,
         ReclaimIdentity, DeleteAccount, SwitchOff, Tick, vars, tables
<1>2. \A t : Above(t)' = Above(t)
  BY <1>1, AboveSame
<1>3. ASSUME NEW b \in DOMAIN bindings' \ DOMAIN bindings
      PROVE  roles[b[2]].tenant \in Above(b[3])
  <2>1. PICK p \in UserIds, r \in DOMAIN roles : ProvisionAdmin(p, r)
    BY <1>3 DEF ApiKeys, CreateApiKey, RevokeApiKey, OperatorTools, ClaimAuthUser,
                ReclaimIdentity, DeleteAccount, SwitchOff, Tick, vars, tables
  <2>2. b = <<p, r, MasterTenant>> /\ roles[r].tenant = MasterTenant
    BY <1>3, <2>1 DEF ProvisionAdmin, Put
  <2>3. roles[r].tenant \in DOMAIN tenants
    BY DEF TypeOK, RolesOK
  <2> QED BY <2>2, <2>3, AboveSelf
<1> QED BY <1>1, <1>2, <1>3, BranchesKept

LEMMA BranchesInit == Init => NothingFromOtherBranches
<1> SUFFICES ASSUME Init PROVE NothingFromOtherBranches
  OBVIOUS
<1>1. \A rs \in roleScopes : scopes[rs[2]].tenant = Master /\ roles[rs[1]].tenant = Master
  BY BootstrapIds DEF Init
<1>2. Master \in DOMAIN tenants /\ DOMAIN bindings = {}
  BY DEF Init
<1> QED BY <1>1, <1>2, AboveSelf DEF NothingFromOtherBranches

\* However the tree, the roles and the grants were built up, a binding's role
\* is defined at or above the binding's tenant and a role's scopes at or
\* above the role's (the visibility guards of grant_role and add_role_scope,
\* the self-grant of create_workspace, the seed of provision_admin).
THEOREM NothingForeign == Spec => []NothingFromOtherBranches
<1>1. TypeOK /\ NothingFromOtherBranches /\ [Next]_vars => NothingFromOtherBranches'
  BY BranchesMembership, BranchesVocabulary, BranchesTree, BranchesRest DEF Next
<1> QED BY <1>1, BranchesInit, TypeCorrect, PTL DEF Spec

-----------------------------------------------------------------------------
(* Withdrawing never grants *)

\* What a pair of Holdings(t) is: a binding in force and a scope of its role.
LEMMA HoldingsPoints ==
    ASSUME NEW t, NEW g
    PROVE  g \in Holdings(t) <=>
              \E b \in BindingsInForce(t), y \in DOMAIN scopes :
                  <<b[2], y>> \in roleScopes /\ g = <<b[1], scopes[y].name>>
<1> DEFINE Names(b) == {scopes[x].name : x \in {y \in DOMAIN scopes : <<b[2], y>> \in roleScopes}}
<1>1. ASSUME g \in Holdings(t)
      PROVE  \E b \in BindingsInForce(t), y \in DOMAIN scopes :
                <<b[2], y>> \in roleScopes /\ g = <<b[1], scopes[y].name>>
  BY <1>1 DEF Holdings
<1>2. ASSUME NEW b \in BindingsInForce(t), NEW y \in DOMAIN scopes,
             <<b[2], y>> \in roleScopes, g = <<b[1], scopes[y].name>>
      PROVE  g \in Holdings(t)
  <2>1. g \in {b[1]} \X Names(b)
    BY <1>2
  <2>2. Holdings(t) = UNION {{c[1]} \X Names(c) : c \in BindingsInForce(t)}
    BY DEF Holdings
  <2> HIDE DEF Names
  <2> QED BY <2>1, <2>2
<1> QED BY <1>1, <1>2

\* Nobody gains where the bindings in force and the scopes of roles shrink.
LEMMA NothingGained ==
    ASSUME NEW t, UNCHANGED scopes, roleScopes' \subseteq roleScopes,
           BindingsInForce(t)' \subseteq BindingsInForce(t)
    PROVE  Gains(t) = {}
<1> SUFFICES ASSUME NEW g \in Holdings(t)' PROVE g \in Holdings(t)
  BY DEF Gains
<1>1. PICK b \in BindingsInForce(t)', y \in DOMAIN scopes :
          <<b[2], y>> \in roleScopes' /\ g = <<b[1], scopes[y].name>>
  BY DEF Holdings
<1>2. b \in BindingsInForce(t) /\ <<b[2], y>> \in roleScopes
  BY <1>1
<1> QED BY <1>1, <1>2, HoldingsPoints

\* The walk reads nothing but tenants.
LEMMA ChainSame ==
    ASSUME UNCHANGED tenants, NEW t
    PROVE  Above(t)' = Above(t) /\ Uncut(t)' = Uncut(t)
BY DEF Above, Uncut, ClosedUp, ClosedInherit

LEMMA RevokeBindingNarrows ==
    ASSUME TypeOK, NEW actor, NEW b \in DOMAIN bindings, RevokeBinding(actor, b), NEW t
    PROVE  Gains(t) = {}
<1>1. UNCHANGED <<tenants, roles, scopes, roleScopes, users, keys, now>>
  BY DEF RevokeBinding, Revoke
<1>2. /\ DOMAIN bindings' = DOMAIN bindings
      /\ bindings'[b].revoked # None
      /\ \A c \in DOMAIN bindings \ {b} : bindings'[c] = bindings[c]
  <2>1. now # None
    BY DistinctIds, ClockBounds DEF TypeOK, Times
  <2> QED BY <2>1 DEF RevokeBinding, Revoke, Put, TypeOK, BindingsOK
<1>3. \A c \in DOMAIN bindings : Live(c)' => Live(c)
  BY <1>1, <1>2 DEF Live, Expired, Enabled
<1>4. BindingsInForce(t)' \subseteq BindingsInForce(t)
  BY <1>1, <1>2, <1>3, ChainSame DEF BindingsInForce
<1> QED BY <1>1, <1>4, NothingGained

LEMMA RemoveRoleScopeNarrows ==
    ASSUME NEW actor, NEW r, NEW s, RemoveRoleScope(actor, r, s), NEW t
    PROVE  Gains(t) = {}
<1>1. /\ UNCHANGED <<tenants, roles, scopes, users, keys, bindings, now>>
      /\ roleScopes' \subseteq roleScopes
  BY DEF RemoveRoleScope
<1>2. BindingsInForce(t)' \subseteq BindingsInForce(t)
  BY <1>1, ChainSame DEF BindingsInForce, Live, Expired, Enabled
<1> QED BY <1>1, <1>2, NothingGained

LEMMA RevokeApiKeyNarrows ==
    ASSUME TypeOK, NEW actor, NEW k \in DOMAIN keys, RevokeApiKey(actor, k), NEW t
    PROVE  Gains(t) = {}
<1>1. UNCHANGED <<tenants, roles, scopes, roleScopes, users, bindings, now>>
  BY DEF RevokeApiKey
<1>2. /\ DOMAIN keys' = DOMAIN keys
      /\ keys'[k].revoked # None
      /\ \A x \in DOMAIN keys \ {k} : keys'[x] = keys[x]
  <2>1. now # None
    BY DistinctIds, ClockBounds DEF TypeOK, Times
  <2> QED BY <2>1 DEF RevokeApiKey, Put, TypeOK, PrincipalsOK
<1>3. \A p : Enabled(p)' => Enabled(p)
  BY <1>1, <1>2 DEF Enabled, Expired
<1>4. BindingsInForce(t)' \subseteq BindingsInForce(t)
  BY <1>1, <1>3, ChainSame DEF BindingsInForce, Live, Expired
<1> QED BY <1>1, <1>4, NothingGained

\* Setting a cut leaves every ancestor and lets fewer through unfiltered.
LEMMA CutNarrows ==
    ASSUME TypeOK, NEW actor, NEW c \in DOMAIN tenants, NEW n, NEW i,
           UpdateTenant(actor, c, n, i), ~wrote'[1].after.inherit, NEW t
    PROVE  Gains(t) = {}
<1>1. UNCHANGED <<roles, scopes, roleScopes, users, keys, bindings, now>>
  BY DEF UpdateTenant
<1>2. /\ DOMAIN tenants' = DOMAIN tenants
      /\ \A x \in DOMAIN tenants : tenants'[x].parent = tenants[x].parent
      /\ \A x \in DOMAIN tenants : tenants'[x].inherit => tenants[x].inherit
  <2>1. tenants' = Put(tenants, c, [tenants[c] EXCEPT !.inherit = Coalesce(i, tenants[c].inherit)])
    BY DEF UpdateTenant
  <2>2. ~Coalesce(i, tenants[c].inherit)
    BY DEF UpdateTenant, AuditRow
  <2> QED BY <2>1, <2>2 DEF Put, TypeOK, TenantsOK
<1>3. Above(t)' = Above(t)
  BY <1>2, AboveSame
<1>4. \A S \in SUBSET DOMAIN tenants : ClosedInherit(S) => ClosedInherit(S)'
  BY <1>2 DEF ClosedInherit
<1>5. Uncut(t)' \subseteq Uncut(t)
  BY <1>2, <1>4 DEF Uncut
<1>6. BindingsInForce(t)' \subseteq BindingsInForce(t)
  BY <1>1, <1>3, <1>5 DEF BindingsInForce, Live, Expired, Enabled
<1> QED BY <1>1, <1>6, NothingGained

\* No revocation, detachment or cut gives anybody any scope at any tenant
\* (revoke_binding, remove_role_scope, revoke_api_key, update_tenant), which
\* is why none of them looks at what the caller holds beyond its own scope.
THEOREM Narrowing == Spec => NarrowingNarrows
<1> DEFINE Narrows ==
             \/ Did("revoke_binding") \/ Did("remove_role_scope") \/ Did("revoke_api_key")
             \/ Did("update_tenant") /\ ~wrote'[1].after.inherit
<1>1. ASSUME TypeOK, Next, Narrows, NEW t \in TenantIds PROVE Gains(t) = {}
  <2>1. ASSUME NEW actor \in Principals, Membership(actor) PROVE Gains(t) = {}
    <3>1. ASSUME NEW p, NEW r, NEW x, NEW e, GrantRole(actor, p, r, x, e) PROVE FALSE
      BY <1>1, <3>1 DEF GrantRole, GrantRow, AuditRow, Did
    <3>2. ASSUME NEW x, NEW p, NEW r, InviteUser(actor, x, p, r) PROVE FALSE
      BY <1>1, <3>2 DEF InviteUser, GrantRow, AuditRow, Did
    <3> QED BY <1>1, <2>1, <3>1, <3>2, RevokeBindingNarrows DEF Membership
  <2>2. ASSUME NEW actor \in Principals, Vocabulary(actor) PROVE Gains(t) = {}
    <3>1. ASSUME NEW r, NEW x, NEW n, NEW c, CreateRole(actor, r, x, n, c) PROVE FALSE
      BY <1>1, <3>1 DEF CreateRole, AuditRow, Did
    <3>2. ASSUME NEW r, NEW n, NEW c, UpdateRole(actor, r, n, c) PROVE FALSE
      BY <1>1, <3>2 DEF UpdateRole, AuditRow, Did
    <3>3. ASSUME NEW r, NEW s, AddRoleScope(actor, r, s) PROVE FALSE
      BY <1>1, <3>3 DEF AddRoleScope, AuditRow, Did
    <3>4. ASSUME NEW s, NEW x, NEW n, CreateScope(actor, s, x, n) PROVE FALSE
      BY <1>1, <3>4 DEF CreateScope, AuditRow, Did
    <3> QED BY <2>2, <3>1, <3>2, <3>3, <3>4, RemoveRoleScopeNarrows DEF Vocabulary
  <2>3. ASSUME NEW actor \in Principals, Tree(actor) PROVE Gains(t) = {}
    <3>1. ASSUME NEW x, NEW parent, CreateTenant(actor, x, parent) PROVE FALSE
      BY <1>1, <3>1 DEF CreateTenant, AuditRow, Did
    <3>2. ASSUME NEW x, NEW r, CreateWorkspace(actor, x, r) PROVE FALSE
      BY <1>1, <3>2 DEF CreateWorkspace, AuditRow, Did
    <3>3. ASSUME NEW c \in DOMAIN tenants, NEW n, NEW i, UpdateTenant(actor, c, n, i)
          PROVE  Gains(t) = {}
      <4>1. ~wrote'[1].after.inherit
        BY <1>1, <3>3 DEF UpdateTenant, AuditRow, Did
      <4> QED BY <1>1, <3>3, <4>1, CutNarrows
    <3> QED BY <2>3, <3>1, <3>2, <3>3 DEF Tree
  <2>4. ASSUME NEW actor \in Principals, ApiKeys(actor) PROVE Gains(t) = {}
    <3>1. ASSUME NEW k, NEW x, NEW e, CreateApiKey(actor, k, x, e) PROVE FALSE
      BY <1>1, <3>1 DEF CreateApiKey, AuditRow, Did
    <3> QED BY <1>1, <2>4, <3>1, RevokeApiKeyNarrows DEF ApiKeys
  <2>5. ASSUME OperatorTools \/ Tick PROVE FALSE
    BY <1>1, <2>5 DEF OperatorTools, ProvisionAdmin, ClaimAuthUser, ReclaimIdentity,
                      DeleteAccount, SwitchOff, Tick, Did
  <2> QED BY <1>1, <2>1, <2>2, <2>3, <2>4, <2>5 DEF Next
<1>2. TypeOK /\ [Next]_vars => [Narrows => \A t \in TenantIds : Gains(t) = {}]_vars
  BY <1>1
<1> QED BY <1>2, TypeCorrect, PTL DEF Spec, NarrowingNarrows

-----------------------------------------------------------------------------
(* A revocation stands *)

\* A key that is revoked keeps its time through every step.
LEMMA KeyRevocationStands ==
    ASSUME TypeOK, Next, NEW k \in DOMAIN keys, keys[k].revoked # None
    PROVE  keys'[k].revoked = keys[k].revoked
<1>1. ASSUME NEW actor \in Principals, ApiKeys(actor)
      PROVE  keys'[k].revoked = keys[k].revoked
  <2>1. ASSUME NEW x, NEW t, NEW e, CreateApiKey(actor, x, t, e)
        PROVE  keys'[k] = keys[k]
    BY <2>1 DEF CreateApiKey, Put
  <2>2. ASSUME NEW x \in DOMAIN keys, RevokeApiKey(actor, x)
        PROVE  keys'[k].revoked = keys[k].revoked
    BY <2>2 DEF RevokeApiKey, Put, TypeOK, PrincipalsOK
  <2> QED BY <1>1, <2>1, <2>2 DEF ApiKeys
<1>2. ASSUME NEW actor \in Principals, Membership(actor) \/ Vocabulary(actor) \/ Tree(actor)
      PROVE  UNCHANGED keys
  BY <1>2 DEF Membership, GrantRole, InviteUser, RevokeBinding, Revoke,
              Vocabulary, CreateRole, UpdateRole, AddRoleScope, RemoveRoleScope, CreateScope,
              Tree, CreateTenant, CreateWorkspace, UpdateTenant
<1>3. ASSUME OperatorTools \/ Tick PROVE UNCHANGED keys
  BY <1>3 DEF OperatorTools, ProvisionAdmin, ClaimAuthUser, ReclaimIdentity,
              DeleteAccount, SwitchOff, Tick, tables
<1> QED BY <1>1, <1>2, <1>3 DEF Next

\* The disjuncts RevocationStands allows for a revoked binding.
Stands(b) ==
    \/ bindings'[b].revoked = bindings[b].revoked
    \/ /\ Did("grant_role") /\ wrote'[1].target = b
       /\ wrote'[1].before.revoked = bindings[b].revoked

\* Writing the grant of binding c clears no other revocation, and its own
\* only with the audit row that records it.
LEMMA GrantStands ==
    ASSUME NEW actor, NEW c, NEW e, NEW b \in DOMAIN bindings,
           bindings' = Put(bindings, c, Grant(actor, e)),
           wrote' # << >>, wrote'[1] = GrantRow(actor, c, e)
    PROVE  Stands(b)
<1>1. CASE b = c
  BY <1>1 DEF GrantRow, AuditRow, Did, Stands
<1>2. CASE b # c
  BY <1>2 DEF Put, Stands
<1> QED BY <1>1, <1>2

LEMMA BindingRevocationStands ==
    ASSUME TypeOK, Next, NEW b \in DOMAIN bindings, bindings[b].revoked # None
    PROVE  Stands(b)
<1>1. ASSUME NEW actor \in Principals, Membership(actor) PROVE Stands(b)
  <2>1. ASSUME NEW p, NEW r, NEW t, NEW e, GrantRole(actor, p, r, t, e) PROVE Stands(b)
    BY <2>1, GrantStands DEF GrantRole
  <2>2. ASSUME NEW p, NEW r, NEW t, InviteUser(actor, t, p, r) PROVE Stands(b)
    <3>1. /\ bindings' = Put(bindings, <<p, r, t>>, Grant(actor, None))
          /\ wrote' # << >> /\ wrote'[1] = GrantRow(actor, <<p, r, t>>, None)
      BY <2>2 DEF InviteUser
    <3> QED BY <3>1, GrantStands
  <2>3. ASSUME NEW c \in DOMAIN bindings, RevokeBinding(actor, c) PROVE Stands(b)
    BY <2>3 DEF RevokeBinding, Revoke, Put, TypeOK, BindingsOK, Stands
  <2> QED BY <1>1, <2>1, <2>2, <2>3 DEF Membership
<1>2. ASSUME NEW actor \in Principals, Vocabulary(actor) \/ ApiKeys(actor) PROVE Stands(b)
  BY <1>2 DEF Vocabulary, CreateRole, UpdateRole, AddRoleScope, RemoveRoleScope, CreateScope,
              ApiKeys, CreateApiKey, RevokeApiKey, Stands
<1>3. ASSUME NEW actor \in Principals, Tree(actor) PROVE Stands(b)
  <2>1. ASSUME NEW t, NEW r, CreateWorkspace(actor, t, r) PROVE Stands(b)
    <3>1. b[3] \in DOMAIN tenants
      BY DEF TypeOK, BindingsOK
    <3>2. t \notin DOMAIN tenants /\ bindings' = Put(bindings, <<actor, r, t>>, Grant(actor, None))
      BY <2>1 DEF CreateWorkspace
    <3>3. b # <<actor, r, t>>
      BY <3>1, <3>2
    <3> QED BY <3>2, <3>3 DEF Put, Stands
  <2> QED BY <1>3, <2>1 DEF Tree, CreateTenant, UpdateTenant, Stands
<1>4. ASSUME OperatorTools \/ Tick PROVE Stands(b)
  <2>1. ASSUME NEW p, NEW r, ProvisionAdmin(p, r) PROVE Stands(b)
    BY <2>1 DEF ProvisionAdmin, Put, Stands
  <2> QED BY <1>4, <2>1 DEF OperatorTools, ClaimAuthUser, ReclaimIdentity, DeleteAccount,
                            SwitchOff, Tick, tables, Stands
<1> QED BY <1>1, <1>2, <1>3, <1>4 DEF Next

\* A revoked grant or key stays revoked, with the time it was first revoked,
\* through every call (the repeats of revoke_binding and revoke_api_key, the
\* "on conflict do nothing" of provision_admin); only grant_role's upsert
\* clears a grant's, and its audit row records the time cleared.
THEOREM RevocationKept == Spec => RevocationStands
<1>1. TypeOK /\ [Next]_vars =>
        [/\ \A b \in DOMAIN bindings : bindings[b].revoked # None =>
              \/ bindings'[b].revoked = bindings[b].revoked
              \/ /\ Did("grant_role") /\ wrote'[1].target = b
                 /\ wrote'[1].before.revoked = bindings[b].revoked
         /\ \A k \in DOMAIN keys : keys[k].revoked # None =>
              keys'[k].revoked = keys[k].revoked]_vars
  BY KeyRevocationStands, BindingRevocationStands DEF Stands
<1> QED BY <1>1, TypeCorrect, PTL DEF Spec, RevocationStands

-----------------------------------------------------------------------------
(* Holding *)

\* The binding's role has a scope of the name.
Confers(b, s) == \E x \in DOMAIN scopes : scopes[x].name = s /\ <<b[2], x>> \in roleScopes

\* Holdings and has_scope are two views of one thing: a binding in force of
\* the principal's own, and a scope of its role.
LEMMA Held ==
    \A t, q, s :
        /\ <<q, s>> \in Holdings(t) <=> \E b \in EffectiveBindings(q, t) : Confers(b, s)
        /\ HasScope(q, t, s) <=> \E b \in EffectiveBindings(q, t) : Confers(b, s)
<1> TAKE t, q, s
<1>1. <<q, s>> \in Holdings(t) <=> \E b \in EffectiveBindings(q, t) : Confers(b, s)
  <2>1. ASSUME <<q, s>> \in Holdings(t)
        PROVE  \E b \in EffectiveBindings(q, t) : Confers(b, s)
    <3>1. PICK b \in BindingsInForce(t), y \in DOMAIN scopes :
              <<b[2], y>> \in roleScopes /\ <<q, s>> = <<b[1], scopes[y].name>>
      BY <2>1, HoldingsPoints
    <3> QED BY <3>1 DEF EffectiveBindings, Confers
  <2>2. ASSUME NEW b \in EffectiveBindings(q, t), Confers(b, s)
        PROVE  <<q, s>> \in Holdings(t)
    <3>1. PICK y \in DOMAIN scopes : scopes[y].name = s /\ <<b[2], y>> \in roleScopes
      BY <2>2 DEF Confers
    <3>2. b \in BindingsInForce(t) /\ <<q, s>> = <<b[1], scopes[y].name>>
      BY <3>1 DEF EffectiveBindings
    <3> QED BY <3>1, <3>2, HoldingsPoints
  <2> QED BY <2>1, <2>2
<1>2. HasScope(q, t, s) <=> \E b \in EffectiveBindings(q, t) : Confers(b, s)
  BY DEF HasScope, EffectiveScopes, EffectiveBindings, Confers
<1> QED BY <1>1, <1>2

\* Held, of the state after a step.
LEMMA HeldAfter ==
    (\A t, q, s :
        /\ <<q, s>> \in Holdings(t) <=> \E b \in EffectiveBindings(q, t) : Confers(b, s)
        /\ HasScope(q, t, s) <=> \E b \in EffectiveBindings(q, t) : Confers(b, s))'
BY Held, PTL

\* What is held is a set of pairs <<principal, scope name>>.
LEMMA HoldingsArePairs == \A t : \A g \in Holdings(t) : g = <<g[1], g[2]>>
<1> SUFFICES ASSUME NEW t, NEW g \in Holdings(t) PROVE g = <<g[1], g[2]>>
  OBVIOUS
<1> DEFINE Names(b) == {scopes[x].name : x \in {y \in DOMAIN scopes : <<b[2], y>> \in roleScopes}}
<1>1. Holdings(t) = UNION {{b[1]} \X Names(b) : b \in BindingsInForce(t)}
  BY DEF Holdings
<1> HIDE DEF Names
<1>2. PICK b : g \in {b[1]} \X Names(b)
  BY <1>1
<1> QED BY <1>2

\* The same after a step.
LEMMA HoldingsArePairsAfter == (\A t : \A g \in Holdings(t) : g = <<g[1], g[2]>>)'
BY HoldingsArePairs, PTL

\* What is lost is no longer conferred, what is gained was not.
LEMMA LostAndGained ==
    ASSUME NEW t, NEW q, NEW s
    PROVE  /\ <<q, s>> \in Losses(t) =>
                 /\ \E b \in EffectiveBindings(q, t) : Confers(b, s)
                 /\ ~\E b \in EffectiveBindings(q, t)' : Confers(b, s)'
           /\ <<q, s>> \in Gains(t) =>
                 /\ \E b \in EffectiveBindings(q, t)' : Confers(b, s)'
                 /\ ~\E b \in EffectiveBindings(q, t) : Confers(b, s)
BY Held, HeldAfter DEF Losses, Gains

\* The tenant without a parent is the one that exists from the start.
LEMMA MasterIsMaster == ASSUME TypeOK PROVE MasterTenant = Master
BY DEF MasterTenant, IsMaster, TypeOK, TenantsOK

\* The walk starts at the tenant itself, unfiltered.
LEMMA ChainSelf == \A t \in DOMAIN tenants : t \in Above(t) /\ t \in Uncut(t)
BY DEF Above, Uncut

\* The same after a step.
LEMMA ChainSelfAfter == (\A t \in DOMAIN tenants : t \in Above(t) /\ t \in Uncut(t))'
BY ChainSelf, PTL

-----------------------------------------------------------------------------
(* A grant takes effect *)

\* A live binding at a tenant confers its role's scopes there.
LEMMA GrantConfers ==
    ASSUME NEW actor, NEW p, NEW r, NEW t, NEW e,
           t \in DOMAIN tenants', <<p, r, t>> \in DOMAIN bindings',
           bindings'[<<p, r, t>>] = Grant(actor, e), Enabled(p)', ~Expired(e)',
           NEW s \in DOMAIN scopes', <<r, s>> \in roleScopes', NEW n, n = scopes'[s].name
    PROVE  HasScope(p, t, n)'
<1>1. Live(<<p, r, t>>)'
  BY DEF Live, Grant
<1>2. <<p, r, t>> \in EffectiveBindings(p, t)'
  BY <1>1, ChainSelfAfter DEF EffectiveBindings, BindingsInForce
<1>3. Confers(<<p, r, t>>, n)'
  BY DEF Confers
<1> QED BY <1>2, <1>3, HeldAfter

\* An audit row of the actor's that tells of no grant.
Tells(actor) == \E row : wrote' = <<row>> /\ row.actor = actor /\ row.action # "grant_role"

\* Every call but grant_role and invite_user writes one such row.
LEMMA OthersTell ==
    ASSUME NEW actor \in Principals,
           \/ \E b \in DOMAIN bindings : RevokeBinding(actor, b)
           \/ Vocabulary(actor) \/ Tree(actor) \/ ApiKeys(actor)
    PROVE  Tells(actor)
<1>1. CASE \E b \in DOMAIN bindings : RevokeBinding(actor, b)
  BY <1>1 DEF RevokeBinding, Revoke, AuditRow, Tells
<1>2. CASE Vocabulary(actor)
  <2>1. ASSUME NEW r, NEW t, NEW n, NEW c, CreateRole(actor, r, t, n, c)
        PROVE  Tells(actor)
    BY <2>1 DEF CreateRole, AuditRow, Tells
  <2>2. ASSUME NEW r, NEW n, NEW c, UpdateRole(actor, r, n, c)
        PROVE  Tells(actor)
    BY <2>2 DEF UpdateRole, AuditRow, Tells
  <2>3. ASSUME NEW r, NEW s, AddRoleScope(actor, r, s) \/ RemoveRoleScope(actor, r, s)
        PROVE  Tells(actor)
    BY <2>3 DEF AddRoleScope, RemoveRoleScope, AuditRow, Tells
  <2>4. ASSUME NEW s, NEW t, NEW n, CreateScope(actor, s, t, n)
        PROVE  Tells(actor)
    BY <2>4 DEF CreateScope, AuditRow, Tells
  <2> QED BY <1>2, <2>1, <2>2, <2>3, <2>4 DEF Vocabulary
<1>3. CASE Tree(actor)
  <2>1. ASSUME NEW t, NEW parent, CreateTenant(actor, t, parent)
        PROVE  Tells(actor)
    BY <2>1 DEF CreateTenant, AuditRow, Tells
  <2>2. ASSUME NEW t, NEW r, CreateWorkspace(actor, t, r)
        PROVE  Tells(actor)
    BY <2>2 DEF CreateWorkspace, AuditRow, Tells
  <2>3. ASSUME NEW t, NEW n, NEW i, UpdateTenant(actor, t, n, i)
        PROVE  Tells(actor)
    BY <2>3 DEF UpdateTenant, AuditRow, Tells
  <2> QED BY <1>3, <2>1, <2>2, <2>3 DEF Tree
<1>4. CASE ApiKeys(actor)
  <2>1. ASSUME NEW k, NEW t, NEW e, CreateApiKey(actor, k, t, e)
        PROVE  Tells(actor)
    BY <2>1 DEF CreateApiKey, AuditRow, Tells
  <2>2. ASSUME NEW k, RevokeApiKey(actor, k)
        PROVE  Tells(actor)
    BY <2>2 DEF RevokeApiKey, AuditRow, Tells
  <2> QED BY <1>4, <2>1, <2>2 DEF ApiKeys
<1> QED BY <1>1, <1>2, <1>3, <1>4

\* After every step, a grant its audit row tells of is in force.
LEMMA GrantStep == TypeOK /\ Next => GrantTakesEffect'
<1> SUFFICES ASSUME TypeOK, Next PROVE GrantTakesEffect'
  OBVIOUS
<1>1. ASSUME NEW actor \in Principals, NEW p, NEW r, NEW t \in DOMAIN tenants, NEW e,
             GrantRole(actor, p, r, t, e)
      PROVE  GrantTakesEffect'
  <2>1. /\ UNCHANGED <<tenants, scopes, roleScopes>>
        /\ bindings' = Put(bindings, <<p, r, t>>, Grant(actor, e))
        /\ wrote' = <<GrantRow(actor, <<p, r, t>>, e)>>
    BY <1>1 DEF GrantRole
  <2>2. DOMAIN wrote' = {1} /\ wrote'[1].target = <<p, r, t>> /\ wrote'[1].after.expires = e
    BY <2>1 DEF GrantRow, AuditRow
  <2>3. <<p, r, t>> \in DOMAIN bindings' /\ bindings'[<<p, r, t>>] = Grant(actor, e)
    BY <2>1 DEF Put
  <2> QED BY <2>1, <2>2, <2>3, GrantConfers DEF GrantTakesEffect
<1>2. ASSUME NEW actor \in Principals, NEW t \in DOMAIN tenants, NEW p, NEW r,
             InviteUser(actor, t, p, r)
      PROVE  GrantTakesEffect'
  <2>1. PICK row :
           /\ UNCHANGED <<tenants, scopes, roleScopes>>
           /\ bindings' = Put(bindings, <<p, r, t>>, Grant(actor, None))
           /\ wrote' = <<GrantRow(actor, <<p, r, t>>, None), row>> /\ row.action = "invite_user"
    BY <1>2 DEF InviteUser, AuditRow
  <2>2. /\ DOMAIN wrote' = {1, 2} /\ wrote'[2].action # "grant_role"
        /\ wrote'[1].target = <<p, r, t>> /\ wrote'[1].after.expires = None
    BY <2>1 DEF GrantRow, AuditRow
  <2>3. <<p, r, t>> \in DOMAIN bindings' /\ bindings'[<<p, r, t>>] = Grant(actor, None)
    BY <2>1 DEF Put
  <2> QED BY <2>1, <2>2, <2>3, GrantConfers DEF GrantTakesEffect
<1>3. ASSUME wrote' = << >> \/ \E actor : Tells(actor)
      PROVE  GrantTakesEffect'
  BY <1>3 DEF GrantTakesEffect, Tells
<1>4. ASSUME OperatorTools \/ Tick PROVE wrote' = << >>
  BY <1>4 DEF OperatorTools, ProvisionAdmin, ClaimAuthUser, ReclaimIdentity, DeleteAccount,
              SwitchOff, Tick
<1> QED BY <1>1, <1>2, <1>3, <1>4, OthersTell DEF Next, Membership

\* A grant that returned is in force: its principal, if enabled and the grant
\* not already past, holds every scope of the role at the tenant, also when
\* the binding existed and was revoked (the upsert of grant_role, and of
\* invite_user, whose identity may be new).
THEOREM GrantsTakeEffect == Spec => []GrantTakesEffect
<1>1. Init => GrantTakesEffect
  BY DEF Init, GrantTakesEffect
<1>2. TypeOK /\ GrantTakesEffect /\ [Next]_vars => GrantTakesEffect'
  <2>1. ASSUME GrantTakesEffect, UNCHANGED vars PROVE GrantTakesEffect'
    <3>1. UNCHANGED <<tenants, roles, scopes, roleScopes, users, keys, bindings, now, wrote>>
      BY <2>1 DEF vars, tables
    <3>2. \A x : Enabled(x)' = Enabled(x) /\ Expired(x)' = Expired(x)
      BY <3>1 DEF Enabled, Expired
    <3>3. \A t : BindingsInForce(t)' = BindingsInForce(t)
      BY <3>1, <3>2, ChainSame DEF BindingsInForce, Live
    <3>4. \A p, t, n : HasScope(p, t, n)' = HasScope(p, t, n)
      BY <3>1, <3>3 DEF HasScope, EffectiveScopes, EffectiveBindings
    <3> QED BY <2>1, <3>1, <3>2, <3>4 DEF GrantTakesEffect
  <2> QED BY <2>1, GrantStep
<1> QED BY <1>1, <1>2, TypeCorrect, PTL DEF Spec

-----------------------------------------------------------------------------
(* The walk *)

\* What is reached unfiltered is an ancestor, and both relations compose.
LEMMA ChainOrder ==
    /\ \A t : Uncut(t) \subseteq Above(t)
    /\ \A t, u : u \in Above(t) => Above(u) \subseteq Above(t)
    /\ \A t, u : u \in Uncut(t) => Uncut(u) \subseteq Uncut(t)
<1>1. \A S : ClosedUp(S) => ClosedInherit(S)
  BY DEF ClosedUp, ClosedInherit
<1>2. \A t : Uncut(t) \subseteq Above(t)
  BY <1>1 DEF Above, Uncut
<1>3. ASSUME NEW t, NEW u \in Above(t), NEW a \in Above(u) PROVE a \in Above(t)
  BY <1>3 DEF Above
<1>4. ASSUME NEW t, NEW u \in Uncut(t), NEW a \in Uncut(u) PROVE a \in Uncut(t)
  BY <1>4 DEF Uncut
<1> QED BY <1>2, <1>3, <1>4

\* The same after a step.
LEMMA ChainOrderAfter == (\A t : Uncut(t) \subseteq Above(t))'
<1>1. \A t : Uncut(t) \subseteq Above(t)
  BY ChainOrder
<1> QED BY <1>1, PTL

LEMMA ChainOrderUpAfter == (\A t, u : u \in Above(t) => Above(u) \subseteq Above(t))'
<1>1. \A t, u : u \in Above(t) => Above(u) \subseteq Above(t)
  BY ChainOrder
<1> QED BY <1>1, PTL

\* A new leaf changes nobody's walk, and its own goes on at its parent.
LEMMA ChildChain ==
    ASSUME TypeOK, NEW t \in TenantIds, t \notin DOMAIN tenants, NEW parent \in DOMAIN tenants,
           tenants' = Put(tenants, t, Child(parent))
    PROVE  /\ \A x \in DOMAIN tenants : Above(x)' = Above(x) /\ Uncut(x)' = Uncut(x)
           /\ Above(t)' \subseteq Above(parent) \cup {t}
           /\ Uncut(t)' \subseteq Uncut(parent) \cup {t}
<1>1. /\ DOMAIN tenants' = DOMAIN tenants \cup {t}
      /\ tenants'[t].parent = parent
      /\ \A x \in DOMAIN tenants : tenants'[x] = tenants[x]
  BY DEF Put, Child
<1>2. ClosedUp(DOMAIN tenants) /\ ClosedInherit(DOMAIN tenants)
  BY DEF ClosedUp, ClosedInherit, TypeOK, TenantsOK
<1>3. ASSUME NEW S \in SUBSET DOMAIN tenants
      PROVE  /\ ClosedUp(S) => ClosedUp(S)'
             /\ ClosedInherit(S) => ClosedInherit(S)'
             /\ ClosedUp(S) /\ parent \in S => ClosedUp(S \cup {t})'
             /\ ClosedInherit(S) /\ parent \in S => ClosedInherit(S \cup {t})'
  BY <1>1 DEF ClosedUp, ClosedInherit
<1>4. ASSUME NEW S \in SUBSET DOMAIN tenants'
      PROVE  /\ ClosedUp(S)' => ClosedUp(S \cap DOMAIN tenants)
             /\ ClosedInherit(S)' => ClosedInherit(S \cap DOMAIN tenants)
  <2>1. \A y \in DOMAIN tenants : tenants[y].parent \in DOMAIN tenants \cup {None}
    BY DEF TypeOK, TenantsOK
  <2> QED BY <1>1, <2>1 DEF ClosedUp, ClosedInherit
<1>5. ASSUME NEW x \in DOMAIN tenants PROVE Above(x)' = Above(x)
  <2>1. ASSUME NEW a \in Above(x)' PROVE a \in Above(x)
    BY <1>1, <1>2, <1>3, <2>1 DEF Above
  <2>2. ASSUME NEW a \in Above(x) PROVE a \in Above(x)'
    BY <1>1, <1>4, <2>2 DEF Above
  <2> QED BY <2>1, <2>2
<1>6. ASSUME NEW x \in DOMAIN tenants PROVE Uncut(x)' = Uncut(x)
  <2>1. ASSUME NEW a \in Uncut(x)' PROVE a \in Uncut(x)
    BY <1>1, <1>2, <1>3, <2>1 DEF Uncut
  <2>2. ASSUME NEW a \in Uncut(x) PROVE a \in Uncut(x)'
    BY <1>1, <1>4, <2>2 DEF Uncut
  <2> QED BY <2>1, <2>2
<1>7. ASSUME NEW a \in Above(t)', a # t PROVE a \in Above(parent)
  <2>1. ASSUME NEW S \in SUBSET DOMAIN tenants, parent \in S, ClosedUp(S) PROVE a \in S
    <3>1. S \cup {t} \in SUBSET DOMAIN tenants' /\ ClosedUp(S \cup {t})'
      BY <1>1, <1>3, <2>1
    <3> QED BY <1>7, <3>1 DEF Above
  <2>2. a \in DOMAIN tenants
    BY <1>1, <1>7 DEF Above
  <2> QED BY <2>1, <2>2 DEF Above
<1>8. ASSUME NEW a \in Uncut(t)', a # t PROVE a \in Uncut(parent)
  <2>1. ASSUME NEW S \in SUBSET DOMAIN tenants, parent \in S, ClosedInherit(S) PROVE a \in S
    <3>1. S \cup {t} \in SUBSET DOMAIN tenants' /\ ClosedInherit(S \cup {t})'
      BY <1>1, <1>3, <2>1
    <3> QED BY <1>8, <3>1 DEF Uncut
  <2>2. a \in DOMAIN tenants
    BY <1>1, <1>8 DEF Uncut
  <2> QED BY <2>1, <2>2 DEF Uncut
<1> QED BY <1>5, <1>6, <1>7, <1>8

\* Setting the flag of c: ancestors stay, and an ancestor that is reached
\* unfiltered on one side of the change alone is reached so from c's parent
\* on both, and c is on the way.
LEMMA FlagChain ==
    ASSUME TypeOK, NEW c \in DOMAIN tenants, NEW i \in BOOLEAN,
           tenants' = Put(tenants, c, [tenants[c] EXCEPT !.inherit = i]),
           NEW p, p = tenants[c].parent, NEW t
    PROVE  /\ Above(t)' = Above(t)
           /\ \A a \in Uncut(t) \ Uncut(t)' : p \in DOMAIN tenants /\ a \in Uncut(p)'
           /\ \A a \in Uncut(t)' \ Uncut(t) :
                 /\ p \in DOMAIN tenants /\ a \in Uncut(p)
                 /\ c \in Above(t) /\ i /\ ~tenants[c].inherit
<1>1. /\ DOMAIN tenants' = DOMAIN tenants
      /\ \A x \in DOMAIN tenants : tenants'[x].parent = tenants[x].parent
      /\ \A x \in DOMAIN tenants : x # c => tenants'[x].inherit = tenants[x].inherit
      /\ tenants'[c].inherit = i
      /\ \A x \in DOMAIN tenants : tenants[x].inherit \in BOOLEAN
      /\ p \in DOMAIN tenants \cup {None}
  BY DEF Put, TypeOK, TenantsOK
<1>2. Above(t)' = Above(t)
  BY <1>1, AboveSame
<1>3. ASSUME NEW S \in SUBSET DOMAIN tenants, c \in S => p \in S \cup {None}
      PROVE  ClosedInherit(S) <=> ClosedInherit(S)'
  BY <1>1, <1>3 DEF ClosedInherit
<1>4. ASSUME NEW a \in Uncut(t) \ Uncut(t)'
      PROVE  p \in DOMAIN tenants /\ a \in Uncut(p)'
  <2>1. PICK S \in SUBSET DOMAIN tenants : t \in S /\ ClosedInherit(S)' /\ a \notin S
    BY <1>1, <1>4 DEF Uncut
  <2>2. ~ClosedInherit(S)
    BY <1>4, <2>1 DEF Uncut
  <2>3. c \in S /\ p \notin S \cup {None}
    BY <1>3, <2>1, <2>2
  <2>4. ASSUME NEW R \in SUBSET DOMAIN tenants, p \in R, ClosedInherit(R)' PROVE a \in R
    <3>1. ClosedInherit(S \cup R)'
      BY <2>1, <2>4 DEF ClosedInherit
    <3>2. ClosedInherit(S \cup R)
      BY <1>3, <2>4, <3>1
    <3>3. a \in S \cup R
      BY <1>4, <2>1, <3>2 DEF Uncut
    <3> QED BY <2>1, <3>3
  <2>5. a \in DOMAIN tenants
    BY <1>4 DEF Uncut
  <2> QED BY <1>1, <2>3, <2>4, <2>5 DEF Uncut
<1>5. ASSUME NEW a \in Uncut(t)' \ Uncut(t)
      PROVE  p \in DOMAIN tenants /\ a \in Uncut(p) /\ c \in Above(t) /\ i /\ ~tenants[c].inherit
  <2>1. PICK S \in SUBSET DOMAIN tenants : t \in S /\ ClosedInherit(S) /\ a \notin S
    BY <1>1, <1>5 DEF Uncut
  <2>2. ~ClosedInherit(S)' /\ t \in DOMAIN tenants
    BY <1>1, <1>5, <2>1 DEF Uncut
  <2>3. c \in S /\ p \notin S \cup {None}
    BY <1>3, <2>1, <2>2
  <2>4. ASSUME NEW R \in SUBSET DOMAIN tenants, p \in R, ClosedInherit(R) PROVE a \in R
    <3>1. ClosedInherit(S \cup R)
      BY <2>1, <2>4 DEF ClosedInherit
    <3>2. ClosedInherit(S \cup R)'
      BY <1>3, <2>4, <3>1
    <3>3. a \in S \cup R
      BY <1>1, <1>5, <2>1, <3>2 DEF Uncut
    <3> QED BY <2>1, <3>3
  <2>5. a \in DOMAIN tenants
    BY <1>1, <1>5 DEF Uncut
  <2>6. i /\ ~tenants[c].inherit
    BY <1>1, <2>1, <2>2 DEF ClosedInherit
  <2>7. ASSUME NEW R \in SUBSET DOMAIN tenants, t \in R, ClosedUp(R) PROVE c \in R
    <3> SUFFICES ASSUME c \notin R PROVE FALSE
      OBVIOUS
    <3>1. ClosedInherit(S \cap R)
      BY <2>1, <2>7 DEF ClosedInherit, ClosedUp
    <3>2. ClosedInherit(S \cap R)'
      BY <1>3, <3>1
    <3>3. a \in S \cap R
      BY <1>1, <1>5, <2>1, <2>7, <3>2 DEF Uncut
    <3> QED BY <2>1, <3>3
  <2>8. c \in Above(t)
    BY <2>2, <2>7 DEF Above
  <2> QED BY <1>1, <2>3, <2>4, <2>5, <2>6, <2>8 DEF Uncut
<1> QED BY <1>2, <1>4, <1>5

-----------------------------------------------------------------------------
(* What is lost *)

\* A binding that is left alone, of a principal left alone, goes on conferring
\* what it confers, where it is not cut off.
LEMMA GoesOn ==
    ASSUME NEW t, NEW q, NEW s, NEW b \in EffectiveBindings(q, t), Confers(b, s),
           UNCHANGED now, Enabled(q)',
           b \in DOMAIN bindings', bindings'[b] = bindings[b],
           b[3] \in Above(t)', b[3] \in Uncut(t)' \/ roles'[b[2]].crosses,
           \A x \in DOMAIN scopes : /\ x \in DOMAIN scopes' /\ scopes'[x].name = scopes[x].name
                                    /\ <<b[2], x>> \in roleScopes => <<b[2], x>> \in roleScopes'
    PROVE  <<q, s>> \notin Losses(t)
<1>1. b[1] = q /\ Live(b)
  BY DEF EffectiveBindings, BindingsInForce
<1>2. Live(b)'
  BY <1>1 DEF Live, Expired
<1>3. b \in EffectiveBindings(q, t)'
  BY <1>1, <1>2 DEF EffectiveBindings, BindingsInForce
<1>4. Confers(b, s)'
  BY DEF Confers
<1> QED BY <1>3, <1>4, LostAndGained

\* What b conferred is lost to authority over the binding or over its role,
\* or to a cut that the loser sees from the parent.
Withdrawn(actor, q, s, b) ==
    \/ HasScope(actor, b[3], BindingsGrant) \/ HasScope(actor, b[3], BindingsRevoke)
    \/ HasScope(actor, roles[b[2]].tenant, RolesWrite)
    \/ /\ Did("update_tenant") /\ ~roles[b[2]].crosses
       /\ \E p \in DOMAIN tenants : tenants[wrote'[1].target].parent = p /\ HasScope(q, p, s)'

\* Of the steps on bindings only a revocation, or a grant repeated with other
\* terms, takes a scope from a user.
LEMMA LostToMembership ==
    ASSUME TypeOK, NEW t, NEW q \in UserIds, NEW s, <<q, s>> \in Losses(t),
           NEW b \in EffectiveBindings(q, t), Confers(b, s),
           NEW actor \in Principals, Membership(actor)
    PROVE  Withdrawn(actor, q, s, b)
<1>1. UNCHANGED <<tenants, roles, scopes, roleScopes, keys, now>>
  BY DEF Membership, GrantRole, InviteUser, RevokeBinding, Revoke
<1>2. /\ b \in DOMAIN bindings /\ b[1] = q /\ Enabled(q) /\ b[3] \in Above(t)
      /\ b[3] \in Uncut(t) \/ roles[b[2]].crosses
  BY DEF EffectiveBindings, BindingsInForce, Live
<1>3. q \in DOMAIN users /\ ~users[q].off
  BY <1>2, DistinctIds DEF TypeOK, BindingsOK, PrincipalsOK, Principals, Enabled
<1>4. Above(t)' = Above(t) /\ Uncut(t)' = Uncut(t)
  BY <1>1, ChainSame
<1>5. ASSUME Enabled(q)', b \in DOMAIN bindings', bindings'[b] = bindings[b]
      PROVE  FALSE
  BY <1>1, <1>2, <1>4, <1>5, GoesOn
<1>6. ASSUME NEW p, NEW r, NEW x, NEW e, GrantRole(actor, p, r, x, e)
      PROVE  Withdrawn(actor, q, s, b)
  <2>1. bindings' = Put(bindings, <<p, r, x>>, Grant(actor, e)) /\ UNCHANGED users
    BY <1>6 DEF GrantRole
  <2>2. b = <<p, r, x>>
    BY <1>2, <1>3, <1>5, <2>1 DEF Put, Enabled
  <2>3. HasScope(actor, x, BindingsGrant)
    BY <1>6 DEF GrantRole, MayGrant
  <2> QED BY <2>2, <2>3 DEF Withdrawn
<1>7. ASSUME NEW x, NEW p, NEW r, InviteUser(actor, x, p, r)
      PROVE  Withdrawn(actor, q, s, b)
  <2>1. /\ bindings' = Put(bindings, <<p, r, x>>, Grant(actor, None))
        /\ users' = IF p \notin DOMAIN users THEN Put(users, p, NewIdentity) ELSE users
    BY <1>7 DEF InviteUser
  <2>2. Enabled(q)'
    BY <1>3, <2>1 DEF Put, Enabled
  <2>3. b = <<p, r, x>>
    BY <1>2, <1>5, <2>1, <2>2 DEF Put
  <2>4. HasScope(actor, x, BindingsGrant)
    BY <1>7 DEF InviteUser, MayGrant
  <2> QED BY <2>3, <2>4 DEF Withdrawn
<1>8. ASSUME NEW c \in DOMAIN bindings, RevokeBinding(actor, c)
      PROVE  Withdrawn(actor, q, s, b)
  <2>1. /\ HasScope(actor, c[3], BindingsRevoke) /\ UNCHANGED users
        /\ DOMAIN bindings' = DOMAIN bindings
        /\ \A x \in DOMAIN bindings \ {c} : bindings'[x] = bindings[x]
    BY <1>8 DEF RevokeBinding, Revoke, Put
  <2>2. b = c
    BY <1>2, <1>3, <1>5, <2>1 DEF Enabled
  <2> QED BY <2>1, <2>2 DEF Withdrawn
<1> QED BY <1>6, <1>7, <1>8 DEF Membership

\* Of the steps on roles and scopes only a detachment, or a role that stops
\* crossing, takes a scope from a user.
LEMMA LostToVocabulary ==
    ASSUME TypeOK, NEW t, NEW q \in UserIds, NEW s, <<q, s>> \in Losses(t),
           NEW b \in EffectiveBindings(q, t), Confers(b, s),
           NEW actor \in Principals, Vocabulary(actor)
    PROVE  Withdrawn(actor, q, s, b)
<1>1. UNCHANGED <<tenants, users, keys, bindings, now>>
  BY DEF Vocabulary, CreateRole, UpdateRole, AddRoleScope, RemoveRoleScope, CreateScope
<1>2. /\ b \in DOMAIN bindings /\ b[1] = q /\ Enabled(q) /\ b[3] \in Above(t)
      /\ b[3] \in Uncut(t) \/ roles[b[2]].crosses
      /\ b[2] \in DOMAIN roles
  BY DEF EffectiveBindings, BindingsInForce, Live, TypeOK, BindingsOK
<1>3. Above(t)' = Above(t) /\ Uncut(t)' = Uncut(t) /\ Enabled(q)'
  BY <1>1, <1>2, ChainSame DEF Enabled, Expired
<1>4. ASSUME roles'[b[2]] = roles[b[2]],
             \A x \in DOMAIN scopes : /\ x \in DOMAIN scopes' /\ scopes'[x].name = scopes[x].name
                                      /\ <<b[2], x>> \in roleScopes => <<b[2], x>> \in roleScopes'
      PROVE  FALSE
  BY <1>1, <1>2, <1>3, <1>4, GoesOn
<1>5. ASSUME NEW r, NEW x, NEW n, NEW c, CreateRole(actor, r, x, n, c) PROVE FALSE
  BY <1>2, <1>4, <1>5 DEF CreateRole, Put
<1>6. ASSUME NEW r \in DOMAIN roles, NEW n, NEW c, UpdateRole(actor, r, n, c)
      PROVE  Withdrawn(actor, q, s, b)
  <2>1. HasScope(actor, roles[r].tenant, RolesWrite) /\ UNCHANGED <<scopes, roleScopes>>
    BY <1>6 DEF UpdateRole
  <2>2. \A x \in DOMAIN roles \ {r} : roles'[x] = roles[x]
    BY <1>6 DEF UpdateRole, Put
  <2>3. b[2] = r
    BY <1>2, <1>4, <2>1, <2>2
  <2> QED BY <2>1, <2>3 DEF Withdrawn
<1>7. ASSUME NEW r, NEW x, AddRoleScope(actor, r, x) PROVE FALSE
  BY <1>4, <1>7 DEF AddRoleScope
<1>8. ASSUME NEW r, NEW x, RemoveRoleScope(actor, r, x)
      PROVE  Withdrawn(actor, q, s, b)
  <2>1. /\ HasScope(actor, roles[r].tenant, RolesWrite) /\ UNCHANGED <<roles, scopes>>
        /\ roleScopes' = roleScopes \ {<<r, x>>}
    BY <1>8 DEF RemoveRoleScope
  <2>2. b[2] = r
    BY <1>4, <2>1
  <2> QED BY <2>1, <2>2 DEF Withdrawn
<1>9. ASSUME NEW x, NEW y, NEW n, CreateScope(actor, x, y, n) PROVE FALSE
  BY <1>4, <1>9 DEF CreateScope, Put
<1> QED BY <1>5, <1>6, <1>7, <1>8, <1>9 DEF Vocabulary

\* Of the steps on tenants only a cut takes a scope from a user.
LEMMA LostToTree ==
    ASSUME TypeOK, NEW t \in DOMAIN tenants, NEW q \in UserIds, NEW s, <<q, s>> \in Losses(t),
           NEW b \in EffectiveBindings(q, t), Confers(b, s),
           NEW actor \in Principals, Tree(actor)
    PROVE  Withdrawn(actor, q, s, b)
<1>1. UNCHANGED <<roles, scopes, roleScopes, users, keys, now>>
  BY DEF Tree, CreateTenant, CreateWorkspace, UpdateTenant
<1>2. /\ b \in DOMAIN bindings /\ b[1] = q /\ Enabled(q) /\ b[3] \in Above(t)
      /\ b[3] \in Uncut(t) \/ roles[b[2]].crosses
      /\ b[3] \in DOMAIN tenants
  BY DEF EffectiveBindings, BindingsInForce, Live, TypeOK, BindingsOK
<1>3. Enabled(q)'
  BY <1>1, <1>2 DEF Enabled, Expired
<1>4. ASSUME b \in DOMAIN bindings', bindings'[b] = bindings[b], b[3] \in Above(t)',
             b[3] \in Uncut(t)' \/ roles[b[2]].crosses
      PROVE  FALSE
  BY <1>1, <1>3, <1>4, GoesOn
<1>5. ASSUME NEW x \in TenantIds, NEW parent \in DOMAIN tenants, CreateTenant(actor, x, parent)
      PROVE  FALSE
  <2>1. Above(t)' = Above(t) /\ Uncut(t)' = Uncut(t) /\ UNCHANGED bindings
    BY <1>5, ChildChain DEF CreateTenant
  <2> QED BY <1>2, <1>4, <2>1
<1>6. ASSUME NEW x \in TenantIds, NEW r \in DOMAIN roles, CreateWorkspace(actor, x, r)
      PROVE  FALSE
  <2>1. /\ x \notin DOMAIN tenants /\ roles[r].tenant = MasterTenant
        /\ tenants' = Put(tenants, x, Child(MasterTenant))
        /\ bindings' = Put(bindings, <<actor, r, x>>, Grant(actor, None))
    BY <1>6 DEF CreateWorkspace
  <2>2. MasterTenant \in DOMAIN tenants
    BY <2>1 DEF TypeOK, RolesOK
  <2>3. Above(t)' = Above(t) /\ Uncut(t)' = Uncut(t)
    BY <2>1, <2>2, ChildChain
  <2>4. b # <<actor, r, x>>
    BY <1>2, <2>1
  <2> QED BY <1>2, <1>4, <2>1, <2>3, <2>4 DEF Put
<1>7. ASSUME NEW c \in DOMAIN tenants, NEW n, NEW i \in BOOLEAN \cup {None},
             UpdateTenant(actor, c, n, i)
      PROVE  Withdrawn(actor, q, s, b)
  <2>1. PICK j \in BOOLEAN : tenants' = Put(tenants, c, [tenants[c] EXCEPT !.inherit = j])
    <3>1. Coalesce(i, tenants[c].inherit) \in BOOLEAN
      BY DEF Coalesce, TypeOK, TenantsOK
    <3>2. tenants' = Put(tenants, c, [tenants[c] EXCEPT !.inherit = Coalesce(i, tenants[c].inherit)])
      BY <1>7 DEF UpdateTenant
    <3> QED BY <3>1, <3>2
  <2>2. PICK p : p = tenants[c].parent
    OBVIOUS
  <2>3. UNCHANGED bindings /\ Above(t)' = Above(t)
    BY <1>7, <2>1, <2>2, FlagChain DEF UpdateTenant
  <2>4. b[3] \in Uncut(t) \ Uncut(t)' /\ ~roles[b[2]].crosses
    BY <1>2, <1>4, <2>3
  <2>5. p \in DOMAIN tenants /\ b[3] \in Uncut(p)'
    BY <2>1, <2>2, <2>4, FlagChain
  <2>6. HasScope(q, p, s)'
    <3>1. Live(b)'
      BY <1>1, <2>3 DEF EffectiveBindings, BindingsInForce, Live, Expired, Enabled
    <3>2. b \in EffectiveBindings(q, p)'
      BY <1>2, <2>3, <2>5, <3>1, ChainOrderAfter DEF EffectiveBindings, BindingsInForce
    <3>3. Confers(b, s)'
      BY <1>1 DEF Confers
    <3> QED BY <3>2, <3>3, HeldAfter
  <2>7. Did("update_tenant") /\ wrote'[1].target = c
    BY <1>7 DEF UpdateTenant, AuditRow, Did
  <2> QED BY <2>2, <2>4, <2>5, <2>6, <2>7 DEF Withdrawn
<1> QED BY <1>5, <1>6, <1>7 DEF Tree

\* No step on keys takes a scope from a user.
LEMMA LostToApiKeys ==
    ASSUME TypeOK, NEW t, NEW q \in UserIds, NEW s, <<q, s>> \in Losses(t),
           NEW b \in EffectiveBindings(q, t), Confers(b, s),
           NEW actor \in Principals, ApiKeys(actor)
    PROVE  FALSE
<1>1. UNCHANGED <<tenants, roles, scopes, roleScopes, users, bindings, now>>
  BY DEF ApiKeys, CreateApiKey, RevokeApiKey
<1>2. /\ b \in DOMAIN bindings /\ b[1] = q /\ Enabled(q) /\ b[3] \in Above(t)
      /\ b[3] \in Uncut(t) \/ roles[b[2]].crosses
  BY DEF EffectiveBindings, BindingsInForce, Live
<1>3. q \in DOMAIN users /\ ~users[q].off
  BY <1>2, DistinctIds DEF TypeOK, BindingsOK, PrincipalsOK, Principals, Enabled
<1>4. Enabled(q)' /\ Above(t)' = Above(t) /\ Uncut(t)' = Uncut(t)
  BY <1>1, <1>3, ChainSame DEF Enabled
<1> QED BY <1>1, <1>2, <1>4, GoesOn

\* The actor of a step that writes audit rows, and the kinds of steps.
LEMMA ActorActs ==
    ASSUME Next, wrote' # << >>
    PROVE  /\ Actor \in Principals
           /\ Membership(Actor) \/ Vocabulary(Actor) \/ Tree(Actor) \/ ApiKeys(Actor)
<1>1. ASSUME OperatorTools \/ Tick PROVE FALSE
  BY <1>1 DEF OperatorTools, ProvisionAdmin, ClaimAuthUser, ReclaimIdentity, DeleteAccount,
              SwitchOff, Tick
<1>2. ASSUME NEW a \in Principals, Membership(a) PROVE Actor = a
  <2>1. ASSUME NEW p, NEW r, NEW t, NEW e, GrantRole(a, p, r, t, e) PROVE Actor = a
    BY <2>1 DEF GrantRole, GrantRow, AuditRow, Actor
  <2>2. ASSUME NEW t, NEW p, NEW r, InviteUser(a, t, p, r) PROVE Actor = a
    BY <2>2 DEF InviteUser, GrantRow, AuditRow, Actor
  <2>3. ASSUME NEW b \in DOMAIN bindings, RevokeBinding(a, b) PROVE Actor = a
    BY <2>3, OthersTell DEF Tells, Actor
  <2> QED BY <1>2, <2>1, <2>2, <2>3 DEF Membership
<1>3. ASSUME NEW a \in Principals, Vocabulary(a) \/ Tree(a) \/ ApiKeys(a) PROVE Actor = a
  BY <1>3, OthersTell DEF Tells, Actor
<1> QED BY <1>1, <1>2, <1>3 DEF Next

\* A scope lost in a step of an actor was withdrawn by that actor.
LEMMA LostTo ==
    ASSUME TypeOK, Next, wrote' # << >>,
           NEW t \in DOMAIN tenants, NEW q \in UserIds, NEW s, <<q, s>> \in Losses(t),
           NEW b \in EffectiveBindings(q, t), Confers(b, s)
    PROVE  Withdrawn(Actor, q, s, b)
<1>1. PICK a : a = Actor
  OBVIOUS
<1>2. a \in Principals /\ (Membership(a) \/ Vocabulary(a) \/ Tree(a) \/ ApiKeys(a))
  BY <1>1, ActorActs
<1>3. Withdrawn(a, q, s, b)
  BY <1>2, LostToMembership, LostToVocabulary, LostToTree, LostToApiKeys
<1> QED BY <1>1, <1>3

\* The platform operator is never locked out from below: what a user holds
\* through a crossing role of the master, bound at the master, it loses only
\* to authority at the master (the anchors of revoke_binding, update_role
\* and remove_role_scope, the upsert of grant_role; cuts are no way, whatever
\* tenants, roles and bindings there are).
THEOREM OperatorNeverLockedOut == Spec => OperatorReach
<1>1. ASSUME TypeOK, Next, NEW t \in DOMAIN tenants, NEW l \in Losses(t), l[1] \in UserIds,
             NEW b \in EffectiveBindings(l[1], t), Confers(b, l[2]),
             b[3] = Master, roles[b[2]].tenant = Master, roles[b[2]].crosses
      PROVE  \/ wrote' = << >>
             \/ \E power \in {BindingsRevoke, BindingsGrant, RolesWrite} :
                   HasScope(Actor, Master, power)
  <2>1. l = <<l[1], l[2]>>
    BY HoldingsArePairs DEF Losses
  <2>2. wrote' # << >> => Withdrawn(Actor, l[1], l[2], b)
    BY <1>1, <2>1, LostTo
  <2> QED BY <1>1, <2>2 DEF Withdrawn
<1>2. TypeOK /\ [Next]_vars =>
        [\A t \in DOMAIN tenants : \A l \in Losses(t) :
           (\E b \in EffectiveBindings(l[1], t) :
               /\ l[1] \in UserIds /\ b[3] = Master /\ roles[b[2]].tenant = Master /\ roles[b[2]].crosses
               /\ \E x \in DOMAIN scopes : scopes[x].name = l[2] /\ <<b[2], x>> \in roleScopes)
           => \/ wrote' = << >>
              \/ \E power \in {BindingsRevoke, BindingsGrant, RolesWrite} :
                    HasScope(Actor, Master, power)]_vars
  BY <1>1 DEF Confers
<1> QED BY <1>2, TypeCorrect, PTL DEF Spec, OperatorReach

\* A user loses a scope at a tenant only to authority at or above the tenant
\* of every binding that conferred it, or to a cut, after which it still holds
\* the scope at the cut tenant's parent: nobody below takes anything from
\* above.
THEOREM LossesFromAbove == Spec => LossesComeFromAbove
<1>1. ASSUME TypeOK, NothingFromOtherBranches, Next,
             NEW t \in DOMAIN tenants, NEW l \in Losses(t), l[1] \in UserIds, wrote' # << >>
      PROVE  \/ \A b \in EffectiveBindings(l[1], t) : Confers(b, l[2]) =>
                  \E a \in Above(b[3]), power \in {BindingsRevoke, BindingsGrant, RolesWrite} :
                     HasScope(Actor, a, power)
             \/ /\ Did("update_tenant")
                /\ \E p \in DOMAIN tenants :
                      tenants[wrote'[1].target].parent = p /\ HasScope(l[1], p, l[2])'
  <2>1. l = <<l[1], l[2]>>
    BY HoldingsArePairs DEF Losses
  <2>2. ASSUME NEW b \in EffectiveBindings(l[1], t), Confers(b, l[2])
        PROVE  /\ Withdrawn(Actor, l[1], l[2], b)
               /\ b[3] \in Above(b[3]) /\ roles[b[2]].tenant \in Above(b[3])
    <3>1. b \in DOMAIN bindings
      BY DEF EffectiveBindings, BindingsInForce
    <3>2. b[3] \in DOMAIN tenants
      BY <1>1, <3>1 DEF TypeOK, BindingsOK
    <3> QED BY <1>1, <2>1, <2>2, <3>1, <3>2, LostTo, ChainSelf DEF NothingFromOtherBranches
  <2> QED BY <2>2 DEF Withdrawn
<1>2. TypeOK /\ NothingFromOtherBranches /\ [Next]_vars =>
        [\A t \in DOMAIN tenants : \A l \in Losses(t) :
           \/ wrote' = << >> \/ l[1] \notin UserIds
           \/ \A b \in EffectiveBindings(l[1], t) :
                 (\E x \in DOMAIN scopes : scopes[x].name = l[2] /\ <<b[2], x>> \in roleScopes) =>
                 \E a \in Above(b[3]), power \in {BindingsRevoke, BindingsGrant, RolesWrite} :
                     HasScope(Actor, a, power)
           \/ /\ Did("update_tenant")
              /\ \E p \in DOMAIN tenants :
                    tenants[wrote'[1].target].parent = p /\ HasScope(l[1], p, l[2])']_vars
  BY <1>1 DEF Confers
<1> QED BY <1>2, TypeCorrect, NothingForeign, PTL DEF Spec, LossesComeFromAbove

-----------------------------------------------------------------------------
(* What is gained *)

\* A scope gained is conferred by no binding that was in force.
LEMMA NotBefore ==
    ASSUME NEW t, NEW q, NEW s, <<q, s>> \in Gains(t),
           NEW b \in DOMAIN bindings, b[1] = q, Live(b), Confers(b, s),
           b[3] \in Above(t), b[3] \in Uncut(t) \/ roles[b[2]].crosses
    PROVE  FALSE
<1>1. b \in EffectiveBindings(q, t)
  BY DEF EffectiveBindings, BindingsInForce
<1> QED BY <1>1, LostAndGained

\* What is held at a tenant is held wherever its rows reach unfiltered.
LEMMA HeldBelow ==
    ASSUME NEW p, NEW s, NEW t, NEW u \in Uncut(t), HasScope(p, u, s)
    PROVE  HasScope(p, t, s)
<1>1. PICK b \in EffectiveBindings(p, u) : Confers(b, s)
  BY Held
<1>2. b \in EffectiveBindings(p, t)
  BY ChainOrder DEF EffectiveBindings, BindingsInForce
<1> QED BY <1>1, <1>2, Held

\* The ways a call may give q the scope s at t, as GainsAccountedFor lists them.
Explained(actor, t, q, s) ==
    \/ HasScope(actor, t, s)
    \/ OwnsDefinition(actor, s)
    \/ \E b \in EffectiveBindings(q, t)' : b[2] \in DOMAIN roles /\
          \/ HasScope(actor, roles[b[2]].tenant, s)
          \/ roles'[b[2]].crosses /\ \/ HasScope(actor, b[3], s)
                                     \/ HasScope(actor, Master, RolesWrite)
    \/ t \notin DOMAIN tenants /\ \/ HasScope(q, tenants'[t].parent, s)
                                  \/ Did("create_workspace") /\ q = actor
    \/ \E c \in Above(t) :
          /\ tenants'[c].inherit /\ ~tenants[c].inherit
          /\ HasScope(actor, tenants[c].parent, TenantsWrite)
          /\ HasScope(q, tenants[c].parent, s)

\* What is gained through a grant is what its giver could hand on.
LEMMA Delegated ==
    ASSUME UNCHANGED <<tenants, roles, scopes, roleScopes>>,
           NEW actor, NEW p, NEW r \in DOMAIN roles, NEW x, MayGrant(actor, r, x),
           NEW t, NEW q, NEW s, <<p, r, x>> \in EffectiveBindings(q, t)', Confers(<<p, r, x>>, s)
    PROVE  Explained(actor, t, q, s)
<1>1. PICK y \in DOMAIN scopes : scopes[y].name = s /\ <<r, y>> \in roleScopes
  BY DEF Confers
<1>2. HasScope(actor, x, s) \/ HasScope(actor, scopes[y].tenant, ScopesWrite)
  BY <1>1 DEF MayGrant, Missing, MayDelegate
<1>3. x \in Uncut(t) \/ roles'[r].crosses
  BY ChainSame DEF EffectiveBindings, BindingsInForce
<1>4. CASE HasScope(actor, x, s) /\ x \in Uncut(t)
  BY <1>4, HeldBelow DEF Explained
<1>5. CASE HasScope(actor, x, s) /\ roles'[r].crosses
  BY <1>5 DEF Explained
<1>6. CASE HasScope(actor, scopes[y].tenant, ScopesWrite)
  BY <1>1, <1>6 DEF Explained, OwnsDefinition
<1> QED BY <1>2, <1>3, <1>4, <1>5, <1>6

\* What an action property of gains says of the state before: the binding b
\* is in force after the step.
LEMMA InForceAfter ==
    ASSUME NEW t, NEW q, NEW b, b \in EffectiveBindings(q, t)'
    PROVE  /\ b \in DOMAIN bindings' /\ b[1] = q /\ Live(b)' /\ Enabled(q)'
           /\ b[3] \in Above(t)' /\ (b[3] \in Uncut(t)' \/ roles'[b[2]].crosses)
BY DEF EffectiveBindings, BindingsInForce, Live

\* A new identity or key is no principal of an old binding.
LEMMA OldPrincipal ==
    ASSUME TypeOK, NEW b \in DOMAIN bindings
    PROVE  /\ b[1] \in Principals /\ b[2] \in DOMAIN roles /\ b[3] \in DOMAIN tenants
           /\ b[1] \in UserIds => b[1] \in DOMAIN users
           /\ b[1] \in KeyIds => b[1] \in DOMAIN keys
BY DistinctIds DEF TypeOK, BindingsOK, PrincipalsOK, Principals

\* What a step on bindings gives was delegated.
LEMMA GainedByMembership ==
    ASSUME TypeOK, NEW t, NEW q, NEW s, <<q, s>> \in Gains(t),
           NEW actor \in Principals, Membership(actor)
    PROVE  Explained(actor, t, q, s)
<1>1. UNCHANGED <<tenants, roles, scopes, roleScopes, keys, now>>
  BY DEF Membership, GrantRole, InviteUser, RevokeBinding, Revoke
<1>2. PICK b : b \in EffectiveBindings(q, t)' /\ Confers(b, s)'
  BY LostAndGained
<1>3. Confers(b, s)
  BY <1>1, <1>2 DEF Confers
<1>4. /\ b \in DOMAIN bindings' /\ b[1] = q /\ Live(b)' /\ Enabled(q)'
      /\ b[3] \in Above(t) /\ (b[3] \in Uncut(t) \/ roles[b[2]].crosses)
  BY <1>1, <1>2, InForceAfter, ChainSame
<1>5. ASSUME b \in DOMAIN bindings, bindings'[b] = bindings[b], Enabled(q)
      PROVE  FALSE
  BY <1>1, <1>3, <1>4, <1>5, NotBefore DEF Live, Expired
<1>6. ASSUME NEW p, NEW r \in DOMAIN roles, NEW x, NEW e, GrantRole(actor, p, r, x, e)
      PROVE  Explained(actor, t, q, s)
  <2>1. /\ bindings' = Put(bindings, <<p, r, x>>, Grant(actor, e)) /\ UNCHANGED users
        /\ MayGrant(actor, r, x)
    BY <1>6 DEF GrantRole
  <2>2. Enabled(q)
    BY <1>1, <1>4, <2>1 DEF Enabled, Expired
  <2>3. b = <<p, r, x>>
    BY <1>4, <1>5, <2>1, <2>2 DEF Put
  <2> QED BY <1>1, <1>2, <1>3, <2>1, <2>3, Delegated
<1>7. ASSUME NEW x, NEW p \in UserIds, NEW r \in DOMAIN roles, InviteUser(actor, x, p, r)
      PROVE  Explained(actor, t, q, s)
  <2>1. /\ bindings' = Put(bindings, <<p, r, x>>, Grant(actor, None))
        /\ users' = IF p \notin DOMAIN users THEN Put(users, p, NewIdentity) ELSE users
        /\ MayGrant(actor, r, x)
    BY <1>7 DEF InviteUser
  <2>2. b \in DOMAIN bindings => Enabled(q)
    <3>1. b \in DOMAIN bindings /\ p \notin DOMAIN users => q # p
      BY <1>4, OldPrincipal
    <3> QED BY <1>1, <1>4, <2>1, <3>1 DEF Enabled, Expired, Put
  <2>3. b = <<p, r, x>>
    BY <1>4, <1>5, <2>1, <2>2 DEF Put
  <2> QED BY <1>1, <1>2, <1>3, <2>1, <2>3, Delegated
<1>8. ASSUME NEW c \in DOMAIN bindings, RevokeBinding(actor, c)
      PROVE  FALSE
  BY <1>8, RevokeBindingNarrows
<1> QED BY <1>6, <1>7, <1>8 DEF Membership

\* What a step on roles and scopes gives was the actor's to hand on.
LEMMA GainedByVocabulary ==
    ASSUME TypeOK, NEW t, NEW q, NEW s, <<q, s>> \in Gains(t),
           NEW actor \in Principals, Vocabulary(actor)
    PROVE  Explained(actor, t, q, s)
<1>1. UNCHANGED <<tenants, users, keys, bindings, now>>
  BY DEF Vocabulary, CreateRole, UpdateRole, AddRoleScope, RemoveRoleScope, CreateScope
<1>2. PICK b : b \in EffectiveBindings(q, t)' /\ Confers(b, s)'
  BY LostAndGained
<1>3. /\ b \in DOMAIN bindings /\ b[1] = q /\ Live(b)
      /\ b[3] \in Above(t) /\ (b[3] \in Uncut(t) \/ roles'[b[2]].crosses)
  BY <1>1, <1>2, InForceAfter, ChainSame DEF Live, Expired, Enabled
<1>4. b[2] \in DOMAIN roles
  BY <1>3, OldPrincipal
<1>5. ASSUME Confers(b, s), roles'[b[2]].crosses => roles[b[2]].crosses
      PROVE  FALSE
  BY <1>3, <1>5, NotBefore
<1>6. ASSUME NEW r, NEW x, NEW n, NEW c, CreateRole(actor, r, x, n, c) PROVE FALSE
  <2>1. Confers(b, s)
    BY <1>2, <1>6 DEF CreateRole, Confers
  <2>2. roles'[b[2]] = roles[b[2]]
    BY <1>4, <1>6 DEF CreateRole, Put
  <2> QED BY <1>5, <2>1, <2>2
<1>7. ASSUME NEW r \in DOMAIN roles, NEW n, NEW c, UpdateRole(actor, r, n, c)
      PROVE  Explained(actor, t, q, s)
  <2>1. Confers(b, s)
    BY <1>2, <1>7 DEF UpdateRole, Confers
  <2>2. roles'[b[2]].crosses /\ ~roles[b[2]].crosses
    BY <1>4, <1>5, <1>7, <2>1 DEF TypeOK, RolesOK
  <2>3. /\ \A x \in DOMAIN roles \ {r} : roles'[x] = roles[x]
        /\ roles'[r].crosses # roles[r].crosses => HasScope(actor, MasterTenant, RolesWrite)
    BY <1>7 DEF UpdateRole, Put
  <2>4. HasScope(actor, Master, RolesWrite)
    BY <1>4, <2>2, <2>3, MasterIsMaster
  <2> QED BY <1>2, <1>4, <2>2, <2>4 DEF Explained
<1>8. ASSUME NEW r \in DOMAIN roles, NEW x \in DOMAIN scopes, AddRoleScope(actor, r, x)
      PROVE  Explained(actor, t, q, s)
  <2>1. /\ UNCHANGED <<roles, scopes>> /\ roleScopes' = roleScopes \cup {<<r, x>>}
        /\ MayDelegate(actor, x, roles[r].tenant)
    BY <1>8 DEF AddRoleScope
  <2>2. ~Confers(b, s)
    BY <1>5, <2>1
  <2>3. b[2] = r /\ scopes[x].name = s
    BY <1>2, <2>1, <2>2 DEF Confers
  <2>4. HasScope(actor, roles[r].tenant, s) \/ OwnsDefinition(actor, s)
    BY <2>1, <2>3 DEF MayDelegate, OwnsDefinition
  <2> QED BY <1>2, <1>4, <2>3, <2>4 DEF Explained
<1>9. ASSUME NEW r, NEW x, RemoveRoleScope(actor, r, x) PROVE FALSE
  BY <1>9, RemoveRoleScopeNarrows
<1>10. ASSUME NEW x, NEW y, NEW n, CreateScope(actor, x, y, n) PROVE FALSE
  <2>1. /\ UNCHANGED <<roles, roleScopes>>
        /\ \A z \in DOMAIN scopes : scopes'[z] = scopes[z]
    BY <1>10 DEF CreateScope, Put
  <2>2. Confers(b, s)
    <3>1. PICK z : scopes'[z].name = s /\ <<b[2], z>> \in roleScopes
      BY <1>2, <2>1 DEF Confers
    <3>2. z \in DOMAIN scopes
      BY <3>1 DEF TypeOK, ScopesOK
    <3> QED BY <2>1, <3>1, <3>2 DEF Confers
  <2> QED BY <1>5, <2>1, <2>2
<1> QED BY <1>6, <1>7, <1>8, <1>9, <1>10 DEF Vocabulary

\* At a tenant just created a binding of old is in force as at its parent.
LEMMA GainedByChild ==
    ASSUME TypeOK, NEW x \in TenantIds, x \notin DOMAIN tenants, NEW parent \in DOMAIN tenants,
           tenants' = Put(tenants, x, Child(parent)),
           UNCHANGED <<roles, scopes, roleScopes, users, keys, now>>,
           NEW t \in DOMAIN tenants', NEW q, NEW s, <<q, s>> \in Gains(t),
           NEW b \in DOMAIN bindings, bindings'[b] = bindings[b],
           b \in EffectiveBindings(q, t)', Confers(b, s)'
    PROVE  t = x /\ tenants'[t].parent = parent /\ HasScope(q, parent, s)
<1>1. /\ b[1] = q /\ Live(b) /\ Confers(b, s)
      /\ b[3] \in Above(t)' /\ (b[3] \in Uncut(t)' \/ roles[b[2]].crosses)
      /\ b[3] # x
  BY InForceAfter, OldPrincipal DEF Live, Expired, Enabled, Confers
<1>2. t \notin DOMAIN tenants
  BY <1>1, ChildChain, NotBefore
<1>3. t = x /\ tenants'[t].parent = parent
  BY <1>2 DEF Put, Child
<1>4. b \in EffectiveBindings(q, parent)
  BY <1>1, <1>3, ChildChain DEF EffectiveBindings, BindingsInForce
<1> QED BY <1>1, <1>3, <1>4, Held

\* What a step on tenants gives comes to its creator, or through a cut undone.
LEMMA GainedByTree ==
    ASSUME TypeOK, NEW t \in DOMAIN tenants', NEW q, NEW s, <<q, s>> \in Gains(t),
           NEW actor \in Principals, Tree(actor)
    PROVE  Explained(actor, t, q, s)
<1>1. UNCHANGED <<roles, scopes, roleScopes, users, keys, now>>
  BY DEF Tree, CreateTenant, CreateWorkspace, UpdateTenant
<1>2. PICK b : b \in EffectiveBindings(q, t)' /\ Confers(b, s)'
  BY LostAndGained
<1>3. /\ b \in DOMAIN bindings' /\ b[1] = q /\ Confers(b, s)
      /\ b[3] \in Above(t)' /\ (b[3] \in Uncut(t)' \/ roles[b[2]].crosses)
  BY <1>1, <1>2, InForceAfter DEF Confers
<1>4. ASSUME NEW x \in TenantIds, NEW parent \in DOMAIN tenants, CreateTenant(actor, x, parent)
      PROVE  Explained(actor, t, q, s)
  <2>1. /\ x \notin DOMAIN tenants /\ tenants' = Put(tenants, x, Child(parent))
        /\ UNCHANGED bindings
    BY <1>4 DEF CreateTenant
  <2>2. t = x /\ tenants'[t].parent = parent /\ HasScope(q, parent, s)
    BY <1>1, <1>2, <1>3, <2>1, GainedByChild
  <2> QED BY <2>1, <2>2 DEF Explained
<1>5. ASSUME NEW x \in TenantIds, NEW r \in DOMAIN roles, CreateWorkspace(actor, x, r)
      PROVE  Explained(actor, t, q, s)
  <2>1. /\ x \notin DOMAIN tenants /\ tenants' = Put(tenants, x, Child(MasterTenant))
        /\ bindings' = Put(bindings, <<actor, r, x>>, Grant(actor, None))
        /\ roles[r].tenant = MasterTenant
    BY <1>5 DEF CreateWorkspace
  <2>2. MasterTenant \in DOMAIN tenants
    BY <2>1 DEF TypeOK, RolesOK
  <2>3. CASE b = <<actor, r, x>>
    <3>1. t \notin DOMAIN tenants
      <4>1. x \in Above(t)'
        BY <1>3, <2>3
      <4>2. \A u \in DOMAIN tenants : Above(u)' \subseteq DOMAIN tenants
        BY <2>1, <2>2, ChildChain DEF Above
      <4> QED BY <2>1, <4>1, <4>2
    <3>2. Did("create_workspace") /\ q = actor
      BY <1>3, <1>5, <2>3 DEF CreateWorkspace, AuditRow, Did
    <3> QED BY <3>1, <3>2 DEF Explained
  <2>4. CASE b # <<actor, r, x>>
    <3>1. b \in DOMAIN bindings /\ bindings'[b] = bindings[b]
      BY <1>3, <2>1, <2>4 DEF Put
    <3>2. t = x /\ tenants'[t].parent = MasterTenant /\ HasScope(q, MasterTenant, s)
      BY <1>1, <1>2, <2>1, <2>2, <3>1, GainedByChild
    <3> QED BY <2>1, <3>2 DEF Explained
  <2> QED BY <2>3, <2>4
<1>6. ASSUME NEW c \in DOMAIN tenants, NEW n, NEW i \in BOOLEAN \cup {None},
             UpdateTenant(actor, c, n, i)
      PROVE  Explained(actor, t, q, s)
  <2> DEFINE j == Coalesce(i, tenants[c].inherit)
  <2>1. /\ tenants' = Put(tenants, c, [tenants[c] EXCEPT !.inherit = j]) /\ UNCHANGED bindings
        /\ j # tenants[c].inherit => HasScope(actor, tenants[c].parent, TenantsWrite)
    BY <1>6 DEF UpdateTenant
  <2>2. j \in BOOLEAN
    BY DEF Coalesce, TypeOK, TenantsOK
  <2> HIDE DEF j
  <2>3. b \in DOMAIN bindings /\ Live(b)
    BY <1>1, <1>2, <2>1, InForceAfter DEF Live, Expired, Enabled
  <2>4. Above(t)' = Above(t)
    BY <2>1, <2>2, FlagChain
  <2>5. b[3] \in Uncut(t)' \ Uncut(t) /\ ~roles[b[2]].crosses
    BY <1>3, <2>3, <2>4, NotBefore
  <2>6. PICK p : p = tenants[c].parent
    OBVIOUS
  <2>7. b[3] \in Uncut(p) /\ c \in Above(t) /\ j /\ ~tenants[c].inherit
    BY <2>1, <2>2, <2>5, <2>6, FlagChain
  <2>8. HasScope(q, p, s)
    <3>1. b \in EffectiveBindings(q, p)
      BY <1>3, <2>3, <2>7, ChainOrder DEF EffectiveBindings, BindingsInForce
    <3> QED BY <1>3, <3>1, Held
  <2>9. tenants'[c].inherit
    BY <2>1, <2>7 DEF Put, TypeOK, TenantsOK
  <2> QED BY <2>1, <2>6, <2>7, <2>8, <2>9 DEF Explained
<1> QED BY <1>4, <1>5, <1>6 DEF Tree

\* No step on keys gives a scope to anybody.
LEMMA GainedByApiKeys ==
    ASSUME TypeOK, NEW t, NEW q, NEW s, <<q, s>> \in Gains(t),
           NEW actor \in Principals, ApiKeys(actor)
    PROVE  FALSE
<1>1. ASSUME NEW k \in KeyIds, NEW x, NEW e, CreateApiKey(actor, k, x, e) PROVE FALSE
  <2>1. /\ UNCHANGED <<tenants, roles, scopes, roleScopes, users, bindings, now>>
        /\ k \notin DOMAIN keys
        /\ DOMAIN keys' = DOMAIN keys \cup {k}
        /\ \A z \in DOMAIN keys : keys'[z] = keys[z]
    BY <1>1 DEF CreateApiKey, Put
  <2>2. PICK b : b \in EffectiveBindings(q, t)' /\ Confers(b, s)'
    BY LostAndGained
  <2>3. /\ b \in DOMAIN bindings /\ b[1] = q /\ Live(b)' /\ Enabled(q)' /\ Confers(b, s)
        /\ b[3] \in Above(t) /\ (b[3] \in Uncut(t) \/ roles[b[2]].crosses)
    BY <2>1, <2>2, InForceAfter, ChainSame DEF Confers
  <2>4. q # k
    BY <2>1, <2>3, OldPrincipal
  <2>5. Live(b)
    BY <2>1, <2>3, <2>4 DEF Live, Enabled, Expired
  <2> QED BY <2>3, <2>5, NotBefore
<1>2. ASSUME NEW k \in DOMAIN keys, RevokeApiKey(actor, k) PROVE FALSE
  BY <1>2, RevokeApiKeyNarrows
<1> QED BY <1>1, <1>2 DEF ApiKeys

\* Without an actor, a scope is only gained by a new binding at the master.
LEMMA GainedByOthers ==
    ASSUME TypeOK, NEW t, NEW q, NEW s, <<q, s>> \in Gains(t), OperatorTools \/ Tick
    PROVE  \E b \in DOMAIN bindings' \ DOMAIN bindings : b[1] = q /\ b[3] = Master
<1>1. UNCHANGED <<tenants, roles, scopes, roleScopes, keys>>
  BY DEF OperatorTools, ProvisionAdmin, ClaimAuthUser, ReclaimIdentity, DeleteAccount,
         SwitchOff, Tick, tables
<1>2. PICK b : b \in EffectiveBindings(q, t)' /\ Confers(b, s)'
  BY LostAndGained
<1>3. /\ b \in DOMAIN bindings' /\ b[1] = q /\ Live(b)' /\ Enabled(q)' /\ Confers(b, s)
      /\ b[3] \in Above(t) /\ (b[3] \in Uncut(t) \/ roles[b[2]].crosses)
  BY <1>1, <1>2, InForceAfter, ChainSame DEF Confers
<1>4. ASSUME b \in DOMAIN bindings, Live(b) PROVE FALSE
  BY <1>3, <1>4, NotBefore
<1>5. ASSUME NEW p \in UserIds, UNCHANGED now, b \in DOMAIN bindings, bindings'[b] = bindings[b],
             DOMAIN users' \subseteq DOMAIN users \cup {p},
             \A x \in DOMAIN users : users[x].off => users'[x].off
      PROVE  FALSE
  <2>1. Enabled(q)
    <3>1. CASE q \in DOMAIN users' /\ ~users'[q].off
      <4>1. q \in DOMAIN users
        BY <1>3, <1>5, <3>1, OldPrincipal
      <4>2. users[q].off \in BOOLEAN
        BY <4>1 DEF TypeOK, PrincipalsOK
      <4> QED BY <1>5, <3>1, <4>1, <4>2 DEF Enabled
    <3>2. CASE ~(q \in DOMAIN users' /\ ~users'[q].off)
      BY <1>1, <1>3, <1>5, <3>2 DEF Enabled, Expired
    <3> QED BY <3>1, <3>2
  <2> QED BY <1>3, <1>4, <1>5, <2>1 DEF Live, Expired
<1>6. ASSUME NEW p \in UserIds, NEW r \in DOMAIN roles, ProvisionAdmin(p, r)
      PROVE  b \notin DOMAIN bindings /\ b[3] = Master
  <2>1. /\ UNCHANGED now /\ DOMAIN users' \subseteq DOMAIN users \cup {p}
        /\ \A x \in DOMAIN users : users'[x] = users[x]
        /\ \A x \in DOMAIN bindings : bindings'[x] = bindings[x]
        /\ DOMAIN bindings' \subseteq DOMAIN bindings \cup {<<p, r, MasterTenant>>}
    BY <1>6 DEF ProvisionAdmin, Put
  <2>2. b \notin DOMAIN bindings
    BY <1>5, <2>1
  <2> QED BY <1>3, <2>1, <2>2, MasterIsMaster
<1>7. ASSUME NEW p \in UserIds,
             ClaimAuthUser(p) \/ ReclaimIdentity(p) \/ DeleteAccount(p) \/ SwitchOff(p)
      PROVE  FALSE
  <2>1. UNCHANGED <<now, bindings>>
    BY <1>7 DEF ClaimAuthUser, ReclaimIdentity, DeleteAccount, SwitchOff
  <2>2. /\ DOMAIN users' \subseteq DOMAIN users \cup {p}
        /\ \A x \in DOMAIN users : users[x].off => users'[x].off
    BY <1>7 DEF ClaimAuthUser, ReclaimIdentity, DeleteAccount, SwitchOff, Put, TypeOK, PrincipalsOK
  <2> QED BY <1>3, <1>5, <2>1, <2>2
<1>8. ASSUME Tick PROVE FALSE
  <2>1. UNCHANGED <<users, keys, bindings>> /\ now' = now + 1 /\ now \in Nat
    BY <1>8, ClockBounds DEF Tick, tables, TypeOK, Times
  <2>2. \A e \in Expiries \cup {None} : Expired(e) => Expired(e)'
    BY <2>1, ClockBounds DEF Expired
  <2>3. bindings[b].expires \in Expiries \cup {None}
    BY <1>3, <2>1 DEF TypeOK, BindingsOK
  <2>4. \A k \in DOMAIN keys : keys[k].expires \in Expiries \cup {None}
    BY DEF TypeOK, PrincipalsOK
  <2>5. Enabled(q)
    BY <1>3, <2>1, <2>2, <2>4 DEF Enabled
  <2>6. Live(b)
    BY <1>3, <2>1, <2>2, <2>3, <2>5 DEF Live
  <2> QED BY <1>3, <1>4, <2>1, <2>6
<1> QED BY <1>3, <1>6, <1>7, <1>8 DEF OperatorTools

\* No escalation: whoever newly holds a scope at a tenant got it from an
\* actor who could hand it on, or in one of the other ways GainsAccountedFor
\* lists, however many calls by whomever led there (the holds-it-or-owns-it
\* rule of grant_role, invite_user and add_role_scope, the master authority
\* update_role asks for crossing, the parent's that update_tenant asks for).
THEOREM NoEscalation == Spec => GainsAccountedFor
<1>1. ASSUME TypeOK, Next, NEW t \in DOMAIN tenants', NEW g \in Gains(t)
      PROVE  \/ /\ wrote' = << >>
                /\ \E b \in DOMAIN bindings' \ DOMAIN bindings : b[1] = g[1] /\ b[3] = Master
             \/ wrote' # << >> /\ Explained(Actor, t, g[1], g[2])
  <2>1. g = <<g[1], g[2]>>
    BY HoldingsArePairsAfter DEF Gains
  <2>2. CASE wrote' = << >>
    <3>1. OperatorTools \/ Tick
      BY <1>1, <2>2, OthersTell DEF Next, Membership, GrantRole, InviteUser, Tells
    <3> QED BY <1>1, <2>1, <2>2, <3>1, GainedByOthers
  <2>3. CASE wrote' # << >>
    <3>1. PICK a : a = Actor
      OBVIOUS
    <3>2. a \in Principals /\ (Membership(a) \/ Vocabulary(a) \/ Tree(a) \/ ApiKeys(a))
      BY <1>1, <2>3, <3>1, ActorActs
    <3>3. Explained(a, t, g[1], g[2])
      BY <1>1, <2>1, <3>2, GainedByMembership, GainedByVocabulary, GainedByTree, GainedByApiKeys
    <3> QED BY <2>3, <3>1, <3>3
  <2> QED BY <2>2, <2>3
<1>2. TypeOK /\ [Next]_vars =>
        [\A t \in DOMAIN tenants' : \A g \in Gains(t) :
           \/ /\ wrote' = << >>
              /\ \E b \in DOMAIN bindings' \ DOMAIN bindings : b[1] = g[1] /\ b[3] = Master
           \/ /\ wrote' # << >>
              /\ \/ HasScope(Actor, t, g[2])
                 \/ OwnsDefinition(Actor, g[2])
                 \/ \E b \in EffectiveBindings(g[1], t)' : b[2] \in DOMAIN roles /\
                       \/ HasScope(Actor, roles[b[2]].tenant, g[2])
                       \/ roles'[b[2]].crosses /\ \/ HasScope(Actor, b[3], g[2])
                                                  \/ HasScope(Actor, Master, RolesWrite)
                 \/ t \notin DOMAIN tenants /\ \/ HasScope(g[1], tenants'[t].parent, g[2])
                                               \/ Did("create_workspace") /\ g[1] = Actor
                 \/ \E c \in Above(t) :
                       /\ tenants'[c].inherit /\ ~tenants[c].inherit
                       /\ HasScope(Actor, tenants[c].parent, TenantsWrite)
                       /\ HasScope(g[1], tenants[c].parent, g[2])]_vars
  BY <1>1 DEF Explained
<1> QED BY <1>2, TypeCorrect, PTL DEF Spec, GainsAccountedFor

-----------------------------------------------------------------------------
(* The tree *)

\* The tenants are finitely many, each is below the master and none is above
\* its parent.
Rooted ==
    /\ IsFiniteSet(DOMAIN tenants)
    /\ \A t \in DOMAIN tenants : Master \in Above(t)
    /\ \A t, p \in DOMAIN tenants : tenants[t].parent = p => t \notin Above(p)

\* Where parents stay, so does the tree.
LEMMA RootedSame ==
    ASSUME Rooted, DOMAIN tenants' = DOMAIN tenants,
           \A x \in DOMAIN tenants : tenants'[x].parent = tenants[x].parent
    PROVE  Rooted'
<1>1. \A t : Above(t)' = Above(t)
  BY AboveSame
<1>2. \A t \in DOMAIN tenants' : Master \in Above(t)'
  BY <1>1 DEF Rooted
<1>3. \A t, p \in DOMAIN tenants' : tenants'[t].parent = p => t \notin Above(p)'
  BY <1>1 DEF Rooted
<1> QED BY <1>2, <1>3 DEF Rooted

\* A new leaf hangs below the master, and nothing hangs below it.
LEMMA RootedChild ==
    ASSUME TypeOK, Rooted, NEW t \in TenantIds, t \notin DOMAIN tenants, NEW parent \in DOMAIN tenants,
           tenants' = Put(tenants, t, Child(parent))
    PROVE  Rooted'
<1>1. /\ DOMAIN tenants' = DOMAIN tenants \cup {t} /\ tenants'[t].parent = parent
      /\ \A x \in DOMAIN tenants : tenants'[x] = tenants[x]
  BY DEF Put, Child
<1>2. \A x \in DOMAIN tenants : Above(x)' = Above(x) /\ Above(x) \subseteq DOMAIN tenants
  BY ChildChain DEF Above
<1>3. Master \in Above(t)'
  <2>1. Master \in Above(parent)
    BY DEF Rooted
  <2>2. \A x \in DOMAIN tenants : Above(x) \subseteq Above(x)'
    BY AboveChild
  <2>3. parent \in Above(t)'
    BY AboveChild
  <2> QED BY <2>1, <2>2, <2>3, ChainOrderUpAfter
<1>4. \A x \in DOMAIN tenants' : Master \in Above(x)'
  BY <1>1, <1>2, <1>3 DEF Rooted
<1>5. ASSUME NEW x \in DOMAIN tenants', NEW p \in DOMAIN tenants', tenants'[x].parent = p
      PROVE  x \notin Above(p)'
  <2>1. CASE x = t
    BY <1>1, <1>2, <1>5, <2>1
  <2>2. CASE x \in DOMAIN tenants
    <3>1. p \in DOMAIN tenants \cup {None} /\ tenants[x].parent = p
      BY <1>1, <1>5, <2>2 DEF TypeOK, TenantsOK
    <3>2. p \in DOMAIN tenants
      BY <1>1, <1>5, <3>1, DistinctIds
    <3> QED BY <1>2, <2>2, <3>1, <3>2 DEF Rooted
  <2> QED BY <1>1, <2>1, <2>2
<1>6. IsFiniteSet(DOMAIN tenants')
  BY <1>1, FS_AddElement DEF Rooted
<1> QED BY <1>4, <1>5, <1>6 DEF Rooted

LEMMA RootedInit == Init => Rooted
<1> SUFFICES ASSUME Init PROVE Rooted
  OBVIOUS
<1>1. DOMAIN tenants = {Master} /\ tenants[Master].parent = None
  BY DEF Init
<1>2. None # Master
  BY DistinctIds, BootstrapIds
<1>3. Master \in Above(Master)
  BY <1>1, AboveSelf
<1>4. IsFiniteSet({Master})
  BY FS_Singleton
<1> QED BY <1>1, <1>2, <1>3, <1>4 DEF Rooted

\* Whatever is created and restructured, there is one tree: every tenant is
\* below the master, none above itself (001_auth_kit_functions.sql:1284-1475).
\* With the depth cap it is what the walk of ChainWalk starts from.
THEOREM OneTree == Spec => []Rooted
<1>1. ASSUME TypeOK, Rooted, [Next]_vars PROVE Rooted'
  <2>1. CASE \E actor \in Principals : Tree(actor)
    <3>1. PICK actor \in Principals : Tree(actor)
      BY <2>1
    <3>2. ASSUME NEW t \in TenantIds, NEW parent \in DOMAIN tenants, CreateTenant(actor, t, parent)
          PROVE  Rooted'
      BY <1>1, <3>2, RootedChild DEF CreateTenant
    <3>3. ASSUME NEW t \in TenantIds, NEW r \in DOMAIN roles, CreateWorkspace(actor, t, r)
          PROVE  Rooted'
      <4>1. MasterTenant \in DOMAIN tenants
        BY <1>1, <3>3 DEF CreateWorkspace, TypeOK, RolesOK
      <4> QED BY <1>1, <3>3, <4>1, RootedChild DEF CreateWorkspace
    <3>4. ASSUME NEW t \in DOMAIN tenants, NEW n \in BOOLEAN, NEW i \in BOOLEAN \cup {None},
                 UpdateTenant(actor, t, n, i)
          PROVE  Rooted'
      <4>1. tenants' = Put(tenants, t, [tenants[t] EXCEPT !.inherit = Coalesce(i, tenants[t].inherit)])
        BY <3>4 DEF UpdateTenant
      <4>2. /\ DOMAIN tenants' = DOMAIN tenants
            /\ \A x \in DOMAIN tenants : tenants'[x].parent = tenants[x].parent
        BY <1>1, <4>1 DEF Put, TypeOK, TenantsOK
      <4> QED BY <1>1, <4>2, RootedSame
    <3> QED BY <3>1, <3>2, <3>3, <3>4 DEF Tree
  <2>2. CASE UNCHANGED tenants
    BY <1>1, <2>2, RootedSame
  <2>3. (\E actor \in Principals : Tree(actor)) \/ UNCHANGED tenants
    <3>1. ASSUME NEW actor \in Principals, Membership(actor) \/ Vocabulary(actor) \/ ApiKeys(actor)
          PROVE  UNCHANGED tenants
      <4>1. CASE Membership(actor)
        BY <4>1 DEF Membership, GrantRole, InviteUser, RevokeBinding, Revoke
      <4>2. CASE Vocabulary(actor)
        BY <4>2 DEF Vocabulary, CreateRole, UpdateRole, AddRoleScope, RemoveRoleScope, CreateScope
      <4>3. CASE ApiKeys(actor)
        BY <4>3 DEF ApiKeys, CreateApiKey, RevokeApiKey
      <4> QED BY <3>1, <4>1, <4>2, <4>3
    <3>2. OperatorTools \/ Tick \/ UNCHANGED vars => UNCHANGED tenants
      BY DEF OperatorTools, ProvisionAdmin, ClaimAuthUser, ReclaimIdentity, DeleteAccount, SwitchOff,
             Tick, vars, tables
    <3> QED BY <1>1, <3>1, <3>2 DEF Next
  <2> QED BY <2>1, <2>2, <2>3
<1> QED BY <1>1, RootedInit, TypeCorrect, PTL DEF Spec

=============================================================================
