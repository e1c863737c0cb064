---------------------------- MODULE MCWriteRace ----------------------------
(***************************************************************************)
(* Two calls at once in the tree of MCAuthz: a workspace A with the        *)
(* administrators u and v, a tenant B below it, a role R of A, and w, whom *)
(* it may have been granted at B.                                          *)
(***************************************************************************)
EXTENDS WriteRace, TLC

CONSTANTS A, B, R, s1, op, u, v, w, one, two

MCSessions == {one, two}
Alike == Permutations(MCSessions)
MCTenantIds == {Master, A, B}
MCRoleIds == {Admin, TenantAdmin, R}
MCUserIds == {op, u, v, w}

MCReserved ==
    {"authz.bindings.grant", "authz.bindings.revoke", "authz.roles.write", "authz.scopes.write",
     "authz.tenants.write", "authz.users.write", "authz.api_keys.write"}
MCScopeIds == MCReserved \cup {s1}
MCScopeNames == MCReserved \cup {"app"}

Granted(expires, revoked) == [by |-> op, expires |-> expires, revoked |-> revoked]

Database(crosses, inherit, name, member) ==
    [tenants |-> [t \in MCTenantIds |->
                    [parent |-> CASE t = Master -> None [] t = A -> Master [] t = B -> A,
                     inherit |-> t = B => inherit]],
     roles |-> [r \in MCRoleIds |->
                    [tenant |-> IF r = R THEN A ELSE Master,
                     crosses |-> r = Admin \/ (r = R /\ crosses),
                     name |-> CASE r = Admin -> "admin" [] r = TenantAdmin -> "tenant_admin" [] r = R -> name]],
     scopes |-> [s \in MCScopeIds |-> [tenant |-> IF s = s1 THEN A ELSE Master, name |-> IF s = s1 THEN "app" ELSE s]],
     roleScopes |-> ({Admin} \X MCReserved) \cup ({TenantAdmin} \X (MCReserved \ {"authz.users.write"}))
                        \cup {<<R, "authz.bindings.grant">>},
     users |-> [p \in MCUserIds |-> [linked |-> TRUE, claimed |-> TRUE, off |-> FALSE]],
     keys |-> [k \in {} |-> None],
     bindings |-> [b \in {<<op, Admin, Master>>, <<u, TenantAdmin, A>>, <<v, TenantAdmin, A>>}
                            \cup (IF member = None THEN {} ELSE {<<w, R, B>>}) |->
                        IF b[1] = w THEN member ELSE Granted(None, None)]]

\* Below the cut the role does not hide admin, and u has not what admin has.
Hiding ==
    [Database(FALSE, FALSE, "admin", None) EXCEPT
        !.roleScopes = @ \cup {<<R, "authz.users.write">>},
        !.bindings = [b \in DOMAIN @ \cup {<<u, R, A>>, <<u, TenantAdmin, B>>} |-> Granted(None, None)]]

\* The role may have a name of its own, or hide the master's admin.
MCDatabases ==
    {Hiding, Database(TRUE, TRUE, "custom", None), Database(FALSE, TRUE, "custom", Granted(1, None)),
     Database(FALSE, TRUE, "admin", Granted(None, None)), Database(TRUE, FALSE, "admin", Granted(None, 0)),
     Database(FALSE, FALSE, "custom", Granted(None, None))}

\* R crosses cuts, as an operator has made it.
CrossingDatabases == {st \in MCDatabases : st.roles[R].crosses}

Call(fn, actor, on, arg) == [op |-> fn, actor |-> actor, on |-> on, arg |-> arg]

MCCalls ==
    {Call("grant_role", p, <<w, R, B>>, e) : p \in {u, v}, e \in {None, 1}}
        \cup {Call("grant_role", u, <<w, TenantAdmin, A>>, None)}
        \cup {Call("grant_role", p, <<w, Admin, B>>, None) : p \in {u, w}}
        \cup {Call("grant_role", w, <<w, R, B>>, None)}
        \cup {Call("revoke_binding", u, <<v, TenantAdmin, A>>, None),
              Call("revoke_binding", v, <<u, TenantAdmin, A>>, None),
              Call("revoke_binding", op, <<u, TenantAdmin, A>>, None)}
        \cup {Call("revoke_binding", u, <<w, R, B>>, None)}
        \cup {Call(fn, p, <<R, s>>, None) :
                fn \in {"add_role_scope", "remove_role_scope"}, p \in {u}, s \in {s1, "authz.bindings.grant"}}
        \cup {Call("remove_role_scope", op, <<TenantAdmin, "authz.bindings.revoke">>, None)}
        \cup {Call("update_role", p, R, x) : p \in {u, op}, x \in BOOLEAN}
        \cup {Call("update_tenant", p, B, x) : p \in {u, w}, x \in BOOLEAN}
=============================================================================
