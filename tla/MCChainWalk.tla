---------------------------- MODULE MCChainWalk ----------------------------
(***************************************************************************)
(* ChainWalk on every tree of up to four tenants, every combination of     *)
(* cuts, and every placement of two roles of one name and a grant, or of   *)
(* two scopes of one name and their roles.                                 *)
(***************************************************************************)
EXTENDS ChainWalk

\* Every tree with ids in 1..4 has an isomorphic one whose parents are
\* smaller than their children; in it 4 stands at every depth.
Trees ==
    [parent : {f \in [1..4 -> 0..3] : f[1] = 0 /\ \A t \in 2..4 : f[t] \in 1..(t - 1)},
     inherit : {f \in [1..4 -> BOOLEAN] : f[1]}]

Tenants(tree) ==
    [t \in 1..4 |-> [parent |-> IF tree.parent[t] = 0 THEN None ELSE tree.parent[t],
                     inherit |-> tree.inherit[t]]]

Role(t, crosses) == [tenant |-> t, name |-> "role", crosses |-> crosses]
Scope(t) == [tenant |-> t, name |-> "scope"]
Live1 == [by |-> 1, expires |-> None, revoked |-> None]

\* Two roles of one name, with a scope each, and a grant of one of them.
SomeRoles ==
    \E a, b, c \in 1..4, x, y \in BOOLEAN, r \in RoleIds :
        /\ a # b
        /\ roles = [q \in RoleIds |-> IF q = 1 THEN Role(a, x) ELSE Role(b, y)]
        /\ scopes = [s \in {1} |-> Scope(1)]
        /\ roleScopes = {<<1, 1>>, <<2, 1>>}
        /\ bindings = [d \in {<<1, r, c>>} |-> Live1]

\* Two scopes of one name, attached to a crossing and to an ordinary role.
SomeScopes ==
    \E a, b \in 1..4, attached \in SUBSET (RoleIds \X ScopeIds) :
        /\ a # b
        /\ roles = [q \in RoleIds |-> Role(q, q = 1)]
        /\ scopes = [s \in ScopeIds |-> IF s = 1 THEN Scope(a) ELSE Scope(b)]
        /\ roleScopes = attached
        /\ bindings = [d \in {} |-> Live1]

Quiet ==
    /\ users = [p \in UserIds |-> [linked |-> TRUE, claimed |-> TRUE, off |-> FALSE]]
    /\ keys = [k \in {} |-> None]
    /\ now = 0

MCInit ==
    /\ \E tree \in Trees : tenants = Tenants(tree)
    /\ SomeRoles \/ SomeScopes
    /\ Quiet
    /\ Init

MCSpec == MCInit /\ [][Pass]_vars

=============================================================================
