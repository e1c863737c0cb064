------------------------------ MODULE MCAuthz ------------------------------
(***************************************************************************)
(* Small instances of Authz.  Prepared is the bootstrap followed by a few  *)
(* calls of the operator, so that a few more calls reach the cases that    *)
(* matter: a tenant A with an administrator u, a sub-tenant B, cut off or  *)
(* not, and a role of A that an operator made crossing or left alone; or   *)
(* the bootstrap alone, followed by BootCalls calls of anybody's.          *)
(***************************************************************************)
EXTENDS Authz

CONSTANTS
    M, A, B,     \* tenants: the master, a workspace, a sub-tenant
    R,           \* a role of A
    op, u, v,    \* the operator, A's administrator, a member
    Cuts,        \* whether B is cut off from A: a subset of BOOLEAN
    Crossings,   \* whether R crosses: a subset of BOOLEAN
    MemberRoles, \* the role v is given at B, None for no binding
    Withdrawn,   \* whether it has been revoked since: a subset of BOOLEAN
    Callers,     \* the principals whose calls are explored
    Tools,       \* whether operator tools, account events and time are
    MaxCalls,    \* bound on the calls explored after Prepared
    BootCalls    \* and after the bootstrap

VARIABLE left    \* how many calls may follow

mcvars == <<vars, left>>

\* provision_admin(op), three confirmed signups, create_tenant(A),
\* create_tenant(B), create_role(R), add_role_scope(R, authz.roles.write),
\* invite_user(u, A, tenant_admin), and perhaps invite_user(v, B, role),
\* revoke_binding of that, update_role(R, crosses) and update_tenant(B, cut).
Prepared ==
    /\ \E cut \in Cuts, crosses \in Crossings, role \in MemberRoles, withdrawn \in Withdrawn :
        /\ tenants = [t \in {M, A, B} |->
                        [parent |-> CASE t = M -> None [] t = A -> M [] t = B -> A,
                         inherit |-> ~(t = B /\ cut)]]
        /\ roles = [r \in {Admin, TenantAdmin, R} |->
                        [tenant |-> IF r = R THEN A ELSE M,
                         crosses |-> r = Admin \/ (r = R /\ crosses),
                         name |-> CASE r = Admin -> "admin" [] r = TenantAdmin -> "tenant_admin"
                                    [] r = R -> "custom"]]
        /\ bindings = [b \in {<<op, Admin, M>>, <<u, TenantAdmin, A>>} \cup
                             ({v} \X ({role} \ {None}) \X {B}) |->
                        [Grant(op, None) EXCEPT !.revoked = IF b[1] = v /\ withdrawn THEN 0 ELSE None]]
        /\ now = IF withdrawn THEN MaxTime ELSE 0
    /\ scopes = [n \in Reserved |-> [tenant |-> M, name |-> n]]
    /\ roleScopes = ({Admin} \X Reserved) \cup ({TenantAdmin} \X (Reserved \ {UsersWrite}))
                        \cup {<<R, RolesWrite>>}
    /\ users = [p \in {op, u, v} |-> [linked |-> TRUE, claimed |-> TRUE, off |-> FALSE]]
    /\ keys = [k \in {} |-> None]
    /\ wrote = << >>

MCInit ==
    \/ Prepared /\ left = MaxCalls
    \/ Init /\ left = BootCalls

MCNext ==
    /\ left > 0 /\ left' = left - 1
    /\ Next
    /\ IF wrote' = << >> THEN Tools ELSE Actor \in Callers

MCSpec == MCInit /\ [][MCNext]_mcvars
=============================================================================
