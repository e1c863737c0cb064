CONSTANTS
    TenantIds = {M, A, B, C}
    RoleIds = {Admin, TenantAdmin, R}
    ScopeIds = {"authz.bindings.grant", "authz.bindings.revoke", "authz.roles.write",
        "authz.scopes.write", "authz.tenants.write", "authz.users.write", "authz.api_keys.write",
        s1}
    ScopeNames = {"authz.bindings.grant", "authz.bindings.revoke", "authz.roles.write",
        "authz.scopes.write", "authz.tenants.write", "authz.users.write", "authz.api_keys.write",
        "app"}
    UserIds = {op, u, v}
    KeyIds = {k}
    RoleNames = {"admin", "tenant_admin", "custom"}
    Expiries = {None, 1}
    MaxTime = 1
    MaxCalls = 2
    BootCalls = 4
    Cuts = {TRUE, FALSE}
    Crossings = {TRUE}
    MemberRoles = {R}
    Withdrawn = {TRUE, FALSE}
    Callers = {op, u, v, k}
    Tools = TRUE
    Master = M
    Admin = Admin
    TenantAdmin = TenantAdmin
    M = M
    A = A
    B = B
    R = R
    op = op
    u = u
    v = v
    None = None
SPECIFICATION MCSpec
INVARIANTS
    TypeOK
    NothingFromOtherBranches
    GrantTakesEffect
PROPERTIES
    GainsAccountedFor
    LossesComeFromAbove
    OperatorReach
    NarrowingNarrows
    RevocationStands
CHECK_DEADLOCK FALSE
