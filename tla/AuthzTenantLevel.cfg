CONSTANTS
    TenantIds = {M, A, B, C}
    RoleIds = {Admin, TenantAdmin, R, R2}
    ScopeIds = {"authz.bindings.grant", "authz.bindings.revoke", "authz.roles.write",
        "authz.scopes.write", "authz.tenants.write", "authz.users.write", "authz.api_keys.write",
        s1}
    ScopeNames = {"authz.bindings.grant", "authz.bindings.revoke", "authz.roles.write",
        "authz.scopes.write", "authz.tenants.write", "authz.users.write", "authz.api_keys.write",
        "app"}
    UserIds = {op, u, v}
    KeyIds = {k}
    RoleNames = {"admin", "tenant_admin", "custom"}
    Expiries = {None}
    MaxTime = 1
    MaxCalls = 3
    BootCalls = 0
    Cuts = {TRUE}
    Crossings = {FALSE}
    MemberRoles = {R}
    Withdrawn = {FALSE}
    Callers = {u, v, k}
    Tools = FALSE
    Master = M
    Admin = Admin
    TenantAdmin = TenantAdmin
    M = M
    A = A
    B = B
    R = R
    op = op
    u = u
    v = v
    None = None
SPECIFICATION MCSpec
PROPERTIES
    GainsAccountedFor
    LossesComeFromAbove
CHECK_DEADLOCK FALSE
