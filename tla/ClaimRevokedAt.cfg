SPECIFICATION Spec
CONSTANTS
    None = None
    Master = Master
    Admin = Admin
    TenantAdmin = TenantAdmin
    A = A
    B = B
    R = R
    s1 = s1
    op = op
    u = u
    v = v
    w = w
    one = one
    two = two
    TenantIds <- MCTenantIds
    RoleIds <- MCRoleIds
    ScopeIds <- MCScopeIds
    UserIds <- MCUserIds
    KeyIds = {}
    ScopeNames <- MCScopeNames
    RoleNames = {"admin", "tenant_admin", "custom"}
    Expiries = {None, 1}
    MaxTime = 1
    Sessions <- MCSessions
    Calls <- MCCalls
    Databases <- MCDatabases
PROPERTY FirstRevocationKept
CHECK_DEADLOCK FALSE
