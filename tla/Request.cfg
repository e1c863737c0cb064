SPECIFICATION Spec
CONSTANTS
    None = None
    user = user
    robot = robot
    t1 = t1
    t2 = t2
    t3 = t3
    key = key
    account = account
    stranger = stranger
    r1 = r1
    r2 = r2
    Principals <- MCPrincipals
    Tenants <- MCTenants
    Existing <- MCExisting
    ScopeNames <- MCScopes
    Keys <- MCKeys
    Accounts <- MCAccounts
    Requests <- MCRequests
    Inputs <- MCInputs
    FirstWorlds <- MCFirstWorlds
    FailCodes <- MCFailCodes
    Denials = TRUE
    MaxFaults = 1
    MaxChanges = 1
INVARIANTS TypeOK OneViewPerTenant DenialsReachLog RowsAreRefusals
PROPERTIES ImplementsAccess OneAnswer EveryRequestAnswered
CHECK_DEADLOCK FALSE
