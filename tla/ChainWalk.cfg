CONSTANTS
    TenantIds = {1, 2, 3, 4, 5}
    RoleIds = {1, 2}
    ScopeIds = {1, 2}
    UserIds = {1}
    KeyIds = {}
    ScopeNames = {"scope"}
    None = None
    MaxLevel = 64
SPECIFICATION MCSpec
INVARIANTS
    TypeOK
    WalkIsClosure
    NearestWins
    Compositional
    ShortcutIsExact
CHECK_DEADLOCK FALSE
