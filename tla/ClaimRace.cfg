CONSTANTS
    Sessions = {s1, s2}
    Emails = {e1, e2}
    Accounts = {a1}
    Reclaims = FALSE
    None = None
SPECIFICATION Spec
INVARIANTS
    WaitingIsClaimed
