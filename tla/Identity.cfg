SPECIFICATION MCSpec
CONSTANTS
    s1 = s1
    s2 = s2
    a1 = a1
    a2 = a2
    a3 = a3
    Sessions <- MCSessions
    Accounts <- MCAccounts
    Emails = {e1, e2}
    Reclaims = TRUE
    None = None
INVARIANTS TypeOK LinksAreSound WaitingIsClaimedInTurn
PROPERTIES ImplementsLifecycle TransactionsEnd
