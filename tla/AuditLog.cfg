SPECIFICATION Spec
CONSTANTS
    None = None
    Malformed = Malformed
    a = a
    wide = wide
    replica = replica
    narrow = narrow
    Tenants <- MCTenants
    Ids <- MCIds
    Jobs <- MCJobs
    Options <- MCOptions
    Casts <- MCCasts
    Listings <- MCListings
    Readable <- MCReadable
    DefaultLimit = 1
    MaxLimit = 2
    FirstTime = 2
    MaxTime = 3
    MaxWrites = 1
    MaxFaults = 1
INVARIANTS TypeOK ZeroIsFinal PagesDescend PagesComplete
PROPERTIES HolesAreRecorded LoopsEnd
CHECK_DEADLOCK FALSE
