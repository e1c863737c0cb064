SPECIFICATION Spec
CONSTANTS
    None = None
    Releases <- MCReleases
    OwnVersions <- MCOwnVersions
    MaxClock = 3
    MaxOwn = 2
    MaxCrashes = 2
INVARIANTS TypeOK InstalledOnce
PROPERTIES AlwaysLater RunsAreComplete EverythingInstalled
CHECK_DEADLOCK FALSE
