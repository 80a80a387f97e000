SPECIFICATION MCSpec
CONSTANTS
    t1 = t1
    t2 = t2
    a = a
    b = b
    r1 = r1
    r2 = r2
    None = None
    Calls <- AllCalls
    AuthModes <- MCSignInModes
    Tools = {t1, t2}
    StaleDefault = 1
    Requests = {r1, r2}
    Environments <- MCEnvironments
    SitesSettings <- MCSitesSettings
    Overrides <- MCOverrides
    Interval = 2
    Timeout = 1
    MaxTime = 4
    MaxVersions = 2
    Items <- MCItems
    Listings <- MCListings
    Filters <- MCFilters
    MaxLimit = 5
    MAX_PAGE_SIZE = 2
    ServerPage = 1
    DefaultLimit = 3
    MaxChanges = 2
INVARIANTS
    CollectsTotal
CHECK_DEADLOCK FALSE
