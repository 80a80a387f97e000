SPECIFICATION ChannelSpec
CONSTANTS
    s1 = s1
    d1 = d1
    Run = {r1, r2}
    MAX_CONSECUTIVE_TIMEOUTS = 2
    MaxEvents = 2
    NoSheet = NoSheet
    Undefined = Undefined
    Worksheets <- MCWorksheets
    Surface <- MCSurface
    Contents <- MCContents
    Filter = {}
    Source = {d1}
    MAX_FILTERS_WITH_APPLIED_TO = 1
    MAX_DATASOURCES = 2
    MAX_DATASOURCES_TOTAL = 1
INVARIANTS
    BreakerNeedsATimeout
PROPERTIES
    ImplementsBridge
CHECK_DEADLOCK FALSE
