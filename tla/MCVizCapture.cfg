SPECIFICATION Spec
CONSTANTS
    s1 = s1
    s2 = s2
    d1 = d1
    d2 = d2
    NoSheet = NoSheet
    Undefined = Undefined
    Worksheets <- MCWorksheets
    Surface <- MCSurface
    Contents <- MCContents
    Filter = {f1}
    Source = {d1, d2}
    MAX_FILTERS_WITH_APPLIED_TO = 1
    MAX_DATASOURCES = 2
    MAX_DATASOURCES_TOTAL = 1
INVARIANTS
    ReaderIsReleased
    CacheIsTruthful
    ErrorLinesAreHonest
    DatasourcesAreRight
PROPERTIES
    CaptureTerminates
CHECK_DEADLOCK FALSE
