SPECIFICATION MCSpec
CONSTANTS
    ErrorUI = ErrorUI
    Nothing = Nothing
    None = None
    MaxDeliveries = 3
    Life = 1
    Interval = 2
    MaxResults = 2
    MaxClicks = 2
    MaxTime = 4
    Resource = {x, y}
    Id = {i1}
    NoId = NoId
    Value = {v1, v2}
    v1 = v1
    Unrecognized = {v2}
    MAX_ACCUMULATED_INSIGHTS = 3
    MAX_INSIGHTS = 2
    MAX_PULSE_TIMEOUTS = 2
    Budget = 8
    Cost <- PulseCost
    MaxPulseEvents = 3
    Blank = Blank
    Weights <- MCWeights
    Snapshot <- MCSnapshot
    Bytes <- MCBytes
    SUMMARY_PAGE_ROW_COUNT = 5
    MAX_SELECTED_MARKS = 2
    PUSH_BUDGET_BYTES = 16
    PREAMBLE_BYTES = 4
SYMMETRY Symmetry
INVARIANTS
    PageIsConsistent
    ScreenIsExplained
    PanelsAreHonest
    SettledIsCurrent
    PushedIsSound
    TrimsNoMoreThanNeeded
CHECK_DEADLOCK FALSE
