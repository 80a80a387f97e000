SPECIFICATION MCSpec
CONSTANTS
    Run = {r1, r2}
    Sheet = {s1}
    NoSheet = NoSheet
    MAX_CONSECUTIVE_TIMEOUTS = 2
    MaxEvents = 4
    v1 = v1
    Id = {}
    NoId = NoId
    Value = {v1}
    Unrecognized = {}
    MAX_ACCUMULATED_INSIGHTS = 3
    MAX_INSIGHTS = 1
    MAX_PULSE_TIMEOUTS = 2
    Budget = 8
    Cost <- MCCost
    MaxPulseEvents = 2
    Blank = Blank
    Key = {j, k}
    MAX_DELAY = 2
    MaxSize = 1
    Delay <- MCDelay
    LongDelay = {1, 5}
    MaxSets = 3
    MaxTime = 4
    None = None
INVARIANTS
    CaptureDiscipline
PROPERTIES
    PushDiscipline
    InteractionIsCaptured
    ImplementsSingleFlight
    PulseImplementsSingleFlight
    TimersAreOnTime
CHECK_DEADLOCK FALSE
