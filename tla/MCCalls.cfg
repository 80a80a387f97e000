SPECIFICATION MCSpec
CONSTANTS
    Call = {a, b, c, r}
    Final = {r}
    None = None
    Nothing = Nothing
    ToolCall = {c1, c2}
    Pid = {p1}
    MaxAttempts = 1
    MaxRuns = 2
    MaxEvents = 1
INVARIANTS
    SerialDiscipline
    AnswersAreHonest
PROPERTIES
    OnlyFinalAfterAbort
    EveryCallSettles
    CallsEnd
CHECK_DEADLOCK FALSE
