SPECIFICATION MCSpec
CONSTANTS
    None = None
    u1 = u1
    u2 = u2
    t1 = t1
    listViews = listViews
    getEmbedToken = getEmbedToken
    listFlows = listFlows
    Validation = {r1, r2}
    TableauSession = {s1}
    ScopedTool = {listViews, getEmbedToken, listFlows}
    Enabled = {listViews, getEmbedToken}
    McpScopes <- MCMcpScopes
    ApiScopes <- MCApiScopes
    Interval = 1
    MaxEntries = 1
    RequestTimeout = 1
    TokenLife = 1
    MaxValidations = 1
    MaxTime = 3
    Login = {l1, l2}
    Grant = {g1, g2}
    MaxTokens = 2
    Request = {q1, q2, q3}
    Client = {c1}
    User = {u1, u2}
    Tool = {t1}
    Include <- MCInclude
    Exclude <- MCExclude
    DefaultLevel = 0
    NoticeLevel = 1
    MaxLevel = 1
SYMMETRY Symmetry
INVARIANTS
    AdmittedIsFresh
    StepUpSuffices
    SessionsAreSound
PROPERTIES
    TokensAreSound
CHECK_DEADLOCK FALSE
