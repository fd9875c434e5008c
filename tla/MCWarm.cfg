SPECIFICATION FairSpec
CONSTANTS
    j1 = j1
    j2 = j2
    u1 = u1
    u2 = u2
    p1 = p1
    x1 = x1
    Job = {j1}
    User = {u1}
    Prewarm = {p1}
    Other = {x1}
    RunCap = 5
    HardStop = 4
    CallCeiling = 1
    SessionCeiling = 2
    ProviderCap = 3
    Costs = {1}
    Reports = {0, 3}
    EnablePreview = TRUE
    EnableMotion = TRUE
    AutoPrewarm = TRUE
    MaxCrashes = 1
INVARIANTS
    PaidCallsReserved
    SessionEndsWithItsJob
PROPERTIES
    OperationsEnd
    StaleSessionForgotten
CHECK_DEADLOCK FALSE
