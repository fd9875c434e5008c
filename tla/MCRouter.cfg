SPECIFICATION FairSpec
CONSTANTS
    c1 = c1
    c2 = c2
    s1 = s1
    s2 = s2
    d1 = d1
    d2 = d2
    d3 = d3
    Call = {c1, c2}
    Scene = {s1}
    Dir = {d1, d2, d3}
    Dest <- Dests
    Kept = 1
    Foreign = {s2}
    Nothing = Nothing
    Routes = 2
    Named = {2}
    Unnamed = Unnamed
    Cooldown = 1
    HealthyTtl = 1
    RetryAfter = {0, 2}
    MaxGenerating = 2
INVARIANTS
    OnePossibleBill
    RetryFindsTheBundle
PROPERTIES
    StaleProbeChangesNothing
    EveryCallEnds
CHECK_DEADLOCK FALSE
