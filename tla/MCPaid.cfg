SPECIFICATION Spec
CONSTANTS
    c1 = c1
    c2 = c2
    c3 = c3
    c4 = c4
    s1 = s1
    s2 = s2
    Provider = {"modal", "cloud_run", "vertex", "klein", "prepared"}
    Call = {c1, c2, c3, c4}
    Scene = {s1, s2}
    Cap = 4
    Ceiling = 2
    Overrun = 1
    MaxSessions = 2
SYMMETRY Symmetric
INVARIANTS
    BilledIsCovered
    ScenePaidOnce
CHECK_DEADLOCK FALSE
