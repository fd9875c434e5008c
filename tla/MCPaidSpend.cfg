\* Violated: a Vertex request that is interrupted, and a Cloud Run answer that
\* comes too late, are billed without being booked.
SPECIFICATION Spec
CONSTANTS
    c1 = c1
    c2 = c2
    c3 = c3
    c4 = c4
    s1 = s1
    s2 = s2
    Provider = {"vertex", "cloud_run"}
    Call = {c1, c2, c3, c4}
    Scene = {s1, s2}
    Cap = 4
    Ceiling = 2
    Overrun = 1
    MaxSessions = 1
INVARIANTS
    SpendWithinCap
CHECK_DEADLOCK FALSE
