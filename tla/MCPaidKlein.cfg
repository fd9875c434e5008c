\* Violated: the thread of a cancelled first call leaves the session's ledger
\* entry behind, and every later call of the session is refused for it.
SPECIFICATION Spec
CONSTANTS
    c1 = c1
    c2 = c2
    c3 = c3
    c4 = c4
    s1 = s1
    s2 = s2
    Provider = {"klein"}
    Call = {c1, c2, c3, c4}
    Scene = {s1, s2}
    Cap = 4
    Ceiling = 2
    Overrun = 0
    MaxSessions = 1
INVARIANTS
    SessionGoesOn
CHECK_DEADLOCK FALSE
