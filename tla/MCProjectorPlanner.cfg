SPECIFICATION Spec
CONSTANTS
    QueueSize = 1
    MaxChanges = 3
    MaxFaults = 1
INVARIANTS
    PlannerFollowed
CHECK_DEADLOCK FALSE
