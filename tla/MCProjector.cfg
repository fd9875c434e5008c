SPECIFICATION FairSpec
CONSTANTS
    QueueSize = 1
    MaxChanges = 3
    MaxFaults = 2
INVARIANTS
    ActivatedIsShown
PROPERTIES
    ScreenNeverBack
    Converges
CHECK_DEADLOCK FALSE
