SPECIFICATION FairSpec
CONSTANTS
    Page <- Pages
    Text <- PageText
    Transcripts <- Heard
    Modes = {"cumulative", "partial"}
    QueueSize = 2
    FirstPage = "p1"
    MaxInputs = 3
    MaxFailures = 1
INVARIANTS
    NeverAhead
    EventsSuffice
PROPERTIES
    NeverBack
    ReachesEarliest
    Converges
CHECK_DEADLOCK FALSE
