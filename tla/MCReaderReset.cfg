SPECIFICATION ReaderSpec
CONSTANTS
    Page <- Pages
    Text <- PageText
    Transcripts <- Heard
    Modes = {"cumulative", "partial"}
    QueueSize = 2
    FirstPage = "p1"
    MaxInputs = 3
    MaxFailures = 1
PROPERTY
    GenerationNeverFalls
CHECK_DEADLOCK FALSE
