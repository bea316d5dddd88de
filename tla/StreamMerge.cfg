\* One Resume or two, the poll and older pages.
SPECIFICATION FairSpec
CONSTANTS
    None = None
    ScanLimit = 2
    Chunks = 1
    ResumeLimit = 1
    PollLimit = 2
    HistoryLimit = 1
    MaxEvents = 5
    MaxReloads = 2
    MaxFailures = 1
\* nothing is left to do when the log is full and read
CHECK_DEADLOCK FALSE
INVARIANTS
    StreamWhole
PROPERTIES
    NothingErased
    EventuallyPainted
