\* A second Resume overtakes the poll.
SPECIFICATION Spec
CONSTANTS
    None = None
    ScanLimit = 2
    Chunks = 2
    ResumeLimit = 1
    PollLimit = 2
    HistoryLimit = 1
    MaxEvents = 4
    MaxReloads = 2
    MaxFailures = 0
\* nothing is left to do when the log is full and read
CHECK_DEADLOCK FALSE
INVARIANTS
    NothingPassedOver
