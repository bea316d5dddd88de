\* Every log of up to five events, growing while it is paged through; and an AI and a human that write,
\* list and wait; lost calls and restarts; no time-out is assumed.
SPECIFICATION FeedSpec
CONSTANTS
    ai = ai  human = human  k1 = k1
    None = None
    Actors = {ai, human}
    Agents = {ai}
    Keys = {k1}
    Drafts <- FeedDrafts
    ScanLimit = 2
    Chunks = 2
    Limit = 1
    MaxEvents = 2
    MaxFailures = 1
    MaxRows = 5
INVARIANTS
    NothingSkipped
    NoLostWakeup
    PagesAreWhole
PROPERTIES
    ImplementsFeed
    Delivered
