\* Commands at the pace of a user. The prompt may stay empty forever.
SPECIFICATION FairSpec
CONSTANTS
    MaxThreads = 3
    MaxSessions = 3
    Items = {"key", "pattern"}
    Settled = TRUE
    MaxIssued = 7
    MaxFaults = 1
INVARIANTS
    GlobalsRight
    ListReported
PROPERTIES
    Cancels
    Closes
    Watches
CHECK_DEADLOCK FALSE
