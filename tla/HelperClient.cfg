\* Two objects in two threads, one of them without authorization.
SPECIFICATION FairSpec
CONSTANTS
    Objects = {o1, o2}
    Authorized = {o1}
    Layouts <- MCLayouts
    NoOne = NoOne
    MaxServers = 2
    MaxFaults = 1
    MaxEdits = 1
INVARIANTS
    RefsRight
    NoHalfOpen
    ReadsFile
PROPERTIES
    FreshKept
    Ends
