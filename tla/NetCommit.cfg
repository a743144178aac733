\* A change of the companion preferences that a commit leaves out. The user may stop.
SPECIFICATION Spec
CONSTANTS
    t1 = t1
    t2 = t2
    v1 = v1
    v2 = v2
    SetIds <- MCSets
    ServiceIds <- MCServices
    Files <- MCFiles
    None = None
    Protocols = {"IPv4"}
    MaxCommands = 4
INVARIANT CommitSaves
SYMMETRY MCSymmetry
CHECK_DEADLOCK FALSE
