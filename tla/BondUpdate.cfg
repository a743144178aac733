\* Two bonds, three interfaces, two bounded events of any kind.
SPECIFICATION Spec
CONSTANTS
    b0 = b0
    b1 = b1
    e0 = e0
    e1 = e1
    w0 = w0
    Bonds <- MCBonds
    Ifs <- MCIfs
    Capable <- MCCapable
    Lists <- MCLists
    Modes = {"lacp", "static"}
    NoBond = NoBond
    MaxEvents = 2
SYMMETRY MCSymmetry
INVARIANTS
    FailureReported
    CleanSucceeds
    PreferredFirst
    StaysBonded
