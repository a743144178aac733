\* Two bonds, three objects, two interfaces that can be bonded and one under a VLAN.
SPECIFICATION Spec
CONSTANTS
    MaxBond = 1
    Devices = {"en1", "en2", "en3"}
    Capable = {"en1", "en2", "en3"}
    Taken = {"en3"}
    Names = {"uplink"}
    Options = {"options"}
    Modes = {"LACP", "static", "other"}
    Offered <- MCOffered
    Objects = {o1, o2, o3}
    o1 = o1
    o2 = o2
    o3 = o3
    MaxSteps = 7
SYMMETRY MCSymmetry
INVARIANTS
    ExclusiveIfTidy
    InStep
PROPERTIES
    OneValue
    NoServiceTaken
CHECK_DEADLOCK FALSE
