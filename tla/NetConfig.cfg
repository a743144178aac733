\* Two services over one device, two sets.
SPECIFICATION Spec
SYMMETRY MCSymmetry
CONSTANTS
    a = a
    b = b
    en0 = en0
    Sets = {s1, s2}
    Services <- MCServices
    Layers <- MCLayers
    Device <- MCDevice
    Extended = {"EAPOL"}
    Templates <- MCTemplates
    Gone = Gone
    Sources <- MCSources
    Values = {"v"}
    MaxSteps = 4
    MaxFaults = 2
PROPERTIES
    ImplementsStore
    HeldIsDelivered
CHECK_DEADLOCK FALSE
