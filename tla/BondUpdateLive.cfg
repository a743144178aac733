\* Liveness: no symmetry, one mode change left out, short lists.
SPECIFICATION FairSpec
CONSTANTS
    b0 = b0
    b1 = b1
    e0 = e0
    e1 = e1
    w0 = w0
    Bonds <- MCBonds
    Ifs <- MCCapable
    Capable <- MCCapable
    Lists <- MCLiveLists
    Modes = {"lacp", "static"}
    NoBond = NoBond
    MaxEvents = 2
PROPERTY Converges
