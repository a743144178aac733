\* Eight devices that come and go, one bond.
SPECIFICATION Spec
CONSTANTS
    Alphabet <- MCAlphabet
    Scripts = {}
    Vendors = {"com.vpn"}
    Nodes <- MCNodes
    Virtuals <- MCVirtuals
    PANName <- MCPAN
    Asked <- MCAsked
    Initially <- MCInitially
    Units <- MCUnits
    MaxMigrated = 2
    MaxSteps = 5
INVARIANTS
    FindsAgain
    EntityKept
    CacheStable
    OrderFixed
    RoundTrip
CHECK_DEADLOCK FALSE
