\* Any configurations, three changes, failures or crashes. The daemon may wait forever.
SPECIFICATION FairSpec
CONSTANTS
    d1 = d1
    d2 = d2
    s1 = s1
    v1 = v1
    v2 = v2
    Resolvers <- MCResolvers
    Configs <- MCConfigs
    NoConfig = NoConfig
    None = None
    Missing = Missing
    Partial = Partial
    MaxEvents = 3
INVARIANTS
    NothingLost
    Published
    NoGap
PROPERTY Follows
CHECK_DEADLOCK FALSE
