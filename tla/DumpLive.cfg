CONSTANTS
    r = r
    d1 = d1
    d2 = d2
    d3 = d3
    d4 = d4
    d5 = d5
    d6 = d6
    s1 = s1
    s2 = s2
    Root = r
    Deps <- ChainDeps
    Sotrs <- ChainSotrs
    Kids <- ChainKids
    N = 2
    TryLimit = 0
    Limit = 0
    OutCap = 1
    Faults = {"empty", "error"}
    AvatarDirReadable = TRUE
SPECIFICATION FairSpec
INVARIANT IdleMeansComplete
PROPERTY ImplementsCrawl
PROPERTY Finishes
PROPERTY NoTaskStarves
