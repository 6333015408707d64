CONSTANTS
    r = r
    d1 = d1
    d2 = d2
    d3 = d3
    d4 = d4
    d5 = d5
    d6 = d6
    s1 = s1
    s2 = s2
    Root = r
    Deps <- SmallDeps
    Sotrs <- SmallSotrs
    Kids <- SmallKids
    N = 1
    TryLimit = 1
    Limit = 0
    OutCap = 1
    Faults = {"deadline", "error", "broken", "element", "empty", "save"}
    AvatarDirReadable = TRUE
SPECIFICATION Spec
INVARIANT TypeOK
INVARIANT TaskInOnePlace
INVARIANT ItemInOnePlace
INVARIANT CountIsExact
INVARIANT RetryBudget
INVARIANT ClosedAfterWorkers
INVARIANT IdleMeansComplete
PROPERTY ImplementsCrawl
