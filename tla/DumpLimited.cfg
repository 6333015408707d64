CONSTANTS
    r = r
    d1 = d1
    d2 = d2
    d3 = d3
    d4 = d4
    d5 = d5
    d6 = d6
    s1 = s1
    s2 = s2
    Root = r
    Deps <- ForkDeps
    Sotrs <- ForkSotrs
    Kids <- ForkKids
    N = 2
    TryLimit = 0
    Limit = 2
    OutCap = 1
    Faults = {}
    AvatarDirReadable = TRUE
SPECIFICATION Spec
INVARIANT OvershootBounded
INVARIANT CountIsExact
