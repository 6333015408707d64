CONSTANTS
    Clients = {"c1"}
    Keys <- TwoDeps
    Values = {"v1", "v2"}
    OncePerRun = TRUE
    Faults = {"crash", "disk"}
    MaxSaves = 6
    MaxRuns = 4
SPECIFICATION Spec
CHECK_DEADLOCK FALSE
INVARIANT TypeOK
INVARIANT CrashCost
INVARIANT NoDoubleDep
