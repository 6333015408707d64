CONSTANTS
    Clients = {c1, c2}
    Keys <- BothKeys
    Values = {"v1", "v2"}
    OncePerRun = FALSE
    Faults = {"crash"}
    MaxSaves = 4
    MaxRuns = 2
    ServerFaults = {"listen", "config", "connect", "proxy", "kill"}
SPECIFICATION ServerFairSpec
INVARIANT ServerTypeOK
INVARIANT NothingLost
INVARIANT CrashCost
INVARIANT ReadyMeansServing
PROPERTY ImplementsFileStore
PROPERTY StopsOnSignal
CHECK_DEADLOCK FALSE
