CONSTANTS
    Clients = {"c1"}
    Keys <- TwoSotrs
    Values = {"v1", "v2"}
    OncePerRun = TRUE
    Faults = {}
    MaxSaves = 3
    MaxRuns = 3
SPECIFICATION Spec
CHECK_DEADLOCK FALSE
INVARIANT LastSavedIsLast
