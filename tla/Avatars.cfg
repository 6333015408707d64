CONSTANTS
    Workers = {w1, w2}
    Keys = {"k"}
    Versions = {"a", "b"}
    Size <- Lengths
    TasksPerRun <- Shared
    Faults = {"crash", "head", "refused", "status", "broken", "change"}
    Inodes = {1, 2, 3, 4, 5, 6, 7, 8}
    MaxRuns = 3
SPECIFICATION Spec
INVARIANT TypeOK
INVARIANT OldFilesStay
INVARIANT PublishedComplete
INVARIANT UpToDate
CHECK_DEADLOCK FALSE
