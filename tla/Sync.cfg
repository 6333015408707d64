CONSTANTS
    Clients = {c1, c2}
    Idrs = {"d1", "d2"}
    Tabs = {"s1", "s2"}
    Faults = {"crash", "db", "open", "read", "timeout"}
    Dumps = {"old", "new", "bare"}
    File <- ThreeDumps
    Malformed = {"at"}
    MaxSyncs = 3
SYMMETRY Interchangeable
SPECIFICATION Spec
INVARIANT TypeOK
INVARIANT DepsExist
INVARIANT PhonesMatchColumns
INVARIANT HistoryReplays
INVARIANT CounterBounded
INVARIANT CleanSyncArrives
INVARIANT ApartMeansRenamed
PROPERTY NeverBack
