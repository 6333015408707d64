CONSTANTS
    Calls = {d1, d2}
    Ports = {1, 2}
    Faults <- AllFaults
SPECIFICATION FairSpec
INVARIANT TypeOK
INVARIANT NoOrphan
PROPERTY DialEnds
PROPERTY TunnelEnds
PROPERTY AbandonedEnds
CHECK_DEADLOCK FALSE
