SPECIFICATION FairSpec
CONSTANTS
    p1 = p1
    p2 = p2
    Producers = {p1, p2}
    Sizes = {1, 2, 3}
    BufferSize = 2
    MaxAllocated = 2
    MaxRecords = 4
    None = None
INVARIANTS
    TypeOK
    AllocationExact
    LimitNearlyKept
    RecordsConserved
    UnloadFreesRecords
PROPERTIES
    MonitorStops
