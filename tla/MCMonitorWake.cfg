SPECIFICATION FairSpec
CONSTANTS
    p1 = p1
    p2 = p2
    Producers = {p1, p2}
    Sizes = {1}
    BufferSize = 2
    MaxAllocated = 2
    MaxRecords = 2
    None = None
PROPERTIES
    QueuedRecordsSent
