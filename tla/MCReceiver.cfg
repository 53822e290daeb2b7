SPECIFICATION Spec
CONSTANTS
    Callers = {c1, c2}
    None = None
    Sizes = {2, 3}
    BufferSize = 9
    InitialLength = 1
    UShort = 16
    MaxRecords = 4
    MaxCalls = 1
INVARIANTS
    TypeOK
    EachRecordOnce
PROPERTIES
    ParsingEnds
    StopsWithNextMessage
