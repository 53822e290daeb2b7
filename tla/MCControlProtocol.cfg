SPECIFICATION Spec
CONSTANTS
    t1 = t1
    t2 = t2
    Strings <- MCStrings
    Upcase <- MCUpcase
    Language <- MCLanguage
    UserRules <- MCRules
    Threads = {t1, t2}
    Paths <- MCPaths
    UShort = 65536
    MaxBulk = 2
SYMMETRY Symmetry
INVARIANTS
    TypeOK
    BuffersRespected
    ExpressionsWhole
PROPERTIES
    QueryIsSnapshot
    BulkHonoured
