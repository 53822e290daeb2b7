SPECIFICATION HistorySpec
CONSTANTS
    r1 = r1
    r2 = r2
    r3 = r3
    Strings <- MCStrings
    Upcase <- MCUpcase
    Language <- MCLanguage
    UserRules <- MCRules
    Threads = {t1}
    Files = {"a"}
    Destinations = {"b"}
    RuleIds = {r1, r2, r3}
    None = None
    MaxBulk = 2
PROPERTIES
    ImplementsRegistry
    OperationsComplete
