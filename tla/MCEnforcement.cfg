SPECIFICATION Spec
CONSTANTS
    t1 = t1
    t2 = t2
    r1 = r1
    r2 = r2
    r3 = r3
    Strings <- MCStrings
    Upcase <- MCUpcase
    Language <- MCLanguage
    UserRules <- AllRules
    Threads = {t1, t2}
    Files = {"a"}
    Destinations = {"b"}
    RuleIds = {r1, r2, r3}
    None = None
    MaxBulk = 1
SYMMETRY Symmetry
INVARIANTS
    TypeOK
    RefCountExact
    BorrowedRuleLive
    NoDuplicateRules
    ContextPublished
    ContextOnlyReadonly
    RestrictedOperationRefused
    GuardedHasContext
