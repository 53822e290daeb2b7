SPECIFICATION Spec
CONSTANTS
    t1 = t1
    t2 = t2
    r1 = r1
    r2 = r2
    r3 = r3
    Strings <- MCStrings
    Upcase <- MCUpcase
    Language <- MCLanguage
    UserRules <- TwoRules
    Threads = {t1, t2}
    Files = {"a"}
    Destinations = {"a"}
    RuleIds = {r1, r2}
    None = None
    MaxBulk = 1
INVARIANTS
    MatchedRuleValid
