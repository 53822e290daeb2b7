SPECIFICATION Spec
CONSTANTS
    p1 = p1
    p2 = p2
    Strings <- MCStrings
    Upcase <- MCUpcase
    Language <- MCLanguage
    Lower <- MCLower
    UserRules = {}
    Tools = {p1, p2}
    None = None
    Majors = {"Readonly"}
    Minors = {"monitored", "*.txt"}
    Exprs = {"*.txt", "monitored"}
    Paths = {"a.txt"}
    Formats = {"list", "xml"}
    Volumes = {"C:"}
SYMMETRY Symmetry
INVARIANT
    RemoveAcceptsNames
