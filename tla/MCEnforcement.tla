--------------------------- MODULE MCEnforcement ---------------------------
(***************************************************************************)
(* Small instances of Enforcement.  One expression, which is sent in lower *)
(* case, matches both files, another one the first file only.              *)
(***************************************************************************)
EXTENDS Enforcement, TLC

CONSTANTS t1, t2, r1, r2, r3

MCStrings == {"a", "b", "*", "*low", "a*"}
MCUpcase == [s \in MCStrings |-> IF s = "*low" THEN "*" ELSE s]
MCLanguage ==
    [s \in MCStrings |->
        CASE s = "*" -> {"a", "b"} [] s = "a*" -> {"a"} [] OTHER -> {}]

Readonly(e) ==
    [major |-> RuleMajorReadonly, minor |-> RuleMinorMonitored, expr |-> e]
Denied(e) ==
    [major |-> RuleMajorAccessDenied, minor |-> RuleMinorMonitored, expr |-> e]

\* Two read-only rules that match the same file, and an access-denied one.
AllRules == {Readonly("*low"), Readonly("a*"), Denied("a*")}

\* The two read-only rules.
TwoRules == {Readonly("*"), Readonly("a*")}

Symmetry == Permutations({t1, t2}) \cup Permutations({r1, r2, r3})
=============================================================================
