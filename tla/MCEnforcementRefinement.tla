---------------------- MODULE MCEnforcementRefinement ----------------------
(***************************************************************************)
(* A small instance of EnforcementRefinement: an expression in lower case  *)
(* (upper-cased, so that sending it twice must be noticed), a second one   *)
(* that matches the first file only, and a rule the driver skips.          *)
(***************************************************************************)
EXTENDS EnforcementRefinement

CONSTANTS r1, r2, r3

MCStrings == {"a", "b", "*", "*low", "a*"}
MCUpcase == [s \in MCStrings |-> IF s = "*low" THEN "*" ELSE s]
MCLanguage ==
    [s \in MCStrings |->
        CASE s = "*" -> {"a", "b"} [] s = "a*" -> {"a"} [] OTHER -> {}]

MCRules ==
    {[major |-> RuleMajorReadonly, minor |-> RuleMinorMonitored, expr |-> "*low"],
     [major |-> RuleMajorAccessDenied, minor |-> RuleMinorMonitored, expr |-> "a*"],
     [major |-> RuleMajorReadonly, minor |-> RuleMinorNone, expr |-> "*"]}
=============================================================================
