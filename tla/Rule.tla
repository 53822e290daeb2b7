-------------------------------- MODULE Rule --------------------------------
(***************************************************************************)
(* The data of a FileGuard rule and the pure questions the driver asks of  *)
(* it (Include/FileGuard.h, FileGuardCore/Rule.h and Rule.c).              *)
(*                                                                         *)
(* A path or a path expression is an element of Strings.  Two facts about  *)
(* strings matter to the driver: what upper-casing does to them, and which *)
(* upper-case names an expression stands for.                              *)
(***************************************************************************)
EXTENDS Integers

CONSTANTS
    Strings,    \* path names and path expressions, in every spelling used
    Upcase,     \* RtlUpcaseUnicodeChar applied to a whole string
    Language,   \* the names an expression matches, compared exactly
    UserRules   \* the FG_RULE records a client may put in a message

MajorCodes == 0 .. 3

MinorCodes == 0 .. 2

RuleMajorNone == 0
RuleMajorAccessDenied == 1
RuleMajorReadonly == 2
RuleMajorMaximum == 3

RuleMinorNone == 0
RuleMinorMonitored == 1
RuleMinorMaximum == 2

\* FG_RULE, and FGC_RULE without its reference count.
RuleType == [major : MajorCodes, minor : MinorCodes, expr : Strings]

ASSUME StringsAssumption == Strings # {}

ASSUME UpcaseAssumption ==
    /\ Upcase \in [Strings -> Strings]
    /\ \A s \in Strings : Upcase[Upcase[s]] = Upcase[s]

ASSUME LanguageAssumption == Language \in [Strings -> SUBSET Strings]

ASSUME UserRulesAssumption == UserRules \subseteq RuleType

-----------------------------------------------------------------------------
VALID_RULE_CODE(r) ==
    /\ r.major > RuleMajorNone /\ r.major < RuleMajorMaximum
    /\ r.minor > RuleMinorNone /\ r.minor < RuleMinorMaximum

\* The LONG that overlays the two USHORT halves of FG_RULE_CODE.
CodeValue(r) == r.minor + 65536 * r.major

\* FgcCreateRule keeps the code and upper-cases the expression.
NewRule(user) == [user EXCEPT !.expr = Upcase[@]]

\* Mutant: the expressions are compared without IgnoreCase.
SameRuleCaseSensitive(user, r) ==
    CodeValue(user) = CodeValue(r) /\ user.expr = r.expr

\* The test shared by FgcAddRules and FgcFindAndRemoveRule: equal codes and
\* expressions equal under RtlCompareUnicodeString(.., CaseInSensitive).
SameRule(user, r) ==
    /\ CodeValue(user) = CodeValue(r)
    /\ Upcase[user.expr] = Upcase[r.expr]

\* FsRtlIsNameInExpression(expr, name, IgnoreCase): only the name is
\* upper-cased, the expression is expected to be upper-case already.
NameInExpression(expr, name) == Upcase[name] \in Language[expr]

\* Mutant: the macro as its name suggests, with the comparison's zero taken
\* for equality and the whole of it negated.
ReplacesRuleIntended(old, new) ==
    ~ (CodeValue(old) = CodeValue(new) /\ old.expr = new.expr)

\* `!FgcCompareRule(old, new)` as the preprocessor expands it: the negation
\* binds to old's code value alone, and RtlCompareUnicodeString is true when
\* the strings differ.
ReplacesRule(old, new) ==
    /\ (IF CodeValue(old) = 0 THEN 1 ELSE 0) = CodeValue(new)
    /\ old.expr # new.expr
=============================================================================
