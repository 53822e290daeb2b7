------------------------- MODULE MCControlProtocol -------------------------
(***************************************************************************)
(* A small instance of ControlProtocol.                                    *)
(***************************************************************************)
EXTENDS ControlProtocol, TLC

CONSTANTS t1, t2

String(text, len) == [text |-> text, len |-> len]

MCStrings ==
    {String("a", 5), String("b", 7), String("a*low", 2), String("a*", 2),
     String("long", 40000), String("long", 7232), String("empty", 0),
     String("a*low", 1), String("a*", 1)}

MCUpcase ==
    [s \in MCStrings |-> IF s.text = "a*low" THEN String("a*", s.len) ELSE s]

MCLanguage ==
    [s \in MCStrings |->
        CASE s = String("long", 7232) -> {String("a", 5), String("b", 7)}
          [] s = String("a*", 2) -> {String("a", 5)}
          [] OTHER -> {}]

Readonly(s) ==
    [major |-> RuleMajorReadonly, minor |-> RuleMinorMonitored, expr |-> s]

MCPaths == {String("a", 5), String("b", 7)}

\* An expression in lower case, one of 40000 characters, of which the first
\* 7232 are a string too, an empty one, and a rule with an invalid code.
MCRules ==
    {Readonly(String("a*low", 2)), Readonly(String("long", 40000)),
     Readonly(String("empty", 0)),
     [Readonly(String("a*", 2)) EXCEPT !.minor = RuleMinorNone]}

Symmetry == Permutations({t1, t2})
=============================================================================
