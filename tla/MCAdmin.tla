------------------------------ MODULE MCAdmin ------------------------------
(***************************************************************************)
(* A small instance of Admin: two tools, one volume, two rules (an         *)
(* expression may look like the name of a rule type).                      *)
(***************************************************************************)
EXTENDS Admin, TLC

CONSTANTS p1, p2

MCStrings == {"readonly", "Readonly", "monitored", "MONITORED", "*.txt",
              "*.TXT", "a.txt", "A.TXT"}
MCLower == [s \in MCStrings |-> IF s = "Readonly" THEN "readonly" ELSE s]
MCUpcase ==
    [s \in MCStrings |->
        CASE s = "*.txt" -> "*.TXT" [] s = "a.txt" -> "A.TXT"
          [] s = "monitored" -> "MONITORED" [] OTHER -> s]
MCLanguage == [s \in MCStrings |-> IF s = "*.TXT" THEN {"A.TXT"} ELSE {}]

Symmetry == Permutations({p1, p2})
=============================================================================
