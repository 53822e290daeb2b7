--------------------------- MODULE RulesRegistry ---------------------------
(***************************************************************************)
(* What the rules list of FileGuardCore promises to its users: a sequence  *)
(* of rules, the newest first, that each control message changes as a      *)
(* whole, and in which every name that a file operation asks for is looked *)
(* up at one moment between the question and the answer: the answer is the *)
(* newest of the rules then in force that match it, or that none does.     *)
(* There are no locks, no reference counts and no list entries here;       *)
(* Enforcement implements this with them.                                  *)
(***************************************************************************)
EXTENDS Rule, Sequences, SequencesExt

CONSTANTS
    Threads,    \* threads issuing file operations
    Names,      \* the names they may ask for
    Nothing,    \* no name, no rule
    MaxBulk     \* bound: the rules in one message

VARIABLES
    rules,      \* the rules in force, the newest first
    asked,      \* the name each operation waits for an answer about
    matched     \* the rule it was given and has not yet dealt with

vars == <<rules, asked, matched>>

Bulks == UNION {[1 .. n -> UserRules] : n \in 1 .. MaxBulk}

\* t consists of the elements of s at the positions in P, in their order.
Selects(t, s, P) ==
    \E at \in [DOMAIN t -> P] :
        /\ \A i, j \in DOMAIN t : i < j => at[i] < at[j]
        /\ \A p \in P : \E i \in DOMAIN t : at[i] = p
        /\ \A i \in DOMAIN t : t[i] = s[at[i]]

Known(user, s) == \E i \in DOMAIN s : SameRule(user, s[i])

\* The places of a bulk, up to the n-th, that bring a rule of their own: a
\* valid one that is neither in force nor repeats an earlier one.
News(bulk, n) ==
    {i \in 1 .. n :
        /\ VALID_RULE_CODE(bulk[i])
        /\ ~ Known(bulk[i], rules)
        /\ \A j \in 1 .. (i - 1) :
              VALID_RULE_CODE(bulk[j]) => ~ SameRule(bulk[i], NewRule(bulk[j]))}

Init ==
    /\ rules = <<>>
    /\ asked = [t \in Threads |-> Nothing]
    /\ matched = [t \in Threads |-> Nothing]

\* The new rules of a message go in front, the last one first.  When one of
\* them cannot be created, it and those after it are left out.
AddRules(bulk) ==
    /\ \E n \in 0 .. Len(bulk) :
          LET made == [i \in DOMAIN bulk |-> NewRule(bulk[i])]
          IN  \E k \in 0 .. n : \E new \in [1 .. k -> {made[i] : i \in 1 .. n}] :
                 /\ Selects(Reverse(new), made, News(bulk, n))
                 /\ rules' = new \o rules
    /\ UNCHANGED <<asked, matched>>

\* The rules a message names are gone, the others keep their order.
RemoveRules(bulk) ==
    /\ \E k \in 0 .. Len(rules) : \E kept \in [1 .. k -> Range(rules)] :
          /\ Selects(kept, rules,
                     {i \in DOMAIN rules : ~ Known(rules[i], bulk)})
          /\ rules' = kept
    /\ UNCHANGED <<asked, matched>>

CleanupRules ==
    /\ rules' = <<>>
    /\ UNCHANGED <<asked, matched>>

Matches(i, n) == NameInExpression(rules[i].expr, n)

Ask(t, n) ==
    /\ asked[t] = Nothing
    /\ matched[t] = Nothing
    /\ asked' = [asked EXCEPT ![t] = n]
    /\ UNCHANGED <<rules, matched>>

\* The operation is given the newest of the rules in force that match.
Match(t) ==
    /\ asked[t] # Nothing
    /\ matched[t] = Nothing
    /\ \E i \in DOMAIN rules :
          /\ Matches(i, asked[t])
          /\ \A j \in 1 .. (i - 1) : ~ Matches(j, asked[t])
          /\ matched' = [matched EXCEPT ![t] = rules[i]]
    /\ asked' = [asked EXCEPT ![t] = Nothing]
    /\ UNCHANGED rules

\* It is given none only when none of the rules in force matches.
NoMatch(t) ==
    /\ asked[t] # Nothing
    /\ \A i \in DOMAIN rules : ~ Matches(i, asked[t])
    /\ asked' = [asked EXCEPT ![t] = Nothing]
    /\ UNCHANGED <<rules, matched>>

Conclude(t) ==
    /\ matched[t] # Nothing
    /\ matched' = [matched EXCEPT ![t] = Nothing]
    /\ UNCHANGED <<rules, asked>>

Next ==
    \/ \E bulk \in Bulks : AddRules(bulk) \/ RemoveRules(bulk)
    \/ CleanupRules
    \/ \E t \in Threads :
          \/ \E n \in Names : Ask(t, n)
          \/ Match(t) \/ NoMatch(t) \/ Conclude(t)

Spec == Init /\ [][Next]_vars
=============================================================================
