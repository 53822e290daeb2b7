----------------------- MODULE EnforcementRefinement -----------------------
(***************************************************************************)
(* Enforcement implements RulesRegistry.  A message takes effect when its  *)
(* handler gives up the rules lock: until then the rules in force are the  *)
(* ones the handler found, which a history variable keeps.                 *)
(***************************************************************************)
EXTENDS Enforcement

VARIABLE visible    \* what the list said when no handler had the lock

\* The rules in the list, without their memory.
Contents == [i \in DOMAIN list |-> rule[list[i]]]

HistoryInit == Init /\ visible = <<>>

HistoryNext ==
    /\ Next
    /\ visible' = IF writer'.op = "none" THEN Contents' ELSE visible

HistorySpec == HistoryInit /\ [][HistoryNext]_<<vars, visible>> /\ Fairness

-----------------------------------------------------------------------------
\* The name a thread has FgcMatchRules look for, until the walk is over.
Asked(t) == IF pc[t] = "lookup" THEN name[t] ELSE None

\* The rule a thread was given: by FgcMatchRules, or kept since.
Given(t) ==
    IF found[t] # None THEN rule[found[t]]
    ELSE IF held[t] # None THEN rule[held[t]] ELSE None

Registry == INSTANCE RulesRegistry WITH
                Names <- Files \cup Destinations,
                Nothing <- None,
                rules <- visible,
                asked <- [t \in Threads |-> Asked(t)],
                matched <- [t \in Threads |-> Given(t)]

(* Properties.                                                             *)

\* The list with its lock, its entries, its reference counts and handlers
\* that work through a message rule by rule behaves as the registry: every
\* FgcMatchRules of an open or a rename answers for the rules of one moment
\* between two messages, with the newest that matches, with none only when
\* none does, and a rule it gave does not change in its caller's hands.
ImplementsRegistry == Registry!Spec
=============================================================================
