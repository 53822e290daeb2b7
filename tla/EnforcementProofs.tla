------------------------- MODULE EnforcementProofs -------------------------
(***************************************************************************)
(* Proofs about Enforcement, for every set of threads, files, rules and    *)
(* allocations.  First the references: locks, counts, memory.  Then, on    *)
(* top of them, what the callbacks let through: the list has no rule twice,*)
(* file contexts refer to read-only rules, a guarded file keeps its        *)
(* context, and an operation that found a rule is refused.                 *)
(***************************************************************************)
EXTENDS Enforcement, TLAPS, FiniteSetTheorems, SequenceTheorems

-----------------------------------------------------------------------------
(* Lists without repetition.                                               *)

Distinct(s) == \A i, j \in 1 .. Len(s) : s[i] = s[j] => i = j

\* In a list without repetition a rule has one entry or none.
LEMMA EntryCount ==
    ASSUME NEW S, NEW s \in Seq(S), Distinct(s), NEW x
    PROVE  Cardinality({i \in DOMAIN s : s[i] = x})
              = IF x \in Range(s) THEN 1 ELSE 0
<1> DEFINE E == {i \in DOMAIN s : s[i] = x}
<1>1. DOMAIN s = 1 .. Len(s)
  OBVIOUS
<1>2. CASE x \in Range(s)
  <2>1. PICK i \in DOMAIN s : s[i] = x
    BY <1>2 DEF Range
  <2>2. E = {i}
    BY <1>1, <2>1 DEF Distinct
  <2>3. Cardinality({i}) = 1
    BY FS_Singleton
  <2> QED
    BY <1>2, <2>2, <2>3
<1>3. CASE x \notin Range(s)
  <2>1. E = {}
    BY <1>3 DEF Range
  <2> QED
    BY <1>3, <2>1, FS_EmptySet
<1> QED
  BY <1>2, <1>3

\* Linking a new entry at the head.
LEMMA PushFront ==
    ASSUME NEW S, NEW s \in Seq(S), Distinct(s), NEW r \in S, r \notin Range(s)
    PROVE  /\ <<r>> \o s \in Seq(S)
           /\ Distinct(<<r>> \o s)
           /\ Range(<<r>> \o s) = {r} \cup Range(s)
<1> DEFINE q == <<r>> \o s
<1>1. DOMAIN s = 1 .. Len(s) /\ Len(s) \in Nat
  OBVIOUS
<1>2. <<r>> \in Seq(S) /\ Len(<<r>>) = 1 /\ <<r>>[1] = r
  OBVIOUS
<1>3. /\ q \in Seq(S) /\ Len(q) = Len(s) + 1
      /\ \A i \in 1 .. Len(s) + 1 : q[i] = IF i <= 1 THEN r ELSE s[i - 1]
  BY <1>1, <1>2, ConcatProperties
<1>4. \A i \in 1 .. Len(s) : s[i] \in Range(s) /\ s[i] # r
  BY <1>1 DEF Range
<1>5. Distinct(q)
  <2> SUFFICES ASSUME NEW i \in 1 .. Len(q), NEW j \in 1 .. Len(q), q[i] = q[j]
               PROVE  i = j
    BY DEF Distinct
  <2>1. i \in Int /\ j \in Int /\ i \in 1 .. Len(s) + 1 /\ j \in 1 .. Len(s) + 1
    BY <1>1, <1>3
  <2>2. CASE i = 1
    <3>1. j # 1 => q[j] = s[j - 1] /\ j - 1 \in 1 .. Len(s)
      BY <1>1, <1>3, <2>1
    <3> QED
      BY <1>3, <1>4, <2>1, <2>2, <3>1
  <2>3. CASE j = 1
    <3>1. i # 1 => q[i] = s[i - 1] /\ i - 1 \in 1 .. Len(s)
      BY <1>1, <1>3, <2>1
    <3> QED
      BY <1>3, <1>4, <2>1, <2>3, <3>1
  <2>4. CASE i # 1 /\ j # 1
    <3>1. /\ q[i] = s[i - 1] /\ i - 1 \in 1 .. Len(s)
          /\ q[j] = s[j - 1] /\ j - 1 \in 1 .. Len(s)
      BY <1>1, <1>3, <2>1, <2>4
    <3>2. i - 1 = j - 1
      BY <3>1 DEF Distinct
    <3> QED
      BY <2>1, <3>2
  <2> QED
    BY <2>2, <2>3, <2>4
<1>6. Range(q) = {r} \cup Range(s)
  <2>1. Range(<<r>>) = {<<r>>[i] : i \in 1 .. 1}
    BY ONLY <1>2, RangeEquality
  <2>2. Range(<<r>>) = {r}
    BY <1>2, <2>1
  <2>3. Range(q) = Range(<<r>>) \cup Range(s)
    BY ONLY <1>2, s \in Seq(S), RangeConcatenation, ZenonT(40)
  <2> QED
    BY <2>2, <2>3
<1> QED
  BY <1>3, <1>5, <1>6

\* Unlinking an entry.
LEMMA RemoveAt ==
    ASSUME NEW S, NEW s \in Seq(S), Distinct(s), NEW i \in DOMAIN s
    PROVE  LET q == SubSeq(s, 1, i - 1) \o SubSeq(s, i + 1, Len(s))
           IN  /\ q \in Seq(S)
               /\ Distinct(q)
               /\ Range(q) = Range(s) \ {s[i]}
<1> DEFINE a == SubSeq(s, 1, i - 1)
           b == SubSeq(s, i + 1, Len(s))
           q == a \o b
<1>1. DOMAIN s = 1 .. Len(s) /\ Len(s) \in Nat /\ i \in 1 .. Len(s) /\ i \in Int
  OBVIOUS
<1>2. /\ a \in Seq(S) /\ Len(a) = i - 1
      /\ \A k \in 1 .. i - 1 : a[k] = s[k]
  BY <1>1, SubSeqProperties
<1>3. /\ b \in Seq(S) /\ Len(b) = Len(s) - i
      /\ \A k \in 1 .. Len(s) - i : b[k] = s[i + k]
  BY <1>1, SubSeqProperties, SMTT(30)
<1>4. /\ q \in Seq(S) /\ Len(q) = Len(s) - 1
      /\ \A k \in 1 .. Len(s) - 1 : q[k] = IF k <= i - 1 THEN a[k] ELSE b[k - (i - 1)]
  <2>1. /\ q \in Seq(S) /\ Len(q) = Len(a) + Len(b)
        /\ \A k \in 1 .. Len(a) + Len(b) : q[k] =
              IF k <= Len(a) THEN a[k] ELSE b[k - Len(a)]
    BY ONLY <1>2, <1>3, ConcatProperties
  <2>2. Len(a) + Len(b) = Len(s) - 1
    BY <1>1, <1>2, <1>3
  <2> HIDE DEF a, b, q
  <2> QED
    BY <1>2, <2>1, <2>2
<1>a. /\ Range(q) = {q[k] : k \in 1 .. Len(q)}
      /\ Range(s) = {s[k] : k \in 1 .. Len(s)}
  <2>1. q \in Seq(S)
    BY <1>4
  <2> HIDE DEF q
  <2> QED
    BY <2>1, RangeEquality
<1> HIDE DEF a, b, q
<1>5. ASSUME NEW k \in 1 .. Len(q)
      PROVE  /\ k < i => q[k] = s[k] /\ k \in 1 .. Len(s)
             /\ ~ (k < i) => q[k] = s[k + 1] /\ k + 1 \in 1 .. Len(s)
  <2>1. k \in Int /\ k \in 1 .. Len(s) - 1
    BY <1>1, <1>4
  <2>2. CASE k < i
    <3>1. k \in 1 .. i - 1 /\ k <= i - 1
      BY <1>1, <2>1, <2>2
    <3> QED
      BY <1>1, <1>2, <1>4, <2>1, <2>2, <3>1
  <2>3. CASE ~ (k < i)
    <3>1. k - (i - 1) \in 1 .. Len(s) - i /\ ~ (k <= i - 1)
      BY <1>1, <2>1, <2>3
    <3>2. q[k] = s[i + (k - (i - 1))]
      BY <1>3, <1>4, <2>1, <3>1
    <3>3. i + (k - (i - 1)) = k + 1
      BY <1>1, <2>1
    <3>4. k + 1 \in 1 .. Len(s)
      BY <1>1, <2>1, <2>3
    <3> QED
      BY <2>3, <3>2, <3>3, <3>4
  <2> QED
    BY <2>2, <2>3
<1>6. Distinct(q)
  <2> SUFFICES ASSUME NEW j \in 1 .. Len(q), NEW k \in 1 .. Len(q), q[j] = q[k]
               PROVE  j = k
    BY DEF Distinct
  <2>1. j \in Int /\ k \in Int
    BY <1>1, <1>4
  <2> DEFINE at(n) == IF n < i THEN n ELSE n + 1
  <2>2. at(j) \in 1 .. Len(s) /\ at(k) \in 1 .. Len(s) /\ s[at(j)] = s[at(k)]
    BY <1>5
  <2>3. at(j) = at(k)
    BY <2>2 DEF Distinct
  <2> QED
    BY <1>1, <2>1, <2>3
<1>7. Range(q) = Range(s) \ {s[i]}
  <2>1. ASSUME NEW x \in Range(q) PROVE x \in Range(s) /\ x # s[i]
    <3>1. PICK k \in 1 .. Len(q) : x = q[k]
      BY <1>a
    <3>2. k \in Int
      BY <1>1, <1>4
    <3>3. CASE k < i
      BY <1>1, <1>5, <1>a, <3>1, <3>2, <3>3 DEF Distinct
    <3>4. CASE ~ (k < i)
      <4>1. q[k] = s[k + 1] /\ k + 1 \in 1 .. Len(s) /\ k + 1 # i
        BY <1>1, <1>5, <3>1, <3>2, <3>4
      <4> QED
        BY <1>1, <1>a, <3>1, <4>1 DEF Distinct
    <3> QED
      BY <3>3, <3>4
  <2>2. ASSUME NEW x \in Range(s), x # s[i] PROVE x \in Range(q)
    <3>1. PICK k \in 1 .. Len(s) : x = s[k]
      BY <1>a
    <3>2. k \in Int /\ k # i
      BY <1>1, <2>2, <3>1
    <3>3. CASE k < i
      <4>1. k \in 1 .. Len(q) /\ q[k] = x
        BY <1>1, <1>4, <1>5, <3>1, <3>2, <3>3
      <4> QED
        BY <1>a, <4>1
    <3>4. CASE k > i
      <4>1. k - 1 \in 1 .. Len(q) /\ ~ (k - 1 < i) /\ (k - 1) + 1 = k
        BY <1>1, <1>4, <3>1, <3>2, <3>4
      <4>2. q[k - 1] = x
        BY <1>5, <3>1, <4>1
      <4> QED
        BY <1>a, <4>1, <4>2
    <3> QED
      BY <1>1, <3>2, <3>3, <3>4
  <2> QED
    BY <2>1, <2>2
<1> QED
  BY <1>4, <1>6, <1>7 DEF a, b, q

-----------------------------------------------------------------------------
(* The inductive invariant behind the reference counts.                    *)

\* Where a callback has a reference to a rule, and where it is filling in a
\* file context.
HoldingAt == {"decide", "filesystem", "setctx", "fillname", "fillrule",
              "finish", "renamed"}
FillingAt == {"fillname", "fillrule"}

\* How a thread's location goes with its operation and its pointers.
ThreadShape ==
    \A t \in Threads :
        /\ held[t] # None <=> pc[t] \in HoldingAt
        /\ pc[t] \in HoldingAt \ {"renamed"} => op[t] = "create"
        /\ pc[t] = "idle" => op[t] = "none"
        /\ pc[t] # "idle" => file[t] \in Files
        /\ pc[t] \in {"rename", "renamed"} => op[t] = "rename"
        /\ pc[t] \in {"lookup", "reference"} => op[t] \in {"create", "rename"}
        /\ borrowed[t] # None => op[t] \notin {"none", "create"}

\* A context is filled in by the one thread that set it.
FillingAlone ==
    /\ \A t \in Threads : pc[t] \in FillingAt =>
          /\ ctxSet[file[t]] /\ ctxRule[file[t]] = None
          /\ pc[t] = "fillrule" => ctxName[file[t]]
    /\ \A t, u \in Threads :
          pc[t] \in FillingAt /\ pc[u] \in FillingAt /\ file[t] = file[u] => t = u

\* Only a context that is set, with its name, has a rule.
RuleInSetContext == \A f \in Files : ctxRule[f] # None => ctxSet[f] /\ ctxName[f]

\* The context still has the rule that a callback read from it.
BorrowedFromContext ==
    \A t \in Threads : borrowed[t] # None => ctxRule[file[t]] = borrowed[t]

\* Rules are checked before they are created.
AllocatedValid == \A r \in RuleIds : refs[r] # 0 => VALID_RULE_CODE(rule[r])

\* RefCountExact with what it rests on.
RefInv ==
    /\ TypeOK
    /\ RefCountExact
    /\ Distinct(list)
    /\ ThreadShape
    /\ FillingAlone
    /\ RuleInSetContext
    /\ BorrowedFromContext
    /\ AllocatedValid

-----------------------------------------------------------------------------
(* What the counts say.                                                    *)

\* The three counts are natural numbers.
LEMMA CountsNat ==
    ASSUME TypeOK, NEW r
    PROVE  /\ IsFiniteSet(EntriesOf(r)) /\ Cardinality(EntriesOf(r)) \in Nat
           /\ IsFiniteSet(HoldersOf(r)) /\ Cardinality(HoldersOf(r)) \in Nat
           /\ IsFiniteSet(ContextsOf(r)) /\ Cardinality(ContextsOf(r)) \in Nat
<1>1. DOMAIN list = 1 .. Len(list) /\ Len(list) \in Nat
  BY DEF TypeOK
<1>2. IsFiniteSet(1 .. Len(list))
  BY <1>1, FS_Interval
<1>3. IsFiniteSet(EntriesOf(r))
  BY <1>1, <1>2, FS_Subset DEF EntriesOf
<1>4. IsFiniteSet(HoldersOf(r))
  BY ThreadsAssumption, FS_Subset DEF HoldersOf
<1>5. IsFiniteSet(ContextsOf(r))
  BY FilesAssumption, FS_Subset DEF ContextsOf
<1> QED
  BY <1>3, <1>4, <1>5, FS_CardinalityType

\* What is pointed to is allocated.
LEMMA PointedToLive ==
    ASSUME TypeOK, RefCountExact, NEW r \in RuleIds,
           \/ r \in Range(list)
           \/ \E t \in Threads : held[t] = r
           \/ \E f \in Files : ctxRule[f] = r
    PROVE  refs[r] \in Nat /\ refs[r] >= 1
<1>1. \/ EntriesOf(r) # {} \/ HoldersOf(r) # {} \/ ContextsOf(r) # {}
  BY DEF EntriesOf, HoldersOf, ContextsOf, Range
<1>2. \/ Cardinality(EntriesOf(r)) # 0
      \/ Cardinality(HoldersOf(r)) # 0
      \/ Cardinality(ContextsOf(r)) # 0
  BY <1>1, CountsNat, FS_EmptySet
<1>3. refs[r] = Cardinality(EntriesOf(r)) + Cardinality(HoldersOf(r))
                   + Cardinality(ContextsOf(r))
  BY DEF RefCountExact
<1> QED
  BY <1>2, <1>3, CountsNat

\* What is not allocated is pointed to by nobody.
LEMMA FreePointedToByNone ==
    ASSUME TypeOK, RefCountExact, NEW r \in RuleIds, refs[r] = 0
    PROVE  /\ r \notin Range(list)
           /\ \A t \in Threads : held[t] # r
           /\ \A f \in Files : ctxRule[f] # r
BY PointedToLive

\* A valid code is not zero, so the negation in `!FgcCompareRule` never holds
\* and the rule of a context is never exchanged.
LEMMA NeverReplaces ==
    ASSUME NEW a \in RuleType, NEW b \in RuleType,
           VALID_RULE_CODE(a), VALID_RULE_CODE(b)
    PROVE  ~ ReplacesRule(a, b)
<1>1. /\ a.major \in 0 .. 3 /\ a.minor \in 0 .. 2
      /\ b.major \in 0 .. 3 /\ b.minor \in 0 .. 2
  BY DEF RuleType, MajorCodes, MinorCodes
<1>2. a.major > 0 /\ b.major > 0
  BY DEF VALID_RULE_CODE, RuleMajorNone
<1>3. CodeValue(a) # 0 /\ CodeValue(b) # 0
  BY <1>1, <1>2 DEF CodeValue
<1> QED
  BY <1>3 DEF ReplacesRule

\* So an open that lost the race always just releases its rule.
LEMMA AlreadyDefinedFinishes ==
    ASSUME TypeOK, RefCountExact, ThreadShape, AllocatedValid,
           NEW t \in Threads, FileContextAlreadyDefined(t)
    PROVE  Finish(t, "error") /\ UNCHANGED ctxRule
<1>1. pc[t] = "setctx" /\ ctxRule[file[t]] # None
  BY DEF FileContextAlreadyDefined
<1>2. held[t] \in RuleIds /\ file[t] \in Files
  BY <1>1 DEF ThreadShape, HoldingAt, TypeOK, Pointer
<1>3. ctxRule[file[t]] \in RuleIds
  BY <1>1, <1>2 DEF TypeOK, Pointer
<1>4. refs[held[t]] # 0 /\ refs[ctxRule[file[t]]] # 0
  BY <1>2, <1>3, PointedToLive
<1>5. /\ VALID_RULE_CODE(rule[held[t]]) /\ VALID_RULE_CODE(rule[ctxRule[file[t]]])
      /\ rule[held[t]] \in RuleType /\ rule[ctxRule[file[t]]] \in RuleType
  BY <1>2, <1>3, <1>4 DEF AllocatedValid, TypeOK
<1>6. ~ ReplacesRule(rule[ctxRule[file[t]]], rule[held[t]])
  BY <1>5, NeverReplaces
<1> QED
  BY <1>6 DEF FileContextAlreadyDefined

-----------------------------------------------------------------------------
(* The count under each way of changing it.                                *)

\* A callback releases the rule it holds.
LEMMA ReleaseHeld ==
    ASSUME TypeOK, RefCountExact, NEW t \in Threads, held[t] # None,
           ReleaseRule(held[t]), held' = [held EXCEPT ![t] = None],
           UNCHANGED <<list, ctxRule>>
    PROVE  refs' \in [RuleIds -> Nat] /\ RefCountExact'
<1>1. held[t] \in RuleIds /\ held \in [Threads -> Pointer] /\ refs \in [RuleIds -> Nat]
  BY DEF TypeOK, Pointer
<1>2. refs[held[t]] >= 1
  BY <1>1, PointedToLive
<1>3. refs' = [refs EXCEPT ![held[t]] = @ - 1]
  BY DEF ReleaseRule
<1>4. refs' \in [RuleIds -> Nat]
  BY <1>1, <1>2, <1>3
<1>5. held' \in [Threads -> Pointer]
  BY <1>1 DEF Pointer
<1>6. ASSUME NEW r \in RuleIds
      PROVE  refs'[r] = Cardinality(EntriesOf(r)') + Cardinality(HoldersOf(r)')
                           + Cardinality(ContextsOf(r)')
  <2>1. EntriesOf(r)' = EntriesOf(r) /\ ContextsOf(r)' = ContextsOf(r)
    BY DEF EntriesOf, ContextsOf
  <2>2. r # None
    BY NoneAssumption
  <2>3. Cardinality(HoldersOf(r)') = Cardinality(HoldersOf(r))
                                        - (IF held[t] = r THEN 1 ELSE 0)
    <3>1. CASE held[t] = r
      <4>1. HoldersOf(r)' = HoldersOf(r) \ {t} /\ t \in HoldersOf(r)
        BY <1>1, <1>5, <2>2, <3>1 DEF HoldersOf
      <4>2. Cardinality(HoldersOf(r) \ {t}) = Cardinality(HoldersOf(r)) - 1
        BY <4>1, CountsNat, FS_RemoveElement
      <4> QED
        BY <3>1, <4>1, <4>2, CountsNat
    <3>2. CASE ~ (held[t] = r)
      <4>1. HoldersOf(r)' = HoldersOf(r)
        BY <1>1, <1>5, <2>2, <3>2 DEF HoldersOf
      <4> QED
        BY <3>2, <4>1, CountsNat
    <3> QED
      BY <3>1, <3>2
  <2>4. refs[r] = Cardinality(EntriesOf(r)) + Cardinality(HoldersOf(r))
                     + Cardinality(ContextsOf(r))
    BY DEF RefCountExact
  <2>5. refs'[r] = refs[r] - (IF held[t] = r THEN 1 ELSE 0)
    BY <1>1, <1>3
  <2> QED
    BY <2>1, <2>3, <2>4, <2>5, CountsNat
<1> QED
  BY <1>4, <1>6 DEF RefCountExact

\* A callback takes a reference to the rule it matched.
LEMMA ReferenceHeld ==
    ASSUME TypeOK, RefCountExact, NEW t \in Threads, held[t] = None,
           NEW q \in RuleIds,
           ReferenceRule(q), held' = [held EXCEPT ![t] = q],
           UNCHANGED <<list, ctxRule>>
    PROVE  refs' \in [RuleIds -> Nat] /\ RefCountExact'
<1>1. held \in [Threads -> Pointer] /\ refs \in [RuleIds -> Nat]
  BY DEF TypeOK
<1>2. refs' = [refs EXCEPT ![q] = @ + 1]
  BY DEF ReferenceRule
<1>3. refs' \in [RuleIds -> Nat]
  BY <1>1, <1>2
<1>4. held' \in [Threads -> Pointer]
  BY <1>1 DEF Pointer
<1>5. ASSUME NEW r \in RuleIds
      PROVE  refs'[r] = Cardinality(EntriesOf(r)') + Cardinality(HoldersOf(r)')
                           + Cardinality(ContextsOf(r)')
  <2>1. EntriesOf(r)' = EntriesOf(r) /\ ContextsOf(r)' = ContextsOf(r)
    BY DEF EntriesOf, ContextsOf
  <2>2. r # None
    BY NoneAssumption
  <2>3. Cardinality(HoldersOf(r)') = Cardinality(HoldersOf(r))
                                        + (IF q = r THEN 1 ELSE 0)
    <3>1. CASE q = r
      <4>1. HoldersOf(r)' = HoldersOf(r) \cup {t} /\ t \notin HoldersOf(r)
        BY <1>1, <1>4, <2>2, <3>1 DEF HoldersOf
      <4>2. Cardinality(HoldersOf(r) \cup {t}) = Cardinality(HoldersOf(r)) + 1
        BY <4>1, CountsNat, FS_AddElement
      <4> QED
        BY <3>1, <4>1, <4>2, CountsNat
    <3>2. CASE ~ (q = r)
      <4>1. HoldersOf(r)' = HoldersOf(r)
        BY <1>1, <1>4, <2>2, <3>2 DEF HoldersOf
      <4> QED
        BY <3>2, <4>1, CountsNat
    <3> QED
      BY <3>1, <3>2
  <2>4. refs[r] = Cardinality(EntriesOf(r)) + Cardinality(HoldersOf(r))
                     + Cardinality(ContextsOf(r))
    BY DEF RefCountExact
  <2>5. refs'[r] = refs[r] + (IF q = r THEN 1 ELSE 0)
    BY <1>1, <1>2
  <2> QED
    BY <2>1, <2>3, <2>4, <2>5, CountsNat
<1> QED
  BY <1>3, <1>5 DEF RefCountExact

\* A file context without a rule takes a reference to one.
LEMMA ReferenceContext ==
    ASSUME TypeOK, RefCountExact, NEW f \in Files, ctxRule[f] = None,
           NEW q \in RuleIds,
           ReferenceRule(q), ctxRule' = [ctxRule EXCEPT ![f] = q],
           UNCHANGED <<list, held>>
    PROVE  refs' \in [RuleIds -> Nat] /\ RefCountExact'
<1>1. ctxRule \in [Files -> Pointer] /\ refs \in [RuleIds -> Nat]
  BY DEF TypeOK
<1>2. refs' = [refs EXCEPT ![q] = @ + 1]
  BY DEF ReferenceRule
<1>3. refs' \in [RuleIds -> Nat]
  BY <1>1, <1>2
<1>4. ctxRule' \in [Files -> Pointer]
  BY <1>1 DEF Pointer
<1>5. ASSUME NEW r \in RuleIds
      PROVE  refs'[r] = Cardinality(EntriesOf(r)') + Cardinality(HoldersOf(r)')
                           + Cardinality(ContextsOf(r)')
  <2>1. EntriesOf(r)' = EntriesOf(r) /\ HoldersOf(r)' = HoldersOf(r)
    BY DEF EntriesOf, HoldersOf
  <2>2. r # None
    BY NoneAssumption
  <2>3. Cardinality(ContextsOf(r)') = Cardinality(ContextsOf(r))
                                         + (IF q = r THEN 1 ELSE 0)
    <3>1. CASE q = r
      <4>1. ContextsOf(r)' = ContextsOf(r) \cup {f} /\ f \notin ContextsOf(r)
        BY <1>1, <1>4, <2>2, <3>1 DEF ContextsOf
      <4>2. Cardinality(ContextsOf(r) \cup {f}) = Cardinality(ContextsOf(r)) + 1
        BY <4>1, CountsNat, FS_AddElement
      <4> QED
        BY <3>1, <4>1, <4>2, CountsNat
    <3>2. CASE ~ (q = r)
      <4>1. ContextsOf(r)' = ContextsOf(r)
        BY <1>1, <1>4, <2>2, <3>2 DEF ContextsOf
      <4> QED
        BY <3>2, <4>1, CountsNat
    <3> QED
      BY <3>1, <3>2
  <2>4. refs[r] = Cardinality(EntriesOf(r)) + Cardinality(HoldersOf(r))
                     + Cardinality(ContextsOf(r))
    BY DEF RefCountExact
  <2>5. refs'[r] = refs[r] + (IF q = r THEN 1 ELSE 0)
    BY <1>1, <1>2
  <2> QED
    BY <2>1, <2>3, <2>4, <2>5, CountsNat
<1> QED
  BY <1>3, <1>5 DEF RefCountExact

\* A file context is torn down.
LEMMA ReleaseContext ==
    ASSUME TypeOK, RefCountExact, NEW f \in Files,
           ctxRule' = [ctxRule EXCEPT ![f] = None],
           IF ctxRule[f] # None THEN ReleaseRule(ctxRule[f]) ELSE UNCHANGED refs,
           UNCHANGED <<list, held>>
    PROVE  refs' \in [RuleIds -> Nat] /\ RefCountExact'
<1>1. ctxRule \in [Files -> Pointer] /\ refs \in [RuleIds -> Nat]
  BY DEF TypeOK
<1>2. CASE ctxRule[f] = None
  <2>1. refs' = refs /\ ctxRule' = ctxRule
    BY <1>1, <1>2
  <2> QED
    BY <1>1, <2>1 DEF RefCountExact, EntriesOf, HoldersOf, ContextsOf
<1>3. CASE ctxRule[f] # None
  <2>1. ctxRule[f] \in RuleIds
    BY <1>1, <1>3 DEF Pointer
  <2>2. refs[ctxRule[f]] >= 1
    BY <2>1, PointedToLive
  <2>3. refs' = [refs EXCEPT ![ctxRule[f]] = @ - 1]
    BY <1>3 DEF ReleaseRule
  <2>4. refs' \in [RuleIds -> Nat]
    BY <1>1, <2>1, <2>2, <2>3
  <2>5. ctxRule' \in [Files -> Pointer]
    BY <1>1 DEF Pointer
  <2>6. ASSUME NEW r \in RuleIds
        PROVE  refs'[r] = Cardinality(EntriesOf(r)') + Cardinality(HoldersOf(r)')
                             + Cardinality(ContextsOf(r)')
    <3>1. EntriesOf(r)' = EntriesOf(r) /\ HoldersOf(r)' = HoldersOf(r)
      BY DEF EntriesOf, HoldersOf
    <3>2. r # None
      BY NoneAssumption
    <3>3. Cardinality(ContextsOf(r)') = Cardinality(ContextsOf(r))
                                           - (IF ctxRule[f] = r THEN 1 ELSE 0)
      <4>1. CASE ctxRule[f] = r
        <5>1. ContextsOf(r)' = ContextsOf(r) \ {f} /\ f \in ContextsOf(r)
          BY <1>1, <2>5, <3>2, <4>1 DEF ContextsOf
        <5>2. Cardinality(ContextsOf(r) \ {f}) = Cardinality(ContextsOf(r)) - 1
          BY <5>1, CountsNat, FS_RemoveElement
        <5> QED
          BY <4>1, <5>1, <5>2, CountsNat
      <4>2. CASE ~ (ctxRule[f] = r)
        <5>1. ContextsOf(r)' = ContextsOf(r)
          BY <1>1, <2>5, <3>2, <4>2 DEF ContextsOf
        <5> QED
          BY <4>2, <5>1, CountsNat
      <4> QED
        BY <4>1, <4>2
    <3>4. refs[r] = Cardinality(EntriesOf(r)) + Cardinality(HoldersOf(r))
                       + Cardinality(ContextsOf(r))
      BY DEF RefCountExact
    <3>5. refs'[r] = refs[r] - (IF ctxRule[f] = r THEN 1 ELSE 0)
      BY <1>1, <2>3
    <3> QED
      BY <3>1, <3>3, <3>4, <3>5, CountsNat
  <2> QED
    BY <2>4, <2>6 DEF RefCountExact
<1> QED
  BY <1>2, <1>3

\* A new rule gets its entry and the reference that goes with it.
LEMMA LinkEntry ==
    ASSUME TypeOK, RefCountExact, Distinct(list), NEW q \in RuleIds, refs[q] = 0,
           refs' = [refs EXCEPT ![q] = 1], list' = <<q>> \o list,
           UNCHANGED <<held, ctxRule>>
    PROVE  /\ refs' \in [RuleIds -> Nat] /\ RefCountExact'
           /\ list' \in Seq(RuleIds) /\ Distinct(list)'
           /\ Range(list') = {q} \cup Range(list)
<1>1. list \in Seq(RuleIds) /\ refs \in [RuleIds -> Nat]
  BY DEF TypeOK
<1>2. q \notin Range(list)
  BY FreePointedToByNone
<1>3. list' \in Seq(RuleIds) /\ Distinct(list') /\ Range(list') = {q} \cup Range(list)
  BY <1>1, <1>2, PushFront
<1>4. ASSUME NEW r \in RuleIds
      PROVE  refs'[r] = Cardinality(EntriesOf(r)') + Cardinality(HoldersOf(r)')
                           + Cardinality(ContextsOf(r)')
  <2>1. HoldersOf(r)' = HoldersOf(r) /\ ContextsOf(r)' = ContextsOf(r)
    BY DEF HoldersOf, ContextsOf
  <2>2. Cardinality(EntriesOf(r)) = IF r \in Range(list) THEN 1 ELSE 0
    BY <1>1, EntryCount DEF EntriesOf
  <2>3. Cardinality(EntriesOf(r)') = IF r \in Range(list') THEN 1 ELSE 0
    BY ONLY <1>3, EntryCount DEF EntriesOf
  <2>4. refs[r] = Cardinality(EntriesOf(r)) + Cardinality(HoldersOf(r))
                     + Cardinality(ContextsOf(r))
    BY DEF RefCountExact
  <2>5. refs'[r] = IF r = q THEN 1 ELSE refs[r]
    BY <1>1
  <2>6. r = q => refs[r] = 0
    OBVIOUS
  <2> QED
    BY <1>2, <1>3, <2>1, <2>2, <2>3, <2>4, <2>5, <2>6, CountsNat
<1> QED
  BY <1>1, <1>3, <1>4 DEF RefCountExact, Distinct

\* An entry is unlinked and its reference released.
LEMMA UnlinkEntry ==
    ASSUME TypeOK, RefCountExact, Distinct(list), NEW i \in DOMAIN list,
           RemoveEntry(i), UNCHANGED <<held, ctxRule>>
    PROVE  /\ refs' \in [RuleIds -> Nat] /\ RefCountExact'
           /\ list' \in Seq(RuleIds) /\ Distinct(list)'
           /\ Range(list') = Range(list) \ {list[i]}
<1>1. list \in Seq(RuleIds) /\ refs \in [RuleIds -> Nat]
  BY DEF TypeOK
<1>2. list[i] \in RuleIds /\ list[i] \in Range(list)
  BY <1>1 DEF Range
<1>3. refs[list[i]] >= 1
  BY <1>2, PointedToLive
<1>4. refs' = [refs EXCEPT ![list[i]] = @ - 1]
  BY DEF RemoveEntry, ReleaseRule
<1>5. refs' \in [RuleIds -> Nat]
  BY <1>1, <1>2, <1>3, <1>4
<1>6. /\ list' \in Seq(RuleIds) /\ Distinct(list')
      /\ Range(list') = Range(list) \ {list[i]}
  BY <1>1, RemoveAt DEF RemoveEntry
<1>7. ASSUME NEW r \in RuleIds
      PROVE  refs'[r] = Cardinality(EntriesOf(r)') + Cardinality(HoldersOf(r)')
                           + Cardinality(ContextsOf(r)')
  <2>1. HoldersOf(r)' = HoldersOf(r) /\ ContextsOf(r)' = ContextsOf(r)
    BY DEF HoldersOf, ContextsOf
  <2>2. Cardinality(EntriesOf(r)) = IF r \in Range(list) THEN 1 ELSE 0
    BY <1>1, EntryCount DEF EntriesOf
  <2>3. Cardinality(EntriesOf(r)') = IF r \in Range(list') THEN 1 ELSE 0
    BY <1>6, EntryCount DEF EntriesOf
  <2>4. refs[r] = Cardinality(EntriesOf(r)) + Cardinality(HoldersOf(r))
                     + Cardinality(ContextsOf(r))
    BY DEF RefCountExact
  <2>5. refs'[r] = refs[r] - (IF r = list[i] THEN 1 ELSE 0)
    BY <1>1, <1>4
  <2> QED
    BY <1>2, <1>6, <2>1, <2>2, <2>3, <2>4, <2>5, CountsNat
<1> QED
  BY <1>5, <1>6, <1>7 DEF RefCountExact, Distinct
-----------------------------------------------------------------------------
(* What steps preserve that do not touch it.                               *)

\* No context changes, and no thread comes to fill in another one.
LEMMA ContextsKept ==
    ASSUME FillingAlone, RuleInSetContext,
           UNCHANGED <<ctxSet, ctxName, ctxRule>>,
           \A u \in Threads : pc'[u] \in FillingAt
                                 => pc'[u] = pc[u] /\ file'[u] = file[u]
    PROVE  FillingAlone' /\ RuleInSetContext'
<1>1. RuleInSetContext'
  BY DEF RuleInSetContext
<1>2. \A u \in Threads : pc'[u] \in FillingAt =>
          /\ ctxSet'[file'[u]] /\ ctxRule'[file'[u]] = None
          /\ pc'[u] = "fillrule" => ctxName'[file'[u]]
  BY DEF FillingAlone
<1>3. \A u, v \in Threads :
          pc'[u] \in FillingAt /\ pc'[v] \in FillingAt /\ file'[u] = file'[v] => u = v
  BY DEF FillingAlone
<1> QED
  BY <1>1, <1>2, <1>3 DEF FillingAlone, FillingAt

\* The rules of the contexts stay, and nobody borrows another one.
LEMMA BorrowedKept ==
    ASSUME BorrowedFromContext, UNCHANGED ctxRule,
           \A u \in Threads : borrowed'[u] # None
                                 => borrowed'[u] = borrowed[u] /\ file'[u] = file[u]
    PROVE  BorrowedFromContext'
BY DEF BorrowedFromContext

\* No rule changes and none is newly allocated.
LEMMA ValidKept ==
    ASSUME AllocatedValid, UNCHANGED rule,
           \A r \in RuleIds : refs'[r] # 0 => refs[r] # 0
    PROVE  AllocatedValid'
BY DEF AllocatedValid

\* The counts, when nothing that counts changes.
LEMMA CountKept ==
    ASSUME RefCountExact, Distinct(list), UNCHANGED <<list, refs, held, ctxRule>>
    PROVE  RefCountExact' /\ Distinct(list)'
BY DEF RefCountExact, EntriesOf, HoldersOf, ContextsOf, Distinct

-----------------------------------------------------------------------------
(* The steps of the message handlers.                                      *)

\* Steps of a handler that change neither the list nor a rule.
LEMMA WriterIdleStep ==
    ASSUME RefInv,
           \/ BeginAddRules \/ BeginRemoveRules \/ BeginCleanup
           \/ SkipRule \/ CreateRuleFails \/ NothingToRemove \/ ReleaseExclusive
    PROVE  RefInv'
<1>1. UNCHANGED <<list, rule, refs, threadVars, ctxVars, fault>>
  BY DEF BeginAddRules, BeginRemoveRules, BeginCleanup, AcquireExclusive,
     SkipRule, CreateRuleFails, NothingToRemove, ReleaseExclusive
<1>2. writer' \in [op : Messages, todo : Seq(UserRules)]
  <2>1. writer \in [op : Messages, todo : Seq(UserRules)]
    BY DEF RefInv, TypeOK
  <2>2. CASE BeginAddRules \/ BeginRemoveRules
    <3>1. PICK bulk \in Bulks : \/ writer' = [op |-> "add", todo |-> bulk]
                                \/ writer' = [op |-> "remove", todo |-> bulk]
      BY <2>2 DEF BeginAddRules, BeginRemoveRules, AcquireExclusive
    <3>2. bulk \in Seq(UserRules)
      <4>1. PICK n \in 1 .. MaxBulk : bulk \in [1 .. n -> UserRules]
        BY DEF Bulks
      <4>2. n \in Nat
        BY MaxBulkAssumption
      <4> QED
        BY <4>1, <4>2
    <3> QED
      BY <3>1, <3>2 DEF Messages
  <2>3. CASE BeginCleanup
    BY <2>3 DEF BeginCleanup, AcquireExclusive, Messages
  <2>4. CASE SkipRule \/ NothingToRemove
    <3>1. writer.todo \in Seq(UserRules) /\ writer.todo # <<>>
      BY <2>1, <2>4 DEF SkipRule, NothingToRemove
    <3>2. Tail(writer.todo) \in Seq(UserRules)
      BY <3>1
    <3> QED
      BY <2>1, <2>4, <3>2 DEF SkipRule, NothingToRemove
  <2>5. CASE CreateRuleFails
    BY <2>1, <2>5, <<>> \in Seq(UserRules) DEF CreateRuleFails
  <2>6. CASE ReleaseExclusive
    BY <2>1, <2>6 DEF ReleaseExclusive, Messages
  <2> QED
    BY <2>2, <2>3, <2>4, <2>5, <2>6
<1>3. TypeOK'
  BY <1>1, <1>2 DEF RefInv, TypeOK, threadVars, ctxVars
<1>4. RefCountExact' /\ Distinct(list)'
  BY <1>1, CountKept DEF RefInv, threadVars, ctxVars
<1>5. ThreadShape' /\ BorrowedFromContext' /\ AllocatedValid'
  BY <1>1 DEF RefInv, ThreadShape, BorrowedFromContext, AllocatedValid,
     threadVars, ctxVars
<1>6. FillingAlone' /\ RuleInSetContext'
  BY <1>1, ContextsKept DEF RefInv, threadVars, ctxVars
<1> QED
  BY <1>3, <1>4, <1>5, <1>6 DEF RefInv

\* The rule that AddRules creates was not allocated, so nobody points to it.
LEMMA AddRuleStep ==
    ASSUME RefInv, AddRule
    PROVE  RefInv'
<1>1. PICK q \in RuleIds : Fresh(q) /\ CreateRule(q) /\ list' = <<q>> \o list
  BY DEF AddRule
<1>2. UNCHANGED <<threadVars, ctxVars, fault>>
  BY DEF AddRule
<1>3. /\ refs[q] = 0 /\ refs' = [refs EXCEPT ![q] = 1]
      /\ rule' = [rule EXCEPT ![q] = NewRule(Head(writer.todo))]
  BY <1>1 DEF Fresh, CreateRule
<1>4. TypeOK /\ RefCountExact /\ Distinct(list)
  BY DEF RefInv
<1>5. /\ refs' \in [RuleIds -> Nat] /\ RefCountExact'
      /\ list' \in Seq(RuleIds) /\ Distinct(list)'
  BY <1>1, <1>2, <1>3, <1>4, LinkEntry DEF threadVars, ctxVars
<1>6. /\ writer.todo \in Seq(UserRules) /\ writer.todo # <<>>
      /\ VALID_RULE_CODE(Head(writer.todo))
      /\ writer' = [writer EXCEPT !.todo = Tail(@)]
  BY <1>4 DEF AddRule, TypeOK
<1>7. Head(writer.todo) \in RuleType /\ Tail(writer.todo) \in Seq(UserRules)
  BY <1>6, UserRulesAssumption
<1>8. /\ NewRule(Head(writer.todo)) \in RuleType
      /\ VALID_RULE_CODE(NewRule(Head(writer.todo)))
  BY <1>6, <1>7, UpcaseAssumption DEF NewRule, RuleType, VALID_RULE_CODE
<1>9. TypeOK'
  <2>1. writer' \in [op : Messages, todo : Seq(UserRules)]
    BY <1>4, <1>6, <1>7 DEF TypeOK
  <2>2. rule' \in [RuleIds -> RuleType]
    BY <1>3, <1>4, <1>8 DEF TypeOK
  <2> QED
    BY <1>2, <1>4, <1>5, <2>1, <2>2 DEF TypeOK, threadVars, ctxVars
<1>10. AllocatedValid'
  <2> SUFFICES ASSUME NEW r \in RuleIds, refs'[r] # 0
               PROVE  VALID_RULE_CODE(rule'[r])
    BY DEF AllocatedValid, VALID_RULE_CODE
  <2>1. CASE r = q
    BY <1>3, <1>4, <1>8, <2>1 DEF TypeOK
  <2>2. CASE r # q
    <3>1. refs[r] # 0 /\ rule'[r] = rule[r]
      BY <1>3, <1>4, <2>2 DEF TypeOK
    <3> QED
      BY <3>1 DEF RefInv, AllocatedValid
  <2> QED
    BY <2>1, <2>2
<1>11. ThreadShape' /\ BorrowedFromContext'
  BY <1>2 DEF RefInv, ThreadShape, BorrowedFromContext, threadVars, ctxVars
<1>12. FillingAlone' /\ RuleInSetContext'
  BY <1>2, ContextsKept DEF RefInv, threadVars, ctxVars
<1> QED
  BY <1>5, <1>9, <1>10, <1>11, <1>12 DEF RefInv

\* RemoveRules and CleanupRules give back the reference of an entry they unlink.
LEMMA RemoveEntryStep ==
    ASSUME RefInv, RemoveRule \/ CleanupRule
    PROVE  RefInv'
<1>1. TypeOK /\ RefCountExact /\ Distinct(list)
  BY DEF RefInv
<1>2. PICK i \in DOMAIN list : RemoveEntry(i)
  <2>1. CASE RemoveRule
    BY <2>1 DEF RemoveRule
  <2>2. CASE CleanupRule
    <3>1. 1 \in DOMAIN list /\ RemoveEntry(1)
      BY <1>1, <2>2 DEF CleanupRule, TypeOK
    <3> QED
      BY <3>1
  <2> QED
    BY <2>1, <2>2
<1>3. UNCHANGED <<rule, writer, threadVars, ctxVars, fault>>
  BY DEF RemoveRule, CleanupRule
<1>4. /\ refs' \in [RuleIds -> Nat] /\ RefCountExact'
      /\ list' \in Seq(RuleIds) /\ Distinct(list)'
  BY <1>1, <1>2, <1>3, UnlinkEntry DEF threadVars, ctxVars
<1>5. TypeOK'
  BY <1>1, <1>3, <1>4 DEF TypeOK, threadVars, ctxVars
<1>6. \A r \in RuleIds : refs'[r] # 0 => refs[r] # 0
  <2>1. list[i] \in RuleIds /\ list[i] \in Range(list)
    BY <1>1 DEF Range, TypeOK
  <2>2. refs[list[i]] >= 1 /\ refs[list[i]] \in Nat
    BY <1>1, <2>1, PointedToLive
  <2> QED
    BY <1>1, <1>2, <2>1, <2>2 DEF RemoveEntry, ReleaseRule, TypeOK
<1>7. ThreadShape' /\ BorrowedFromContext' /\ AllocatedValid'
  BY <1>3, <1>6, ValidKept DEF RefInv, ThreadShape, BorrowedFromContext,
     threadVars, ctxVars
<1>8. FillingAlone' /\ RuleInSetContext'
  BY <1>3, ContextsKept DEF RefInv, threadVars, ctxVars
<1> QED
  BY <1>4, <1>5, <1>7, <1>8 DEF RefInv

\* A context is torn down only when no callback borrows from it or fills it.
LEMMA CleanupFileContextStep ==
    ASSUME RefInv, NEW f \in Files, CleanupFileContext(f)
    PROVE  RefInv'
<1>1. TypeOK /\ RefCountExact /\ Distinct(list) /\ ThreadShape
  BY DEF RefInv
<1>2. /\ ctxSet' = [ctxSet EXCEPT ![f] = FALSE]
      /\ ctxName' = [ctxName EXCEPT ![f] = FALSE]
      /\ ctxRule' = [ctxRule EXCEPT ![f] = None]
      /\ guarded' = guarded \ {f}
      /\ IF ctxRule[f] # None THEN ReleaseRule(ctxRule[f]) ELSE UNCHANGED refs
      /\ UNCHANGED <<list, rule, writer, threadVars, fault>>
  BY DEF CleanupFileContext
<1>3. refs' \in [RuleIds -> Nat] /\ RefCountExact' /\ Distinct(list)'
  BY <1>1, <1>2, ReleaseContext DEF threadVars, Distinct
<1>4. TypeOK'
  <2>1. ctxSet' \in [Files -> BOOLEAN] /\ ctxName' \in [Files -> BOOLEAN]
    BY <1>1, <1>2, Zenon DEF TypeOK
  <2>2. ctxRule' \in [Files -> Pointer] /\ guarded' \subseteq Files
    BY <1>1, <1>2 DEF TypeOK, Pointer
  <2> QED
    BY <1>1, <1>2, <1>3, <2>1, <2>2 DEF TypeOK, threadVars
<1>5. \A r \in RuleIds : refs'[r] # 0 => refs[r] # 0
  <2>1. CASE ctxRule[f] = None
    BY <1>2, <2>1
  <2>2. CASE ctxRule[f] # None
    <3>1. ctxRule[f] \in RuleIds
      BY <1>1, <2>2 DEF TypeOK, Pointer
    <3>2. refs[ctxRule[f]] >= 1 /\ refs[ctxRule[f]] \in Nat
      BY <1>1, <3>1, PointedToLive
    <3> QED
      BY <1>1, <1>2, <2>2, <3>1, <3>2 DEF ReleaseRule, TypeOK
  <2> QED
    BY <2>1, <2>2
<1>6. AllocatedValid'
  BY <1>2, <1>5, ValidKept DEF RefInv
<1>7. ThreadShape'
  BY <1>1, <1>2 DEF ThreadShape, threadVars
<1>8. \A t \in Threads : borrowed[t] # None \/ pc[t] \in FillingAt => file[t] # f
  BY <1>1 DEF CleanupFileContext, InUse, ThreadShape, FillingAt
<1>9. BorrowedFromContext'
  <2> SUFFICES ASSUME NEW t \in Threads, borrowed[t] # None
               PROVE  ctxRule'[file[t]] = borrowed[t]
    BY <1>2 DEF BorrowedFromContext, threadVars
  <2>1. ctxRule[file[t]] = borrowed[t] /\ file[t] # f
    BY <1>8 DEF RefInv, BorrowedFromContext
  <2>2. file[t] \in Files
    BY <1>1 DEF ThreadShape
  <2> QED
    BY <1>1, <1>2, <2>1, <2>2 DEF TypeOK
<1>10. RuleInSetContext'
  BY <1>1, <1>2 DEF RefInv, RuleInSetContext, TypeOK
<1>11. FillingAlone'
  <2>1. ASSUME NEW t \in Threads, pc[t] \in FillingAt
        PROVE  /\ ctxSet'[file[t]] /\ ctxRule'[file[t]] = None
               /\ pc[t] = "fillrule" => ctxName'[file[t]]
    <3>1. file[t] \in Files /\ file[t] # f
      BY <1>1, <1>8, <2>1 DEF ThreadShape, FillingAt
    <3>2. /\ ctxSet[file[t]] /\ ctxRule[file[t]] = None
          /\ pc[t] = "fillrule" => ctxName[file[t]]
      BY <2>1 DEF RefInv, FillingAlone
    <3> QED
      BY <1>1, <1>2, <3>1, <3>2 DEF TypeOK
  <2> QED
    BY <1>2, <2>1 DEF RefInv, FillingAlone, threadVars
<1> QED
  BY <1>3, <1>4, <1>6, <1>7, <1>9, <1>10, <1>11 DEF RefInv
-----------------------------------------------------------------------------
(* The steps of the callbacks.                                             *)

\* A callback releases its rule and is done.
LEMMA FinishStep ==
    ASSUME RefInv, NEW t \in Threads, NEW s \in Statuses, Finish(t, s),
           pc[t] \in HoldingAt,
           UNCHANGED <<list, rule, writer, op, file, name, found, borrowed,
                       ctxSet, ctxName, ctxRule, fault>>,
           guarded' \subseteq Files
    PROVE  RefInv'
<1>1. TypeOK /\ RefCountExact /\ Distinct(list) /\ ThreadShape
  BY DEF RefInv
<1>2. /\ ReleaseRule(held[t]) /\ held' = [held EXCEPT ![t] = None]
      /\ status' = [status EXCEPT ![t] = s] /\ pc' = [pc EXCEPT ![t] = "done"]
  BY DEF Finish
<1>3. held[t] # None /\ held[t] \in RuleIds
  BY <1>1 DEF ThreadShape, TypeOK, Pointer
<1>4. refs' \in [RuleIds -> Nat] /\ RefCountExact'
  BY <1>1, <1>2, <1>3, ReleaseHeld
<1>5. TypeOK'
  BY <1>1, <1>2, <1>4 DEF TypeOK, Pointer, Locations
<1>6. ThreadShape'
  BY <1>1, <1>2 DEF ThreadShape, HoldingAt, TypeOK
<1>7. FillingAlone' /\ RuleInSetContext'
  BY <1>1, <1>2, ContextsKept DEF RefInv, FillingAt, TypeOK
<1>8. BorrowedFromContext'
  BY BorrowedKept DEF RefInv
<1>9. \A r \in RuleIds : refs'[r] # 0 => refs[r] # 0
  <2>1. refs[held[t]] >= 1 /\ refs[held[t]] \in Nat
    BY <1>1, <1>3, PointedToLive
  <2> QED
    BY <1>1, <1>2, <1>3, <2>1 DEF ReleaseRule, TypeOK
<1>10. AllocatedValid'
  BY <1>9, ValidKept DEF RefInv
<1> QED
  BY <1>1, <1>4, <1>5, <1>6, <1>7, <1>8, <1>10 DEF RefInv, Distinct

\* A step of a callback that leaves the rules, the counts and the contexts
\* alone, and where it comes to.
LEMMA QuietStep ==
    ASSUME RefInv, TypeOK', ThreadShape',
           UNCHANGED <<list, rule, refs, held, ctxVars>>,
           \A u \in Threads : pc'[u] \in FillingAt
                                 => pc'[u] = pc[u] /\ file'[u] = file[u],
           BorrowedFromContext'
    PROVE  RefInv'
<1>1. RefCountExact' /\ Distinct(list)'
  BY CountKept DEF RefInv, ctxVars
<1>2. FillingAlone' /\ RuleInSetContext'
  BY ContextsKept DEF RefInv, ctxVars
<1>3. AllocatedValid'
  BY ValidKept DEF RefInv
<1> QED
  BY <1>1, <1>2, <1>3 DEF RefInv

\* Taking and giving back a reference changes no count.
LEMMA HandOverKeeps ==
    ASSUME TypeOK, NEW q \in RuleIds, HandOverRule(q)
    PROVE  UNCHANGED refs
<1>1. refs \in [RuleIds -> Nat]
  BY DEF TypeOK
<1>2. refs[q] \in Nat /\ (refs[q] + 1) - 1 = refs[q]
  BY <1>1
<1> QED
  BY <1>1, <1>2 DEF HandOverRule

\* What a rule makes of an operation is an outcome.
LEMMA OutcomesTyped ==
    ASSUME NEW p, NEW r, NEW s \in Statuses
    PROVE  Outcomes(p, r, s) \subseteq Statuses
BY DEF Outcomes, Verdict, Statuses

\* The steps of the callbacks that leave the rules and the contexts alone.
LEMMA QuietSteps ==
    ASSUME RefInv, NEW t \in Threads,
           \/ MatchRules(t) \/ ReferenceFreedEntry(t)
           \/ PassCreate(t) \/ AllocateFileContext(t) \/ CompareUnfilledContext(t)
           \/ Enforce(t) \/ EnforceRenameSource(t) \/ RenameDestination(t)
           \/ Return(t)
           \/ \E f \in Files : PreCreate(t, f)
           \/ \E f \in Files, o \in {"write", "setinfo", "fsctl", "rename"} :
                 PreOperation(t, f, o)
    PROVE  RefInv'
<1>1. TypeOK /\ ThreadShape /\ BorrowedFromContext
  BY DEF RefInv
<1>2. CASE MatchRules(t)
  <2>0. found' \in [Threads -> Pointer]
    <3>1. found \in [Threads -> Pointer] /\ \A i \in DOMAIN list : list[i] \in Pointer
      BY <1>1 DEF TypeOK, Pointer
    <3> QED
      BY <1>2, <3>1 DEF MatchRules
  <2>1. UNCHANGED <<list, rule, refs, held, ctxVars>>
    BY <1>1, <1>2 DEF MatchRules, threadVars, ctxVars
  <2>2. TypeOK'
    BY <1>1, <1>2, <2>1, <2>0 DEF MatchRules, TypeOK, Locations, ctxVars, threadVars
  <2>3. ThreadShape'
    BY <1>1, <1>2, <2>1 DEF MatchRules, ThreadShape, HoldingAt, TypeOK, threadVars
  <2>4. \A u \in Threads : pc'[u] \in FillingAt
                               => pc'[u] = pc[u] /\ file'[u] = file[u]
    BY <1>1, <1>2 DEF MatchRules, FillingAt, TypeOK, threadVars
  <2>5. BorrowedFromContext'
    BY <1>1, <1>2, <2>1, BorrowedKept DEF MatchRules, TypeOK, ctxVars, threadVars
  <2> QED
    BY <2>1, <2>2, <2>3, <2>4, <2>5, QuietStep
<1>3. CASE ReferenceFreedEntry(t)
  <2>1. UNCHANGED <<list, rule, refs, held, ctxVars>>
    BY <1>1, <1>3 DEF ReferenceFreedEntry, threadVars, ctxVars
  <2>2. TypeOK'
    BY <1>1, <1>3, <2>1 DEF ReferenceFreedEntry, TypeOK, Locations, ctxVars, threadVars
  <2>3. ThreadShape'
    BY <1>1, <1>3, <2>1 DEF ReferenceFreedEntry, ThreadShape, HoldingAt, TypeOK, threadVars
  <2>4. \A u \in Threads : pc'[u] \in FillingAt
                               => pc'[u] = pc[u] /\ file'[u] = file[u]
    BY <1>1, <1>3 DEF ReferenceFreedEntry, FillingAt, TypeOK, threadVars
  <2>5. BorrowedFromContext'
    BY <1>1, <1>3, <2>1, BorrowedKept DEF ReferenceFreedEntry, TypeOK, ctxVars, threadVars
  <2> QED
    BY <2>1, <2>2, <2>3, <2>4, <2>5, QuietStep
<1>4. CASE PassCreate(t)
  <2>0. held[t] \in RuleIds
    BY <1>1, <1>4 DEF PassCreate, ThreadShape, HoldingAt, TypeOK, Pointer
  <2>a. UNCHANGED refs
    BY <1>1, <1>4, <2>0, HandOverKeeps DEF PassCreate
  <2>1. UNCHANGED <<list, rule, refs, held, ctxVars>>
    BY <1>1, <1>4, <2>a DEF PassCreate, threadVars, ctxVars
  <2>2. TypeOK'
    BY <1>1, <1>4, <2>1 DEF PassCreate, TypeOK, Locations, ctxVars, threadVars
  <2>3. ThreadShape'
    BY <1>1, <1>4, <2>1 DEF PassCreate, ThreadShape, HoldingAt, TypeOK, threadVars
  <2>4. \A u \in Threads : pc'[u] \in FillingAt
                               => pc'[u] = pc[u] /\ file'[u] = file[u]
    BY <1>1, <1>4 DEF PassCreate, FillingAt, TypeOK, threadVars
  <2>5. BorrowedFromContext'
    BY <1>1, <1>4, <2>1, BorrowedKept DEF PassCreate, TypeOK, ctxVars, threadVars
  <2> QED
    BY <2>1, <2>2, <2>3, <2>4, <2>5, QuietStep
<1>5. CASE AllocateFileContext(t)
  <2>1. UNCHANGED <<list, rule, refs, held, ctxVars>>
    BY <1>1, <1>5 DEF AllocateFileContext, threadVars, ctxVars
  <2>2. TypeOK'
    BY <1>1, <1>5, <2>1 DEF AllocateFileContext, TypeOK, Locations, ctxVars, threadVars
  <2>3. ThreadShape'
    BY <1>1, <1>5, <2>1 DEF AllocateFileContext, ThreadShape, HoldingAt, TypeOK, threadVars
  <2>4. \A u \in Threads : pc'[u] \in FillingAt
                               => pc'[u] = pc[u] /\ file'[u] = file[u]
    BY <1>1, <1>5 DEF AllocateFileContext, FillingAt, TypeOK, threadVars
  <2>5. BorrowedFromContext'
    BY <1>1, <1>5, <2>1, BorrowedKept DEF AllocateFileContext, TypeOK, ctxVars, threadVars
  <2> QED
    BY <2>1, <2>2, <2>3, <2>4, <2>5, QuietStep
<1>6. CASE CompareUnfilledContext(t)
  <2>1. UNCHANGED <<list, rule, refs, held, ctxVars>>
    BY <1>1, <1>6 DEF CompareUnfilledContext, threadVars, ctxVars
  <2>2. TypeOK'
    BY <1>1, <1>6, <2>1 DEF CompareUnfilledContext, TypeOK, Locations, ctxVars, threadVars
  <2>3. ThreadShape'
    BY <1>1, <1>6, <2>1 DEF CompareUnfilledContext, ThreadShape, HoldingAt, TypeOK, threadVars
  <2>4. \A u \in Threads : pc'[u] \in FillingAt
                               => pc'[u] = pc[u] /\ file'[u] = file[u]
    BY <1>1, <1>6 DEF CompareUnfilledContext, FillingAt, TypeOK, threadVars
  <2>5. BorrowedFromContext'
    BY <1>1, <1>6, <2>1, BorrowedKept DEF CompareUnfilledContext, TypeOK, ctxVars, threadVars
  <2> QED
    BY <2>1, <2>2, <2>3, <2>4, <2>5, QuietStep
<1>7. CASE Enforce(t)
  <2>1. UNCHANGED <<list, rule, refs, held, ctxVars>>
    BY <1>1, <1>7 DEF Enforce, threadVars, ctxVars
  <2>2. TypeOK'
    BY <1>1, <1>7, <2>1, OutcomesTyped DEF Enforce, TypeOK, Locations, ctxVars, threadVars
  <2>3. ThreadShape'
    BY <1>1, <1>7, <2>1 DEF Enforce, ThreadShape, HoldingAt, TypeOK, threadVars
  <2>4. \A u \in Threads : pc'[u] \in FillingAt
                               => pc'[u] = pc[u] /\ file'[u] = file[u]
    BY <1>1, <1>7 DEF Enforce, FillingAt, TypeOK, threadVars
  <2>5. BorrowedFromContext'
    BY <1>1, <1>7, <2>1, BorrowedKept DEF Enforce, TypeOK, ctxVars, threadVars
  <2> QED
    BY <2>1, <2>2, <2>3, <2>4, <2>5, QuietStep
<1>8. CASE EnforceRenameSource(t)
  <2>1. UNCHANGED <<list, rule, refs, held, ctxVars>>
    BY <1>1, <1>8 DEF EnforceRenameSource, threadVars, ctxVars
  <2>2. TypeOK'
    BY <1>1, <1>8, <2>1, OutcomesTyped DEF EnforceRenameSource, TypeOK, Locations, ctxVars, threadVars
  <2>3. ThreadShape'
    BY <1>1, <1>8, <2>1 DEF EnforceRenameSource, ThreadShape, HoldingAt, TypeOK, threadVars
  <2>4. \A u \in Threads : pc'[u] \in FillingAt
                               => pc'[u] = pc[u] /\ file'[u] = file[u]
    BY <1>1, <1>8 DEF EnforceRenameSource, FillingAt, TypeOK, threadVars
  <2>5. BorrowedFromContext'
    BY <1>1, <1>8, <2>1, BorrowedKept DEF EnforceRenameSource, TypeOK, ctxVars, threadVars
  <2> QED
    BY <2>1, <2>2, <2>3, <2>4, <2>5, QuietStep
<1>9. CASE RenameDestination(t)
  <2>0. /\ name' \in [Threads -> Files \cup Destinations \cup {None}]
        /\ status' \in [Threads -> Statuses]
        /\ pc' \in [Threads -> Locations]
    <3>1. CASE UNCHANGED name
      BY <1>1, <1>9, <3>1 DEF RenameDestination, TypeOK, Statuses, Locations
    <3>2. ASSUME NEW d \in Destinations, name' = [name EXCEPT ![t] = d],
                 pc' = [pc EXCEPT ![t] = "lookup"], UNCHANGED status
          PROVE  /\ name' \in [Threads -> Files \cup Destinations \cup {None}]
                 /\ status' \in [Threads -> Statuses]
                 /\ pc' \in [Threads -> Locations]
      BY <1>1, <3>2 DEF TypeOK, Locations
    <3> QED
      BY <1>9, <3>1, <3>2 DEF RenameDestination
  <2>1. UNCHANGED <<list, rule, refs, held, ctxVars>>
    BY <1>1, <1>9 DEF RenameDestination, threadVars, ctxVars
  <2>2. TypeOK'
    BY <1>1, <1>9, <2>1, <2>0 DEF RenameDestination, TypeOK, Locations, ctxVars, threadVars
  <2>3. ThreadShape'
    BY <1>1, <1>9, <2>1 DEF RenameDestination, ThreadShape, HoldingAt, TypeOK, threadVars
  <2>4. \A u \in Threads : pc'[u] \in FillingAt
                               => pc'[u] = pc[u] /\ file'[u] = file[u]
    BY <1>1, <1>9 DEF RenameDestination, FillingAt, TypeOK, threadVars
  <2>5. BorrowedFromContext'
    BY <1>1, <1>9, <2>1, BorrowedKept DEF RenameDestination, TypeOK, ctxVars, threadVars
  <2> QED
    BY <2>1, <2>2, <2>3, <2>4, <2>5, QuietStep
<1>10. CASE Return(t)
  <2>1. UNCHANGED <<list, rule, refs, held, ctxVars>>
    BY <1>1, <1>10 DEF Return, threadVars, ctxVars
  <2>2. TypeOK'
    BY <1>1, <1>10, <2>1 DEF Return, TypeOK, Locations, Operations, Statuses, Pointer, ctxVars, threadVars
  <2>3. ThreadShape'
    BY <1>1, <1>10, <2>1 DEF Return, ThreadShape, HoldingAt, TypeOK, threadVars
  <2>4. \A u \in Threads : pc'[u] \in FillingAt
                               => pc'[u] = pc[u] /\ file'[u] = file[u]
    BY <1>1, <1>10 DEF Return, FillingAt, TypeOK, threadVars
  <2>5. BorrowedFromContext'
    BY <1>1, <1>10, <2>1, BorrowedKept DEF Return, TypeOK, ctxVars, threadVars
  <2> QED
    BY <2>1, <2>2, <2>3, <2>4, <2>5, QuietStep
<1>11. CASE \E f \in Files : PreCreate(t, f)
  <2>0. PICK f \in Files : PreCreate(t, f)
    BY <1>11
  <2>1. UNCHANGED <<list, rule, refs, held, ctxVars>>
    BY <1>1, <2>0 DEF PreCreate, threadVars, ctxVars
  <2>2. TypeOK'
    BY <1>1, <2>0, <2>1 DEF PreCreate, TypeOK, Locations, Operations, Statuses, ctxVars, threadVars
  <2>3. ThreadShape'
    BY <1>1, <2>0, <2>1 DEF PreCreate, ThreadShape, HoldingAt, TypeOK, threadVars
  <2>4. \A u \in Threads : pc'[u] \in FillingAt
                               => pc'[u] = pc[u] /\ file'[u] = file[u]
    BY <1>1, <2>0 DEF PreCreate, FillingAt, TypeOK, threadVars
  <2>5. BorrowedFromContext'
    <3>1. borrowed' = borrowed /\ borrowed[t] = None
      BY <1>1, <2>0 DEF PreCreate, ThreadShape
    <3>2. \A u \in Threads : u # t => file'[u] = file[u]
      BY <1>1, <2>0 DEF PreCreate, TypeOK
    <3> QED
      BY <1>1, <2>1, <3>1, <3>2, BorrowedKept DEF ctxVars
  <2> QED
    BY <2>1, <2>2, <2>3, <2>4, <2>5, QuietStep
<1>12. CASE \E f \in Files, o \in {"write", "setinfo", "fsctl", "rename"} :
             PreOperation(t, f, o)
  <2>0. PICK f \in Files, o \in {"write", "setinfo", "fsctl", "rename"} :
           PreOperation(t, f, o)
    BY <1>12
  <2>1. UNCHANGED <<list, rule, refs, held, ctxVars>>
    BY <1>1, <2>0 DEF PreOperation, threadVars, ctxVars
  <2>2. TypeOK'
    BY <1>1, <2>0, <2>1, ZenonT(40) DEF PreOperation, TypeOK, Locations, Operations, Statuses, Pointer, ctxVars, threadVars
  <2>3. ThreadShape'
    BY <1>1, <2>0, <2>1 DEF PreOperation, ThreadShape, HoldingAt, TypeOK, threadVars
  <2>4. \A u \in Threads : pc'[u] \in FillingAt
                               => pc'[u] = pc[u] /\ file'[u] = file[u]
    BY <1>1, <2>0 DEF PreOperation, FillingAt, TypeOK, threadVars
  <2>5. BorrowedFromContext'
    <3>1. borrowed[t] = None
      BY <1>1, <2>0 DEF PreOperation, ThreadShape
    <3>2. borrowed'[t] # None => borrowed'[t] = ctxRule[f]
      BY <1>1, <2>0, <3>1 DEF PreOperation, TypeOK
    <3>3. file'[t] = f /\ ctxRule' = ctxRule
      BY <1>1, <2>0, <2>1 DEF PreOperation, TypeOK, ctxVars
    <3>4. \A u \in Threads : u # t => file'[u] = file[u] /\ borrowed'[u] = borrowed[u]
      BY <1>1, <2>0 DEF PreOperation, TypeOK
    <3> QED
      BY <1>1, <3>2, <3>3, <3>4 DEF BorrowedFromContext
  <2> QED
    BY <2>1, <2>2, <2>3, <2>4, <2>5, QuietStep
<1> QED
  BY <1>2, <1>3, <1>4, <1>5, <1>6, <1>7, <1>8, <1>9, <1>10, <1>11, <1>12

\* ReferenceMatch: the entry found is still in the list, so its rule is
\* allocated when the callback counts itself in.
LEMMA ReferenceMatchStep ==
    ASSUME RefInv, NEW t \in Threads, ReferenceMatch(t)
    PROVE  RefInv'
<1>1. TypeOK /\ RefCountExact /\ Distinct(list) /\ ThreadShape
  BY DEF RefInv
<1>2. /\ pc[t] = "reference" /\ found[t] \in Range(list) /\ ReferenceRule(found[t])
      /\ held' = [held EXCEPT ![t] = found[t]]
      /\ found' = [found EXCEPT ![t] = None]
      /\ pc' = [pc EXCEPT ![t] = IF op[t] = "create" THEN "decide" ELSE "renamed"]
      /\ UNCHANGED <<list, rule, writer, op, file, name, borrowed, status, ctxSet,
                     ctxName, ctxRule, guarded, fault>>
  BY DEF ReferenceMatch, ctxVars
<1>3. held[t] = None /\ found[t] \in RuleIds
  <2>1. held[t] = None
    BY <1>1, <1>2 DEF ThreadShape, HoldingAt
  <2>2. PICK i \in DOMAIN list : found[t] = list[i]
    BY <1>2 DEF Range
  <2>3. list[i] \in RuleIds
    BY <1>1 DEF TypeOK
  <2> QED
    BY <2>1, <2>2, <2>3
<1>4. refs' \in [RuleIds -> Nat] /\ RefCountExact'
  BY <1>1, <1>2, <1>3, ReferenceHeld
<1>5. TypeOK'
  BY <1>1, <1>2, <1>3, <1>4 DEF TypeOK, Pointer, Locations
<1>6. ThreadShape'
  <2>1. found[t] # None
    BY <1>3, NoneAssumption
  <2> QED
    BY <1>1, <1>2, <2>1 DEF ThreadShape, HoldingAt, TypeOK
<1>7. FillingAlone' /\ RuleInSetContext'
  BY <1>1, <1>2, ContextsKept DEF RefInv, FillingAt, TypeOK
<1>8. BorrowedFromContext'
  BY <1>2, BorrowedKept DEF RefInv
<1>9. AllocatedValid'
  <2>1. refs[found[t]] # 0
    BY <1>1, <1>2, <1>3, PointedToLive
  <2>2. \A r \in RuleIds : refs'[r] # 0 => refs[r] # 0
    BY <1>1, <1>2, <1>3, <2>1 DEF ReferenceRule, TypeOK
  <2> QED
    BY <1>2, <2>2, ValidKept DEF RefInv
<1> QED
  BY <1>1, <1>2, <1>4, <1>5, <1>6, <1>7, <1>8, <1>9 DEF RefInv, Distinct

\* SetFileContext: the file had no context, so nobody was filling it in.
LEMMA SetFileContextStep ==
    ASSUME RefInv, NEW t \in Threads, SetFileContext(t)
    PROVE  RefInv'
<1>1. TypeOK /\ RefCountExact /\ Distinct(list) /\ ThreadShape /\ FillingAlone
      /\ RuleInSetContext /\ BorrowedFromContext /\ AllocatedValid
  BY DEF RefInv
<1>2. /\ pc[t] = "setctx" /\ ~ ctxSet[file[t]]
      /\ ctxSet' = [ctxSet EXCEPT ![file[t]] = TRUE]
      /\ pc' = [pc EXCEPT ![t] = "fillname"]
      /\ UNCHANGED <<list, rule, refs, writer, op, file, name, found, held,
                     borrowed, status, ctxName, ctxRule, guarded, fault>>
  BY DEF SetFileContext
<1>3. file[t] \in Files /\ ctxRule[file[t]] = None
  BY <1>1, <1>2 DEF ThreadShape, RuleInSetContext
<1>4. TypeOK'
  <2>1. ctxSet' \in [Files -> BOOLEAN]
    BY <1>1, <1>2, Zenon DEF TypeOK
  <2> QED
    BY <1>1, <1>2, <2>1 DEF TypeOK, Locations
<1>5. RefCountExact' /\ Distinct(list)'
  BY <1>1, <1>2, CountKept
<1>6. ThreadShape'
  BY <1>1, <1>2 DEF ThreadShape, HoldingAt, TypeOK
<1>7. \A f \in Files : ctxSet'[f] = (f = file[t] \/ ctxSet[f])
  BY <1>1, <1>2 DEF TypeOK
<1>8. RuleInSetContext' /\ BorrowedFromContext' /\ AllocatedValid'
  BY <1>1, <1>2, <1>7 DEF RuleInSetContext, BorrowedFromContext, AllocatedValid
<1>9. \A u \in Threads : pc[u] \in FillingAt => file[u] # file[t]
  BY <1>1, <1>2 DEF FillingAlone
<1>10. \A u \in Threads : u # t => pc'[u] = pc[u]
  BY <1>1, <1>2 DEF TypeOK
<1>11. pc'[t] = "fillname"
  BY <1>1, <1>2 DEF TypeOK
<1>12. \A u \in Threads : pc'[u] \in FillingAt =>
          /\ ctxSet'[file'[u]] /\ ctxRule'[file'[u]] = None
          /\ pc'[u] = "fillrule" => ctxName'[file'[u]]
  <2> SUFFICES ASSUME NEW u \in Threads, pc'[u] \in FillingAt
               PROVE  /\ ctxSet'[file[u]] /\ ctxRule[file[u]] = None
                      /\ pc'[u] = "fillrule" => ctxName[file[u]]
    BY <1>2
  <2>1. CASE u = t
    BY <1>3, <1>7, <1>11, <2>1
  <2>2. CASE u # t
    <3>1. pc'[u] = pc[u] /\ pc[u] \in FillingAt
      BY <1>10, <2>2
    <3>2. file[u] \in Files
      BY <1>1, <3>1 DEF ThreadShape, FillingAt
    <3> QED
      BY <1>1, <1>7, <3>1, <3>2 DEF FillingAlone
  <2> QED
    BY <2>1, <2>2
<1>13. \A u, v \in Threads :
          pc'[u] \in FillingAt /\ pc'[v] \in FillingAt /\ file'[u] = file'[v] => u = v
  <2>1. \A u \in Threads : u # t => (pc'[u] \in FillingAt <=> pc[u] \in FillingAt)
    BY <1>10
  <2> QED
    BY <1>1, <1>2, <1>9, <2>1 DEF FillingAlone
<1>14. FillingAlone'
  BY <1>12, <1>13 DEF FillingAlone, FillingAt
<1> QED
  BY <1>4, <1>5, <1>6, <1>8, <1>14 DEF RefInv

\* FillName: the thread that set the context goes on filling it in.
LEMMA FillNameStep ==
    ASSUME RefInv, NEW t \in Threads, FillName(t)
    PROVE  RefInv'
<1>1. TypeOK /\ RefCountExact /\ Distinct(list) /\ ThreadShape /\ FillingAlone
      /\ RuleInSetContext /\ BorrowedFromContext /\ AllocatedValid
  BY DEF RefInv
<1>2. /\ pc[t] = "fillname"
      /\ ctxName' = [ctxName EXCEPT ![file[t]] = TRUE]
      /\ pc' = [pc EXCEPT ![t] = "fillrule"]
      /\ UNCHANGED <<list, rule, refs, writer, op, file, name, found, held,
                     borrowed, status, ctxSet, ctxRule, guarded, fault>>
  BY DEF FillName
<1>3. file[t] \in Files
  BY <1>1, <1>2 DEF ThreadShape
<1>4. TypeOK'
  <2>1. ctxName' \in [Files -> BOOLEAN]
    BY <1>1, <1>2, Zenon DEF TypeOK
  <2> QED
    BY <1>1, <1>2, <2>1 DEF TypeOK, Locations
<1>5. RefCountExact' /\ Distinct(list)'
  BY <1>1, <1>2, CountKept
<1>6. ThreadShape'
  BY <1>1, <1>2 DEF ThreadShape, HoldingAt, TypeOK
<1>7. \A f \in Files : ctxName'[f] = (f = file[t] \/ ctxName[f])
  BY <1>1, <1>2 DEF TypeOK
<1>8. RuleInSetContext' /\ BorrowedFromContext' /\ AllocatedValid'
  BY <1>1, <1>2, <1>7 DEF RuleInSetContext, BorrowedFromContext, AllocatedValid
<1>9. /\ \A u \in Threads : u # t => pc'[u] = pc[u]
      /\ pc'[t] = "fillrule"
  BY <1>1, <1>2 DEF TypeOK
<1>10. \A u \in Threads : pc'[u] \in FillingAt <=> pc[u] \in FillingAt
  BY <1>2, <1>9 DEF FillingAt
<1>11. \A u \in Threads : pc'[u] \in FillingAt =>
          /\ ctxSet'[file'[u]] /\ ctxRule'[file'[u]] = None
          /\ pc'[u] = "fillrule" => ctxName'[file'[u]]
  <2> SUFFICES ASSUME NEW u \in Threads, pc[u] \in FillingAt
               PROVE  /\ ctxSet[file[u]] /\ ctxRule[file[u]] = None
                      /\ pc'[u] = "fillrule" => ctxName'[file[u]]
    BY <1>2, <1>10
  <2>1. ctxSet[file[u]] /\ ctxRule[file[u]] = None
    BY <1>1 DEF FillingAlone
  <2>2. file[u] \in Files
    BY <1>1 DEF ThreadShape, FillingAt
  <2>3. pc[u] = "fillrule" => ctxName[file[u]]
    BY <1>1 DEF FillingAlone
  <2> QED
    BY <1>7, <1>9, <2>1, <2>2, <2>3
<1>12. FillingAlone'
  <2>1. \A u, v \in Threads :
          pc'[u] \in FillingAt /\ pc'[v] \in FillingAt /\ file'[u] = file'[v] => u = v
    BY <1>1, <1>2, <1>10 DEF FillingAlone
  <2> QED
    BY <1>11, <2>1 DEF FillingAlone, FillingAt
<1> QED
  BY <1>4, <1>5, <1>6, <1>8, <1>12 DEF RefInv

\* FillRule: the context had no rule, so nobody has borrowed from it; the
\* thread holds the rule that the context counts itself into.
LEMMA FillRuleStep ==
    ASSUME RefInv, NEW t \in Threads, FillRule(t)
    PROVE  RefInv'
<1>1. TypeOK /\ RefCountExact /\ Distinct(list) /\ ThreadShape /\ FillingAlone
      /\ RuleInSetContext /\ BorrowedFromContext /\ AllocatedValid
  BY DEF RefInv
<1>2. /\ pc[t] = "fillrule" /\ ReferenceRule(held[t])
      /\ ctxRule' = [ctxRule EXCEPT ![file[t]] = held[t]]
      /\ pc' = [pc EXCEPT ![t] = "finish"]
      /\ UNCHANGED <<list, rule, writer, op, file, name, found, held, borrowed,
                     status, ctxSet, ctxName, guarded, fault>>
  BY DEF FillRule
<1>3. file[t] \in Files /\ held[t] \in RuleIds
  BY <1>1, <1>2 DEF ThreadShape, HoldingAt, TypeOK, Pointer
<1>4. ctxSet[file[t]] /\ ctxName[file[t]] /\ ctxRule[file[t]] = None
  BY <1>1, <1>2 DEF FillingAlone, FillingAt
<1>5. refs' \in [RuleIds -> Nat] /\ RefCountExact'
  BY <1>1, <1>2, <1>3, <1>4, ReferenceContext
<1>6. TypeOK'
  BY <1>1, <1>2, <1>3, <1>5 DEF TypeOK, Pointer, Locations
<1>7. ThreadShape'
  BY <1>1, <1>2 DEF ThreadShape, HoldingAt, TypeOK
<1>8. \A f \in Files : ctxRule'[f] = IF f = file[t] THEN held[t] ELSE ctxRule[f]
  BY <1>1, <1>2 DEF TypeOK
<1>9. RuleInSetContext'
  BY <1>1, <1>2, <1>4, <1>8 DEF RuleInSetContext
<1>10. BorrowedFromContext'
  <2> SUFFICES ASSUME NEW u \in Threads, borrowed[u] # None
               PROVE  ctxRule'[file[u]] = borrowed[u]
    BY <1>2 DEF BorrowedFromContext
  <2>1. ctxRule[file[u]] = borrowed[u] /\ file[u] # file[t]
    BY <1>1, <1>4 DEF BorrowedFromContext
  <2>2. file[u] \in Files
    BY <1>1 DEF ThreadShape, TypeOK, Operations
  <2> QED
    BY <1>8, <2>1, <2>2
<1>11. \A u \in Threads : pc'[u] \in FillingAt => u # t /\ pc'[u] = pc[u]
  BY <1>1, <1>2 DEF TypeOK, FillingAt
<1>12. \A u \in Threads : pc'[u] \in FillingAt =>
          /\ ctxSet'[file'[u]] /\ ctxRule'[file'[u]] = None
          /\ pc'[u] = "fillrule" => ctxName'[file'[u]]
  <2> SUFFICES ASSUME NEW u \in Threads, pc'[u] \in FillingAt
               PROVE  /\ ctxSet[file[u]] /\ ctxRule'[file[u]] = None
                      /\ pc[u] = "fillrule" => ctxName[file[u]]
    BY <1>2, <1>11
  <2>1. u # t /\ pc[u] \in FillingAt /\ pc[t] \in FillingAt
    BY <1>2, <1>11 DEF FillingAt
  <2>2. file[u] # file[t]
    BY <1>1, <2>1 DEF FillingAlone
  <2>3. file[u] \in Files
    BY <1>1, <2>1 DEF ThreadShape, FillingAt
  <2> QED
    BY <1>1, <1>8, <2>1, <2>2, <2>3 DEF FillingAlone
<1>13. FillingAlone'
  <2>1. \A u, v \in Threads :
          pc'[u] \in FillingAt /\ pc'[v] \in FillingAt /\ file'[u] = file'[v] => u = v
    BY <1>1, <1>2, <1>11 DEF FillingAlone
  <2> QED
    BY <1>12, <2>1 DEF FillingAlone, FillingAt
<1>14. AllocatedValid'
  <2>1. refs[held[t]] # 0
    BY <1>1, <1>3, PointedToLive
  <2>2. \A r \in RuleIds : refs'[r] # 0 => refs[r] # 0
    BY <1>1, <1>2, <1>3, <2>1 DEF ReferenceRule, TypeOK
  <2> QED
    BY <1>1, <1>2, <2>2, ValidKept
<1> QED
  BY <1>1, <1>2, <1>5, <1>6, <1>7, <1>9, <1>10, <1>13, <1>14 DEF RefInv, Distinct

\* The steps that end an open, or a rename that matched at its destination.
LEMMA FinishSteps ==
    ASSUME RefInv, NEW t \in Threads,
           \/ RefuseCreate(t) \/ CreateFails(t) \/ FileContextFound(t)
           \/ SetFileContextFails(t) \/ FileContextAlreadyDefined(t)
           \/ FinishCreate(t) \/ EnforceRenameDestination(t)
    PROVE  RefInv'
<1>1. TypeOK /\ RefCountExact /\ ThreadShape /\ AllocatedValid
  BY DEF RefInv
<1>2. /\ pc[t] \in HoldingAt
      /\ UNCHANGED <<list, rule, writer, op, file, name, found, borrowed,
                     ctxSet, ctxName, fault>>
  BY DEF RefuseCreate, CreateFails, FileContextFound, SetFileContextFails,
     FileContextAlreadyDefined, FinishCreate, EnforceRenameDestination,
     ctxVars, HoldingAt
<1>3. UNCHANGED ctxRule
  <2>1. CASE FileContextAlreadyDefined(t)
    BY <1>1, <2>1, AlreadyDefinedFinishes
  <2>2. CASE ~ FileContextAlreadyDefined(t)
    BY <2>2 DEF RefuseCreate, CreateFails, FileContextFound, SetFileContextFails,
       FinishCreate, EnforceRenameDestination, ctxVars
  <2> QED
    BY <2>1, <2>2
<1>4. guarded' \subseteq Files
  <2>1. guarded \subseteq Files /\ file[t] \in Files
    BY <1>1, <1>2 DEF TypeOK, ThreadShape, HoldingAt
  <2> QED
    BY <2>1 DEF RefuseCreate, CreateFails, FileContextFound, SetFileContextFails,
       FileContextAlreadyDefined, FinishCreate, EnforceRenameDestination, ctxVars
<1>5. PICK s \in Statuses : Finish(t, s)
  <2>1. CASE FileContextAlreadyDefined(t)
    BY <1>1, <2>1, AlreadyDefinedFinishes DEF Statuses
  <2>2. CASE RefuseCreate(t)
    <3>1. CASE Finish(t, "error")
      BY <3>1 DEF Statuses
    <3>2. CASE ~ Finish(t, "error")
      <4>1. PICK d \in Dispositions, exists \in BOOLEAN :
               Finish(t, OpenVerdict(rule[held[t]], d, exists))
        BY <2>2, <3>2 DEF RefuseCreate
      <4>2. OpenVerdict(rule[held[t]], d, exists) \in Statuses
        BY DEF OpenVerdict, Statuses
      <4> QED
        BY <4>1, <4>2
    <3> QED
      BY <3>1, <3>2
  <2>3. CASE CreateFails(t)
    BY <2>3 DEF CreateFails, Statuses
  <2>4. CASE FileContextFound(t) \/ FinishCreate(t)
    BY <2>4 DEF FileContextFound, FinishCreate, Statuses
  <2>5. CASE SetFileContextFails(t)
    BY <2>5 DEF SetFileContextFails, Statuses
  <2>6. CASE EnforceRenameDestination(t)
    <3>1. status[t] \in Statuses
      BY <1>1 DEF TypeOK
    <3> QED
      BY <2>6, <3>1, OutcomesTyped DEF EnforceRenameDestination
  <2> QED
    BY <2>1, <2>2, <2>3, <2>4, <2>5, <2>6
<1> QED
  BY <1>2, <1>3, <1>4, <1>5, FinishStep

-----------------------------------------------------------------------------
(* The theorems.                                                           *)

\* Nothing is allocated, pointed to or in progress at first.
LEMMA InitRefInv ==
    ASSUME Init
    PROVE  RefInv
<1>1. TypeOK
  <2>1. (CHOOSE x \in RuleType : TRUE) \in RuleType
    <3>1. PICK s \in Strings : TRUE
      BY StringsAssumption
    <3>2. [major |-> 0, minor |-> 0, expr |-> s] \in RuleType
      BY DEF RuleType, MajorCodes, MinorCodes
    <3> QED
      BY <3>2
  <2>2. /\ ctxSet \in [Files -> BOOLEAN] /\ ctxName \in [Files -> BOOLEAN]
    BY Zenon DEF Init
  <2> QED
    BY <2>1, <2>2 DEF Init, TypeOK, Pointer, Locations, Operations, Statuses, Messages
<1>2. RefCountExact
  <2> SUFFICES ASSUME NEW r \in RuleIds
               PROVE  refs[r] = Cardinality(EntriesOf(r)) + Cardinality(HoldersOf(r))
                                   + Cardinality(ContextsOf(r))
    BY DEF RefCountExact
  <2>1. r # None
    BY NoneAssumption
  <2>2. EntriesOf(r) = {} /\ HoldersOf(r) = {} /\ ContextsOf(r) = {}
    BY <2>1 DEF Init, EntriesOf, HoldersOf, ContextsOf
  <2>3. refs[r] = 0
    BY DEF Init
  <2> QED
    BY <2>2, <2>3, FS_EmptySet
<1>3. Distinct(list)
  BY DEF Init, Distinct
<1>4. ThreadShape /\ FillingAlone /\ RuleInSetContext /\ BorrowedFromContext
      /\ AllocatedValid
  BY DEF Init, ThreadShape, FillingAlone, RuleInSetContext, BorrowedFromContext,
     AllocatedValid, HoldingAt, FillingAt
<1> QED
  BY <1>1, <1>2, <1>3, <1>4 DEF RefInv

\* No step breaks the invariant, whatever its thread and the others do.
LEMMA NextRefInv ==
    ASSUME RefInv, [Next]_vars
    PROVE  RefInv'
<1>1. CASE UNCHANGED vars
  <2>1. UNCHANGED <<list, rule, refs, writer, pc, op, file, name, found, held,
                    borrowed, status, ctxSet, ctxName, ctxRule, guarded, fault>>
    BY <1>1 DEF vars, threadVars, ctxVars
  <2>2. TypeOK'
    BY <2>1 DEF RefInv, TypeOK
  <2>3. RefCountExact' /\ Distinct(list)'
    BY <2>1, CountKept DEF RefInv
  <2>4. ThreadShape' /\ BorrowedFromContext' /\ AllocatedValid'
    BY <2>1 DEF RefInv, ThreadShape, BorrowedFromContext, AllocatedValid
  <2>5. FillingAlone' /\ RuleInSetContext'
    BY <2>1, ContextsKept DEF RefInv
  <2> QED
    BY <2>2, <2>3, <2>4, <2>5 DEF RefInv
<1>2. CASE BeginAddRules \/ BeginRemoveRules \/ BeginCleanup \/ WriterStep
  BY <1>2, WriterIdleStep, AddRuleStep, RemoveEntryStep DEF WriterStep
<1>3. ASSUME NEW t \in Threads, NEW f \in Files, PreCreate(t, f)
      PROVE  RefInv'
  BY <1>3, QuietSteps
<1>4. ASSUME NEW t \in Threads, NEW f \in Files,
             NEW o \in {"write", "setinfo", "fsctl", "rename"}, PreOperation(t, f, o)
      PROVE  RefInv'
  BY <1>4, QuietSteps
<1>5. ASSUME NEW t \in Threads, MatchRules(t) \/ ThreadStep(t)
      PROVE  RefInv'
  BY <1>5, QuietSteps, FinishSteps, ReferenceMatchStep, SetFileContextStep,
     FillNameStep, FillRuleStep DEF ThreadStep, CreateStep, EnforceStep
<1>6. ASSUME NEW f \in Files, CleanupFileContext(f)
      PROVE  RefInv'
  BY <1>6, CleanupFileContextStep
<1> QED
  BY <1>1, <1>2, <1>3, <1>4, <1>5, <1>6 DEF Next, Halted

\* RefInv is an invariant of the driver.
THEOREM RefInvariant == Spec => []RefInv
<1>1. Init => RefInv
  BY InitRefInv
<1>2. RefInv /\ [Next]_vars => RefInv'
  BY NextRefInv
<1> QED
  BY <1>1, <1>2, PTL DEF Spec

\* Every variable stays in its type; in particular no reference count ever
\* falls below zero.
THEOREM EnforcementTypeCorrect == Spec => []TypeOK
<1>1. RefInv => TypeOK
  BY DEF RefInv
<1> QED
  BY <1>1, RefInvariant, PTL

\* For any number of threads, files and rules, References of a rule is the
\* number of list entries, callbacks and file contexts that point to it.
THEOREM RefCountExactAlways == Spec => []RefCountExact
<1>1. RefInv => RefCountExact
  BY DEF RefInv
<1> QED
  BY <1>1, RefInvariant, PTL

\* A callback that uses fileContext->Rule without a reference of its own uses
\* allocated memory, whatever the messages and the other threads do.
THEOREM BorrowedRuleLiveAlways == Spec => []BorrowedRuleLive
<1>1. RefInv => BorrowedRuleLive
  <2> SUFFICES ASSUME RefInv, NEW t \in Threads, borrowed[t] # None
               PROVE  refs[borrowed[t]] > 0
    BY DEF BorrowedRuleLive
  <2>1. file[t] \in Files
    BY DEF RefInv, ThreadShape, TypeOK, Operations
  <2>2. borrowed[t] \in RuleIds /\ ctxRule[file[t]] = borrowed[t]
    BY DEF RefInv, BorrowedFromContext, TypeOK, Pointer
  <2>3. refs[borrowed[t]] \in Nat /\ refs[borrowed[t]] >= 1
    BY <2>1, <2>2, PointedToLive DEF RefInv
  <2> QED
    BY <2>3
<1> QED
  BY <1>1, RefInvariant, PTL

\* The name of a file context is there before its rule can be seen.
THEOREM ContextPublishedAlways == Spec => []ContextPublished
<1>1. RefInv => ContextPublished
  BY DEF RefInv, RuleInSetContext, ContextPublished
<1> QED
  BY <1>1, RefInvariant, PTL

-----------------------------------------------------------------------------
(* What the callbacks let through: the inductive invariant.                *)

\* Where an open has been let through to the file system.
PassedAt == {"filesystem", "setctx", "fillname", "fillrule", "finish"}

\* Only an open under a read-only rule is let through.
PassedReadonly ==
    \A t \in Threads : pc[t] \in PassedAt => rule[held[t]].major = RuleMajorReadonly

\* A context has its rule unless a thread is about to fill it in.
ContextFilled ==
    \A f \in Files : ctxSet[f] =>
        \/ ctxRule[f] # None
        \/ \E t \in Threads : file[t] = f /\ pc[t] \in FillingAt

\* Files opened under a rule have a context, and it stays while an open is
\* about to return.
GuardedSet ==
    /\ \A f \in guarded : ctxSet[f]
    /\ \A t \in Threads : pc[t] = "finish" => ctxSet[file[t]]

\* No two rules of the list are the same up to case.
ListRulesDiffer ==
    \A r, s \in Range(list) : SameRule(rule[r], rule[s]) => r = s

\* Once the rule found in the context has been looked at, the operation is
\* refused, and remains so.
RefusedSoFar ==
    \A t \in Threads : borrowed[t] # None /\ pc[t] # "enforce" => status[t] # "passed"

PolicyInv ==
    /\ PassedReadonly
    /\ ContextOnlyReadonly
    /\ ContextFilled
    /\ GuardedSet
    /\ ListRulesDiffer
    /\ RefusedSoFar

-----------------------------------------------------------------------------
(* Facts about rules.                                                      *)

\* The rules that threads and contexts refer to are allocated.
LEMMA PointersLive ==
    ASSUME RefInv
    PROVE  /\ \A t \in Threads : held[t] # None =>
                 held[t] \in RuleIds /\ refs[held[t]] # 0
           /\ \A f \in Files : ctxRule[f] # None =>
                 ctxRule[f] \in RuleIds /\ refs[ctxRule[f]] # 0
           /\ \A r \in Range(list) : r \in RuleIds /\ refs[r] # 0
<1>1. TypeOK /\ RefCountExact
  BY DEF RefInv
<1>2. ASSUME NEW t \in Threads, held[t] # None
      PROVE  held[t] \in RuleIds /\ refs[held[t]] # 0
  <2>1. held[t] \in RuleIds
    BY <1>1, <1>2 DEF TypeOK, Pointer
  <2> QED
    BY <1>1, <2>1, PointedToLive
<1>3. ASSUME NEW f \in Files, ctxRule[f] # None
      PROVE  ctxRule[f] \in RuleIds /\ refs[ctxRule[f]] # 0
  <2>1. ctxRule[f] \in RuleIds
    BY <1>1, <1>3 DEF TypeOK, Pointer
  <2> QED
    BY <1>1, <2>1, PointedToLive
<1>4. ASSUME NEW r \in Range(list)
      PROVE  r \in RuleIds /\ refs[r] # 0
  <2>1. r \in RuleIds
    BY <1>1 DEF TypeOK, Range
  <2> QED
    BY <1>1, <2>1, PointedToLive
<1> QED
  BY <1>2, <1>3, <1>4

\* A step changes no rule that is allocated.
LEMMA AllocatedRuleKept ==
    ASSUME RefInv, [Next]_vars, NEW r \in RuleIds, refs[r] # 0
    PROVE  rule'[r] = rule[r]
<1>1. CASE AddRule
  <2>1. PICK s \in RuleIds : Fresh(s) /\ CreateRule(s)
    BY <1>1 DEF AddRule
  <2>2. r # s
    BY <2>1 DEF Fresh
  <2> QED
    BY <2>1, <2>2 DEF CreateRule, RefInv, TypeOK
<1>2. CASE ~ AddRule
  <2>1. UNCHANGED rule
    BY <1>2 DEF Next, vars, Halted, BeginAddRules, BeginRemoveRules, BeginCleanup,
       AcquireExclusive, WriterStep, SkipRule, CreateRuleFails, RemoveRule,
       NothingToRemove, CleanupRule, ReleaseExclusive, PreCreate, PreOperation,
       MatchRules, ThreadStep, ReferenceMatch, ReferenceFreedEntry, CreateStep,
       RefuseCreate, PassCreate, CreateFails, FileContextFound,
       AllocateFileContext, SetFileContext, SetFileContextFails,
       FileContextAlreadyDefined, CompareUnfilledContext, FillName, FillRule,
       FinishCreate, EnforceStep, Enforce, EnforceRenameSource,
       RenameDestination, EnforceRenameDestination, Return, CleanupFileContext
  <2> QED
    BY <2>1
<1> QED
  BY <1>1, <1>2

\* SameRule is an equivalence, and creating a rule stays within its class.
LEMMA SameRuleProperties ==
    ASSUME NEW a \in RuleType, NEW b \in RuleType
    PROVE  /\ SameRule(a, b) <=> SameRule(b, a)
           /\ NewRule(a) \in RuleType
           /\ SameRule(NewRule(a), b) <=> SameRule(a, b)
           /\ SameRule(b, NewRule(a)) <=> SameRule(b, a)
<1>1. a.expr \in Strings /\ Upcase[a.expr] \in Strings
      /\ Upcase[Upcase[a.expr]] = Upcase[a.expr]
  BY UpcaseAssumption DEF RuleType
<1>2. /\ NewRule(a).major = a.major /\ NewRule(a).minor = a.minor
      /\ NewRule(a).expr = Upcase[a.expr] /\ NewRule(a) \in RuleType
  BY <1>1 DEF NewRule, RuleType
<1> QED
  BY <1>1, <1>2 DEF SameRule, CodeValue

-----------------------------------------------------------------------------
(* The steps.                                                              *)

\* A step that leaves the threads and the contexts alone.
LEMMA ThreadsKept ==
    ASSUME RefInv, PolicyInv, [Next]_vars, UNCHANGED <<threadVars, ctxVars>>
    PROVE  /\ PassedReadonly' /\ ContextOnlyReadonly' /\ ContextFilled'
           /\ GuardedSet' /\ RefusedSoFar'
<1>1. /\ UNCHANGED <<pc, op, file, name, found, held, borrowed, status>>
      /\ UNCHANGED <<ctxSet, ctxName, ctxRule, guarded>>
  BY DEF threadVars, ctxVars
<1>2. ASSUME NEW t \in Threads, pc[t] \in PassedAt
      PROVE  rule'[held[t]] = rule[held[t]]
  <2>1. held[t] # None
    BY <1>2 DEF PassedAt, RefInv, ThreadShape, HoldingAt
  <2> QED
    BY <2>1, PointersLive, AllocatedRuleKept
<1>3. ASSUME NEW f \in Files, ctxRule[f] # None
      PROVE  rule'[ctxRule[f]] = rule[ctxRule[f]]
  BY <1>3, PointersLive, AllocatedRuleKept
<1>4. PassedReadonly'
  BY <1>1, <1>2 DEF PolicyInv, PassedReadonly
<1>5. ContextOnlyReadonly'
  BY <1>1, <1>3 DEF PolicyInv, ContextOnlyReadonly
<1>6. ContextFilled' /\ GuardedSet' /\ RefusedSoFar'
  BY <1>1 DEF PolicyInv, ContextFilled, GuardedSet, RefusedSoFar
<1> QED
  BY <1>4, <1>5, <1>6

\* The rule that AddRule links differs from those in the list, because it was
\* looked for there under the lock.
LEMMA AddRulePolicy ==
    ASSUME RefInv, PolicyInv, [Next]_vars, AddRule
    PROVE  PolicyInv'
<1>1. UNCHANGED <<threadVars, ctxVars>>
  BY DEF AddRule
<1> DEFINE user == Head(writer.todo)
<1>2. PICK r \in RuleIds : Fresh(r) /\ CreateRule(r) /\ list' = <<r>> \o list
  BY DEF AddRule
<1>3. /\ list \in Seq(RuleIds) /\ Distinct(list) /\ rule \in [RuleIds -> RuleType]
      /\ user \in RuleType
  <2>1. writer.todo \in Seq(UserRules) /\ writer.todo # <<>>
    BY DEF AddRule, RefInv, TypeOK
  <2>2. user \in UserRules
    BY <2>1
  <2> QED
    BY <2>2, UserRulesAssumption DEF RefInv, TypeOK
<1>4. r \notin Range(list)
  BY <1>2, FreePointedToByNone DEF Fresh, RefInv
<1>5. Range(list') = {r} \cup Range(list)
  BY <1>2, <1>3, <1>4, PushFront
<1>6. rule'[r] = NewRule(user)
  BY <1>2, <1>3 DEF CreateRule
<1>7. \A s \in Range(list) : s \in RuleIds /\ rule[s] \in RuleType /\ rule'[s] = rule[s]
  BY <1>3, PointersLive, AllocatedRuleKept
<1>8. \A s \in Range(list) : ~ SameRule(user, rule[s])
  BY DEF AddRule, InList
<1>9. \A s \in Range(list) :
         ~ SameRule(NewRule(user), rule[s]) /\ ~ SameRule(rule[s], NewRule(user))
  BY <1>3, <1>7, <1>8, SameRuleProperties
<1>10. ListRulesDiffer'
  <2> SUFFICES ASSUME NEW a \in {r} \cup Range(list), NEW b \in {r} \cup Range(list),
                      SameRule(rule'[a], rule'[b])
               PROVE  a = b
    BY <1>5 DEF ListRulesDiffer, SameRule, CodeValue
  <2>1. CASE a \in Range(list) /\ b \in Range(list)
    BY <1>7, <2>1 DEF PolicyInv, ListRulesDiffer
  <2> QED
    BY <1>6, <1>7, <1>9, <2>1
<1> QED
  BY <1>1, <1>10, ThreadsKept DEF PolicyInv

\* The other steps of the handlers take rules away or change no rule.
LEMMA WriterPolicy ==
    ASSUME RefInv, PolicyInv, [Next]_vars,
           BeginAddRules \/ BeginRemoveRules \/ BeginCleanup \/ WriterStep
    PROVE  PolicyInv'
<1>1. CASE AddRule
  BY <1>1, AddRulePolicy
<1>2. CASE RemoveRule \/ CleanupRule
  <2>1. UNCHANGED <<rule, threadVars, ctxVars>>
    BY <1>2 DEF RemoveRule, CleanupRule
  <2>2. list \in Seq(RuleIds) /\ Distinct(list)
    BY DEF RefInv, TypeOK
  <2>3. PICK i \in DOMAIN list :
           list' = SubSeq(list, 1, i - 1) \o SubSeq(list, i + 1, Len(list))
    <3>1. CASE RemoveRule
      BY <3>1 DEF RemoveRule, RemoveEntry
    <3>2. CASE CleanupRule
      <4>1. 1 \in DOMAIN list
        BY <2>2, <3>2 DEF CleanupRule
      <4> QED
        BY <3>2, <4>1 DEF CleanupRule, RemoveEntry
    <3> QED
      BY <1>2, <3>1, <3>2
  <2>4. Range(list') \subseteq Range(list)
    BY <2>2, <2>3, RemoveAt
  <2>5. ListRulesDiffer'
    BY <2>1, <2>4 DEF PolicyInv, ListRulesDiffer
  <2> QED
    BY <2>1, <2>5, ThreadsKept DEF PolicyInv
<1>3. CASE \/ BeginAddRules \/ BeginRemoveRules \/ BeginCleanup
           \/ SkipRule \/ CreateRuleFails \/ NothingToRemove \/ ReleaseExclusive
  <2>1. UNCHANGED <<list, rule, threadVars, ctxVars>>
    BY <1>3 DEF BeginAddRules, BeginRemoveRules, BeginCleanup, AcquireExclusive,
       SkipRule, CreateRuleFails, NothingToRemove, ReleaseExclusive
  <2>2. ListRulesDiffer'
    BY <2>1 DEF PolicyInv, ListRulesDiffer
  <2> QED
    BY <2>1, <2>2, ThreadsKept DEF PolicyInv
<1> QED
  BY <1>1, <1>2, <1>3 DEF WriterStep

\* An open that a valid rule lets through was matched by a read-only rule.
LEMMA PassedVerdict ==
    ASSUME NEW r \in RuleType, VALID_RULE_CODE(r), NEW d, NEW exists,
           OpenVerdict(r, d, exists) = "passed"
    PROVE  r.major = RuleMajorReadonly
<1>1. r.major \in 0 .. 3 /\ r.major > 0 /\ r.major < 3
  BY DEF RuleType, MajorCodes, VALID_RULE_CODE, RuleMajorNone, RuleMajorMaximum
<1>2. r.major # RuleMajorAccessDenied
  BY DEF OpenVerdict
<1> QED
  BY <1>1, <1>2 DEF RuleMajorAccessDenied, RuleMajorReadonly

\* A rule that is not access denied decides for a refusal or leaves the
\* outcome as it is.
LEMMA OutcomeRefused ==
    ASSUME NEW r \in RuleType, NEW recorded, NEW s, NEW x \in Outcomes(recorded, r, s),
           r.major = RuleMajorReadonly \/ s # "passed"
    PROVE  x # "passed"
BY DEF Outcomes, Verdict, RuleMajorAccessDenied, RuleMajorReadonly

\* A step of a thread outside the locations where a context is set or filled:
\* it leaves the contexts alone, and may leave the file guarded if it has a
\* context.
LEMMA QuietPolicy ==
    ASSUME RefInv, PolicyInv, NEW t \in Threads,
           UNCHANGED <<list, rule, ctxSet, ctxName, ctxRule>>,
           guarded' \in {guarded, guarded \cup {file[t]}},
           guarded' = guarded \/ ctxSet[file[t]],
           NEW l \in Locations, pc' = [pc EXCEPT ![t] = l],
           pc[t] \notin FillingAt, l \notin FillingAt, l # "finish",
           \A u \in Threads \ {t} : /\ file'[u] = file[u]
                                    /\ held'[u] = held[u]
                                    /\ borrowed'[u] = borrowed[u]
                                    /\ status'[u] = status[u],
           l \in PassedAt => rule[held'[t]].major = RuleMajorReadonly,
           borrowed'[t] # None /\ l # "enforce" => status'[t] # "passed"
    PROVE  PolicyInv'
<1>1. pc \in [Threads -> Locations]
  BY DEF RefInv, TypeOK
<1>2. pc'[t] = l /\ \A u \in Threads \ {t} : pc'[u] = pc[u]
  BY <1>1
<1>3. PassedReadonly'
  BY <1>2 DEF PolicyInv, PassedReadonly
<1>4. ContextOnlyReadonly' /\ ListRulesDiffer'
  BY DEF PolicyInv, ContextOnlyReadonly, ListRulesDiffer
<1>5. ContextFilled'
  BY <1>2 DEF PolicyInv, ContextFilled
<1>6. GuardedSet'
  BY <1>2 DEF PolicyInv, GuardedSet
<1>7. RefusedSoFar'
  BY <1>2 DEF PolicyInv, RefusedSoFar
<1> QED
  BY <1>3, <1>4, <1>5, <1>6, <1>7 DEF PolicyInv

\* The steps that release the rule of an open, or of a rename's destination.
LEMMA FinishPolicy ==
    ASSUME RefInv, PolicyInv, NEW t \in Threads, NEW x, Finish(t, x),
           pc[t] \in {"decide", "filesystem", "setctx", "finish", "renamed"},
           pc[t] = "renamed" => x # "passed",
           UNCHANGED <<list, rule, file, borrowed, ctxSet, ctxName, ctxRule>>,
           guarded' \in {guarded, guarded \cup {file[t]}},
           guarded' = guarded \/ ctxSet[file[t]]
    PROVE  PolicyInv'
<1>1. /\ pc' = [pc EXCEPT ![t] = "done"]
      /\ held' = [held EXCEPT ![t] = None]
      /\ status' = [status EXCEPT ![t] = x]
  BY DEF Finish
<1>2. /\ held \in [Threads -> Pointer] /\ status \in [Threads -> Statuses]
      /\ "done" \in Locations
  BY DEF RefInv, TypeOK, Locations
<1>3. status'[t] = x
  BY <1>1, <1>2
<1>4. pc[t] # "renamed" => borrowed[t] = None
  BY DEF RefInv, ThreadShape, HoldingAt
<1>5. \A u \in Threads \ {t} : held'[u] = held[u] /\ status'[u] = status[u]
  BY <1>1, <1>2
<1> QED
  BY <1>1, <1>2, <1>3, <1>4, <1>5, QuietPolicy, ZenonT(40) DEF FillingAt, PassedAt

\* An open.
LEMMA CreatePolicy ==
    ASSUME RefInv, PolicyInv, NEW t \in Threads,
           \/ \E f \in Files : PreCreate(t, f)
           \/ RefuseCreate(t) \/ PassCreate(t)
           \/ CreateFails(t) \/ FileContextFound(t) \/ AllocateFileContext(t)
           \/ SetFileContextFails(t) \/ FileContextAlreadyDefined(t)
           \/ FinishCreate(t)
    PROVE  PolicyInv'
<1> USE DEF ctxVars
<1>0. /\ pc \in [Threads -> Locations] /\ status \in [Threads -> Statuses]
      /\ file \in [Threads -> Files \cup {None}]
  BY DEF RefInv, TypeOK
<1>1. CASE \E f \in Files : PreCreate(t, f)
  <2>1. PICK f \in Files : PreCreate(t, f)
    BY <1>1
  <2>2. PICK p \in {"lookup", "done"} : pc' = [pc EXCEPT ![t] = p]
    BY <2>1 DEF PreCreate
  <2>3. pc[t] = "idle" /\ borrowed[t] = None
    BY <2>1 DEF PreCreate, RefInv, ThreadShape
  <2>4. /\ UNCHANGED <<list, rule, ctxVars, held, borrowed>>
        /\ \A u \in Threads \ {t} : file'[u] = file[u] /\ status'[u] = status[u]
    BY <1>0, <2>1 DEF PreCreate
  <2> QED
    BY <2>2, <2>3, <2>4, QuietPolicy DEF FillingAt, PassedAt, Locations
<1>2. CASE RefuseCreate(t)
  <2>1. PICK x : Finish(t, x)
    BY <1>2 DEF RefuseCreate
  <2> QED
    BY <1>2, <2>1, FinishPolicy DEF RefuseCreate
<1>3. CASE PassCreate(t)
  <2>1. PICK d \in Dispositions, exists \in BOOLEAN :
           OpenVerdict(rule[held[t]], d, exists) = "passed"
    BY <1>3 DEF PassCreate
  <2>2. held[t] \in RuleIds /\ refs[held[t]] # 0
    BY <1>3, PointersLive DEF PassCreate, RefInv, ThreadShape, HoldingAt
  <2>3. rule[held[t]] \in RuleType /\ VALID_RULE_CODE(rule[held[t]])
    BY <2>2 DEF RefInv, TypeOK, AllocatedValid
  <2>4. rule[held[t]].major = RuleMajorReadonly
    BY <2>1, <2>3, PassedVerdict
  <2>5. borrowed[t] = None
    BY <1>3 DEF PassCreate, RefInv, ThreadShape, HoldingAt
  <2> QED
    BY <1>3, <2>4, <2>5, QuietPolicy DEF PassCreate, FillingAt, PassedAt, Locations
<1>4. CASE CreateFails(t)
  <2>1. PICK x : Finish(t, x)
    BY <1>4 DEF CreateFails
  <2> QED
    BY <1>4, <2>1, FinishPolicy DEF CreateFails
<1>5. CASE FileContextFound(t)
  BY <1>5, FinishPolicy DEF FileContextFound
<1>6. CASE AllocateFileContext(t)
  <2>1. borrowed[t] = None
    BY <1>6 DEF AllocateFileContext, RefInv, ThreadShape, HoldingAt
  <2>2. rule[held[t]].major = RuleMajorReadonly
    BY <1>6 DEF AllocateFileContext, PolicyInv, PassedReadonly, PassedAt
  <2> QED
    BY <1>6, <2>1, <2>2, QuietPolicy
    DEF AllocateFileContext, FillingAt, PassedAt, Locations
<1>7. CASE SetFileContextFails(t)
  BY <1>7, FinishPolicy DEF SetFileContextFails
<1>8. CASE FileContextAlreadyDefined(t)
  <2>1. Finish(t, "error") /\ UNCHANGED ctxRule
    BY <1>8, AlreadyDefinedFinishes DEF RefInv
  <2> QED
    BY <1>8, <2>1, FinishPolicy DEF FileContextAlreadyDefined
<1>9. CASE FinishCreate(t)
  <2>1. ctxSet[file[t]]
    BY <1>9 DEF FinishCreate, PolicyInv, GuardedSet
  <2> QED
    BY <1>9, <2>1, FinishPolicy DEF FinishCreate
<1> QED
  BY <1>1, <1>2, <1>3, <1>4, <1>5, <1>6, <1>7, <1>8, <1>9

\* Setting a file context: the thread that sets it is the one to fill it.
LEMMA SetFileContextPolicy ==
    ASSUME RefInv, PolicyInv, NEW t \in Threads, SetFileContext(t)
    PROVE  PolicyInv'
<1> DEFINE f == file[t]
<1>1. /\ pc \in [Threads -> Locations] /\ ctxSet \in [Files -> BOOLEAN]
      /\ f \in Files
  BY DEF SetFileContext, RefInv, TypeOK, ThreadShape
<1>2. /\ pc[t] = "setctx" /\ pc'[t] = "fillname"
      /\ \A u \in Threads \ {t} : pc'[u] = pc[u]
      /\ ctxSet'[f] /\ \A g \in Files : ctxSet[g] => ctxSet'[g]
      /\ \A g \in Files \ {f} : ctxSet'[g] = ctxSet[g]
      /\ UNCHANGED <<list, rule, file, held, borrowed, status, ctxRule, guarded>>
  BY <1>1 DEF SetFileContext
<1>3. PassedReadonly'
  BY <1>2 DEF PolicyInv, PassedReadonly, PassedAt
<1>4. ContextOnlyReadonly' /\ ListRulesDiffer'
  BY <1>2 DEF PolicyInv, ContextOnlyReadonly, ListRulesDiffer
<1>5. ContextFilled'
  <2> SUFFICES ASSUME NEW g \in Files, ctxSet'[g]
               PROVE  \/ ctxRule'[g] # None
                      \/ \E u \in Threads : file'[u] = g /\ pc'[u] \in FillingAt
    BY DEF ContextFilled
  <2>1. CASE g = f
    BY <1>2, <2>1 DEF FillingAt
  <2>2. CASE g # f
    <3>1. \/ ctxRule[g] # None
          \/ \E u \in Threads : file[u] = g /\ pc[u] \in FillingAt
      BY <1>2, <2>2 DEF PolicyInv, ContextFilled
    <3> QED
      BY <1>2, <3>1 DEF FillingAt
  <2> QED
    BY <2>1, <2>2
<1>6. GuardedSet'
  <2>1. guarded \subseteq Files /\ \A u \in Threads : pc[u] = "finish" => file[u] \in Files
    BY DEF RefInv, TypeOK, ThreadShape
  <2> QED
    BY <1>2, <2>1 DEF PolicyInv, GuardedSet
<1>7. RefusedSoFar'
  <2>1. borrowed[t] = None
    BY <1>2 DEF RefInv, ThreadShape, HoldingAt
  <2> QED
    BY <1>2, <2>1 DEF PolicyInv, RefusedSoFar
<1> QED
  BY <1>3, <1>4, <1>5, <1>6, <1>7 DEF PolicyInv

\* Its name.
LEMMA FillNamePolicy ==
    ASSUME RefInv, PolicyInv, NEW t \in Threads, FillName(t)
    PROVE  PolicyInv'
<1>1. pc \in [Threads -> Locations]
  BY DEF RefInv, TypeOK
<1>2. /\ pc[t] = "fillname" /\ pc'[t] = "fillrule"
      /\ \A u \in Threads \ {t} : pc'[u] = pc[u]
      /\ UNCHANGED <<list, rule, file, held, borrowed, status, ctxSet, ctxRule, guarded>>
  BY <1>1 DEF FillName
<1>3. PassedReadonly'
  BY <1>2 DEF PolicyInv, PassedReadonly, PassedAt
<1>4. ContextOnlyReadonly' /\ ListRulesDiffer'
  BY <1>2 DEF PolicyInv, ContextOnlyReadonly, ListRulesDiffer
<1>5. \A u \in Threads : pc[u] \in FillingAt => pc'[u] \in FillingAt
  BY <1>2 DEF FillingAt
<1>6. ContextFilled'
  BY <1>2, <1>5 DEF PolicyInv, ContextFilled
<1>7. GuardedSet' /\ RefusedSoFar'
  BY <1>2 DEF PolicyInv, GuardedSet, RefusedSoFar
<1> QED
  BY <1>3, <1>4, <1>6, <1>7 DEF PolicyInv

\* And its rule, which is a valid read-only one.
LEMMA FillRulePolicy ==
    ASSUME RefInv, PolicyInv, NEW t \in Threads, FillRule(t)
    PROVE  PolicyInv'
<1> DEFINE f == file[t]
           r == held[t]
<1>1. /\ pc \in [Threads -> Locations] /\ ctxRule \in [Files -> Pointer]
      /\ pc[t] = "fillrule" /\ f \in Files /\ ctxSet[f]
  BY DEF FillRule, RefInv, TypeOK, ThreadShape, FillingAlone, FillingAt
<1>2. r \in RuleIds /\ refs[r] # 0
  BY <1>1, PointersLive DEF RefInv, ThreadShape, HoldingAt
<1>3. /\ pc'[t] = "finish" /\ \A u \in Threads \ {t} : pc'[u] = pc[u]
      /\ ctxRule'[f] = r /\ \A g \in Files \ {f} : ctxRule'[g] = ctxRule[g]
      /\ UNCHANGED <<list, rule, file, held, borrowed, status, ctxSet, guarded>>
  BY <1>1 DEF FillRule
<1>4. rule[r].major = RuleMajorReadonly /\ rule[r].minor = RuleMinorMonitored
  <2>1. rule[r] \in RuleType /\ VALID_RULE_CODE(rule[r])
    BY <1>2 DEF RefInv, TypeOK, AllocatedValid
  <2>2. rule[r].minor \in 0 .. 2 /\ rule[r].minor > 0 /\ rule[r].minor < 2
    BY <2>1 DEF RuleType, MinorCodes, VALID_RULE_CODE, RuleMinorNone, RuleMinorMaximum
  <2>3. rule[r].major = RuleMajorReadonly
    BY <1>1 DEF PolicyInv, PassedReadonly, PassedAt
  <2> QED
    BY <2>2, <2>3 DEF RuleMinorMonitored
<1>5. PassedReadonly'
  BY <1>1, <1>3 DEF PolicyInv, PassedReadonly, PassedAt
<1>6. ContextOnlyReadonly' /\ ListRulesDiffer'
  BY <1>3, <1>4 DEF PolicyInv, ContextOnlyReadonly, ListRulesDiffer
<1>7. ContextFilled'
  BY <1>2, <1>3, NoneAssumption DEF PolicyInv, ContextFilled
<1>8. GuardedSet'
  BY <1>1, <1>3 DEF PolicyInv, GuardedSet
<1>9. RefusedSoFar'
  BY <1>1, <1>3 DEF PolicyInv, RefusedSoFar
<1> QED
  BY <1>5, <1>6, <1>7, <1>8, <1>9 DEF PolicyInv

\* The verdict of the rule in a context is a refusal.
LEMMA BorrowedRefuses ==
    ASSUME RefInv, PolicyInv, NEW t \in Threads, borrowed[t] # None, pc[t] # "idle",
           NEW s, NEW x \in Outcomes(rule[borrowed[t]], rule[borrowed[t]], s)
    PROVE  x # "passed"
<1>1. file[t] \in Files /\ ctxRule[file[t]] = borrowed[t] /\ borrowed[t] \in RuleIds
  BY DEF RefInv, TypeOK, Pointer, ThreadShape, BorrowedFromContext
<1>2. rule[borrowed[t]] \in RuleType /\ rule[borrowed[t]].major = RuleMajorReadonly
  BY <1>1 DEF RefInv, TypeOK, PolicyInv, ContextOnlyReadonly
<1> QED
  BY <1>2, OutcomeRefused

\* The callbacks of operations other than an open, and the lookup.
LEMMA OperationPolicy ==
    ASSUME RefInv, PolicyInv, NEW t \in Threads,
           \/ \E f \in Files, o \in {"write", "setinfo", "fsctl", "rename"} :
                 PreOperation(t, f, o)
           \/ MatchRules(t) \/ ReferenceMatch(t)
           \/ Enforce(t) \/ EnforceRenameSource(t) \/ RenameDestination(t)
           \/ EnforceRenameDestination(t) \/ Return(t)
    PROVE  PolicyInv'
<1> USE DEF ctxVars
<1>0. /\ pc \in [Threads -> Locations] /\ status \in [Threads -> Statuses]
      /\ file \in [Threads -> Files \cup {None}]
      /\ held \in [Threads -> Pointer] /\ borrowed \in [Threads -> Pointer]
  BY DEF RefInv, TypeOK
<1>1. CASE \E f \in Files, o \in {"write", "setinfo", "fsctl", "rename"} :
              PreOperation(t, f, o)
  <2>1. PICK f \in Files, o \in {"write", "setinfo", "fsctl", "rename"} :
           PreOperation(t, f, o)
    BY <1>1
  <2>2. pc[t] = "idle" /\ borrowed[t] = None
    BY <2>1 DEF PreOperation, RefInv, ThreadShape
  <2>3. PICK l \in {"done", "enforce"} :
           /\ pc' = [pc EXCEPT ![t] = l]
           /\ borrowed'[t] # None => l = "enforce"
    BY <1>0, <2>1, <2>2 DEF PreOperation
  <2>4. /\ UNCHANGED <<list, rule, ctxVars, held>>
        /\ \A u \in Threads \ {t} : /\ file'[u] = file[u] /\ status'[u] = status[u]
                                    /\ borrowed'[u] = borrowed[u]
    BY <1>0, <2>1 DEF PreOperation
  <2> QED
    BY <2>2, <2>3, <2>4, QuietPolicy DEF FillingAt, PassedAt, Locations
<1>2. CASE MatchRules(t)
  <2>1. /\ pc[t] = "lookup"
        /\ UNCHANGED <<list, rule, file, held, borrowed, status, ctxVars>>
    BY <1>2 DEF MatchRules
  <2>2. PICK l \in {"done", "reference"} : pc' = [pc EXCEPT ![t] = l]
    BY <1>2 DEF MatchRules
  <2>3. borrowed[t] # None => status[t] # "passed"
    BY <2>1 DEF PolicyInv, RefusedSoFar
  <2> QED
    BY <2>1, <2>2, <2>3, QuietPolicy DEF FillingAt, PassedAt, Locations
<1>3. CASE ReferenceMatch(t)
  <2>1. /\ pc[t] = "reference"
        /\ UNCHANGED <<list, rule, file, borrowed, status, ctxVars>>
        /\ \A u \in Threads \ {t} : held'[u] = held[u]
    BY <1>0, <1>3 DEF ReferenceMatch
  <2>2. PICK l \in {"decide", "renamed"} : pc' = [pc EXCEPT ![t] = l]
    BY <1>3 DEF ReferenceMatch
  <2>3. borrowed[t] # None => status[t] # "passed"
    BY <2>1 DEF PolicyInv, RefusedSoFar
  <2> QED
    BY <2>1, <2>2, <2>3, QuietPolicy DEF FillingAt, PassedAt, Locations
<1>4. CASE Enforce(t) \/ EnforceRenameSource(t)
  <2>1. /\ pc[t] = "enforce"
        /\ UNCHANGED <<list, rule, file, held, borrowed, ctxVars>>
    BY <1>4 DEF Enforce, EnforceRenameSource
  <2>2. PICK s \in Outcomes(rule[borrowed[t]], rule[borrowed[t]], status[t]) :
           status' = [status EXCEPT ![t] = s]
    BY <1>4 DEF Enforce, EnforceRenameSource
  <2>3. PICK l \in {"done", "rename"} : pc' = [pc EXCEPT ![t] = l]
    BY <1>4 DEF Enforce, EnforceRenameSource
  <2>4. borrowed[t] # None => status'[t] # "passed"
    BY <1>0, <2>1, <2>2, BorrowedRefuses
  <2>5. \A u \in Threads \ {t} : status'[u] = status[u]
    BY <1>0, <2>2
  <2> QED
    BY <2>1, <2>3, <2>4, <2>5, QuietPolicy DEF FillingAt, PassedAt, Locations
<1>5. CASE RenameDestination(t)
  <2>1. /\ pc[t] = "rename"
        /\ UNCHANGED <<list, rule, file, held, borrowed, ctxVars>>
    BY <1>5 DEF RenameDestination
  <2>2. PICK l \in {"done", "lookup"} : pc' = [pc EXCEPT ![t] = l]
    BY <1>5 DEF RenameDestination
  <2>3. /\ borrowed[t] # None => status'[t] # "passed"
        /\ \A u \in Threads \ {t} : status'[u] = status[u]
    BY <1>0, <1>5, <2>1 DEF RenameDestination, PolicyInv, RefusedSoFar
  <2> QED
    BY <2>1, <2>2, <2>3, QuietPolicy DEF FillingAt, PassedAt, Locations
<1>6. CASE EnforceRenameDestination(t)
  <2>1. PICK s \in Outcomes(rule[borrowed[t]], rule[held[t]], status[t]) : Finish(t, s)
    BY <1>6 DEF EnforceRenameDestination
  <2>2. pc[t] = "renamed"
    BY <1>6 DEF EnforceRenameDestination
  <2>3. held[t] \in RuleIds /\ rule[held[t]] \in RuleType
    BY <2>2, PointersLive DEF RefInv, TypeOK, ThreadShape, HoldingAt
  <2>4. borrowed[t] # None => s # "passed"
    BY <2>1, <2>2, <2>3, OutcomeRefused DEF PolicyInv, RefusedSoFar
  <2>5. /\ UNCHANGED <<list, rule, file, borrowed, ctxVars>>
        /\ pc' = [pc EXCEPT ![t] = "done"]
        /\ status'[t] = s
        /\ \A u \in Threads \ {t} : held'[u] = held[u] /\ status'[u] = status[u]
    BY <1>0, <1>6, <2>1 DEF EnforceRenameDestination, Finish
  <2> QED
    BY <2>2, <2>4, <2>5, QuietPolicy DEF FillingAt, PassedAt, Locations
<1>7. CASE Return(t)
  <2>1. /\ pc[t] = "done" /\ pc' = [pc EXCEPT ![t] = "idle"]
        /\ UNCHANGED <<list, rule, held, ctxVars>>
        /\ borrowed'[t] = None
        /\ \A u \in Threads \ {t} : /\ file'[u] = file[u] /\ status'[u] = status[u]
                                    /\ borrowed'[u] = borrowed[u]
    BY <1>0, <1>7 DEF Return
  <2> QED
    BY <2>1, QuietPolicy DEF FillingAt, PassedAt, Locations
<1> QED
  BY <1>1, <1>2, <1>3, <1>4, <1>5, <1>6, <1>7

\* The file's last close takes its context and ends what was promised of it;
\* no open is then about to return.
LEMMA CleanupFileContextPolicy ==
    ASSUME RefInv, PolicyInv, NEW f \in Files, CleanupFileContext(f)
    PROVE  PolicyInv'
<1> USE DEF threadVars
<1>1. /\ ctxSet \in [Files -> BOOLEAN] /\ ctxRule \in [Files -> Pointer]
  BY DEF RefInv, TypeOK
<1>2. /\ UNCHANGED <<list, rule, threadVars>>
      /\ ~ ctxSet'[f] /\ ctxRule'[f] = None
      /\ \A g \in Files \ {f} : ctxSet'[g] = ctxSet[g] /\ ctxRule'[g] = ctxRule[g]
      /\ guarded' = guarded \ {f}
  BY <1>1 DEF CleanupFileContext
<1>3. PassedReadonly' /\ ListRulesDiffer' /\ RefusedSoFar'
  BY <1>2 DEF PolicyInv, PassedReadonly, ListRulesDiffer, RefusedSoFar
<1>4. ContextOnlyReadonly' /\ ContextFilled'
  BY <1>2 DEF PolicyInv, ContextOnlyReadonly, ContextFilled
<1>5. GuardedSet'
  <2>1. \A t \in Threads : pc[t] = "finish" => file[t] \in Files \ {f}
    BY DEF CleanupFileContext, InUse, RefInv, ThreadShape
  <2>2. guarded \subseteq Files
    BY DEF RefInv, TypeOK
  <2> QED
    BY <1>2, <2>1, <2>2 DEF PolicyInv, GuardedSet
<1> QED
  BY <1>3, <1>4, <1>5 DEF PolicyInv

-----------------------------------------------------------------------------
\* Initially there are no threads in a callback, no rules and no contexts.
LEMMA InitPolicy == Init => PolicyInv
<1> SUFFICES ASSUME Init PROVE PolicyInv
  OBVIOUS
<1>1. Range(list) = {}
  BY DEF Init, Range
<1>2. PassedReadonly /\ ContextOnlyReadonly /\ ContextFilled /\ GuardedSet /\ RefusedSoFar
  BY DEF Init, PassedReadonly, PassedAt, ContextOnlyReadonly, ContextFilled, GuardedSet,
         RefusedSoFar
<1>3. ListRulesDiffer
  BY <1>1 DEF ListRulesDiffer
<1> QED
  BY <1>2, <1>3 DEF PolicyInv

\* Every step keeps the invariant.
LEMMA NextPolicy ==
    ASSUME RefInv, PolicyInv, [Next]_vars
    PROVE  PolicyInv'
<1>1. CASE BeginAddRules \/ BeginRemoveRules \/ BeginCleanup \/ WriterStep
  BY <1>1, WriterPolicy
<1>2. ASSUME NEW t \in Threads, \E f \in Files : PreCreate(t, f)
      PROVE  PolicyInv'
  BY <1>2, CreatePolicy
<1>3. ASSUME NEW t \in Threads,
             \/ \E f \in Files, o \in {"write", "setinfo", "fsctl", "rename"} :
                   PreOperation(t, f, o)
             \/ MatchRules(t)
      PROVE  PolicyInv'
  BY <1>3, OperationPolicy
<1>4. ASSUME NEW t \in Threads, ThreadStep(t)
      PROVE  PolicyInv'
  <2>1. CASE CreateStep(t)
    <3>1. CASE CompareUnfilledContext(t)
      <4>1. UNCHANGED <<list, rule, threadVars, ctxVars>>
        BY <3>1 DEF CompareUnfilledContext
      <4>2. ListRulesDiffer'
        BY <4>1 DEF PolicyInv, ListRulesDiffer
      <4> QED
        BY <4>1, <4>2, ThreadsKept DEF PolicyInv
    <3> QED
      BY <2>1, <3>1, CreatePolicy, SetFileContextPolicy, FillNamePolicy, FillRulePolicy
      DEF CreateStep
  <2>2. CASE ReferenceFreedEntry(t)
    <3>1. UNCHANGED <<list, rule, threadVars, ctxVars>>
      BY <2>2 DEF ReferenceFreedEntry
    <3>2. ListRulesDiffer'
      BY <3>1 DEF PolicyInv, ListRulesDiffer
    <3> QED
      BY <3>1, <3>2, ThreadsKept DEF PolicyInv
  <2>3. CASE ReferenceMatch(t) \/ EnforceStep(t) \/ Return(t)
    BY <2>3, OperationPolicy DEF EnforceStep
  <2> QED
    BY <1>4, <2>1, <2>2, <2>3 DEF ThreadStep
<1>5. ASSUME NEW f \in Files, CleanupFileContext(f)
      PROVE  PolicyInv'
  BY <1>5, CleanupFileContextPolicy
<1>6. CASE UNCHANGED vars
  <2>1. UNCHANGED <<list, rule, threadVars, ctxVars>>
    BY <1>6 DEF vars
  <2>2. ListRulesDiffer'
    BY <2>1 DEF PolicyInv, ListRulesDiffer
  <2> QED
    BY <2>1, <2>2, ThreadsKept DEF PolicyInv
<1> QED
  BY <1>1, <1>2, <1>3, <1>4, <1>5, <1>6 DEF Next, Halted

-----------------------------------------------------------------------------
(* The theorems.                                                           *)

\* The policy invariant holds in every reachable state of the callbacks of
\* Operations.c and the message handlers of Rule.c.
THEOREM PolicyInvariant == Spec => []PolicyInv
<1>1. RefInv /\ PolicyInv /\ [Next]_vars => PolicyInv'
  BY NextPolicy
<1> QED
  BY <1>1, InitPolicy, RefInvariant, PTL DEF Spec

\* FgcAddRules never links a rule that the list has already, whatever its
\* spelling and however messages overlap.
THEOREM NoDuplicateRulesAlways == Spec => []NoDuplicateRules
<1>1. RefInv /\ PolicyInv => NoDuplicateRules
  <2> SUFFICES ASSUME RefInv, PolicyInv, NEW i \in DOMAIN list, NEW j \in DOMAIN list,
                      SameRule(rule[list[i]], rule[list[j]])
               PROVE  i = j
    BY DEF NoDuplicateRules
  <2>1. list[i] \in Range(list) /\ list[j] \in Range(list)
    BY DEF Range
  <2>2. list[i] = list[j]
    BY <2>1 DEF PolicyInv, ListRulesDiffer
  <2>3. DOMAIN list = 1 .. Len(list)
    BY DEF RefInv, TypeOK
  <2> QED
    BY <2>2, <2>3 DEF RefInv, Distinct
<1> QED
  BY <1>1, RefInvariant, PolicyInvariant, PTL

\* The rule in a file context is a monitored read-only one: FgcPreCreate
\* lets no open under another kind of rule through.
THEOREM ContextOnlyReadonlyAlways == Spec => []ContextOnlyReadonly
<1>1. PolicyInv => ContextOnlyReadonly
  BY DEF PolicyInv
<1> QED
  BY <1>1, PolicyInvariant, PTL

\* A file whose open was let through under a rule has a file context, with
\* its rule unless the thread that set it is filling it in.
THEOREM GuardedHasContextAlways == Spec => []GuardedHasContext
<1>1. RefInv /\ PolicyInv => GuardedHasContext
  <2> SUFFICES ASSUME RefInv, PolicyInv, NEW f \in guarded
               PROVE  /\ ctxSet[f]
                      /\ \/ ctxRule[f] # None
                         \/ \E t \in Threads : file[t] = f /\ pc[t] \in FillingAt
    BY DEF GuardedHasContext, FillingAt
  <2>1. f \in Files /\ ctxSet[f]
    BY DEF RefInv, TypeOK, PolicyInv, GuardedSet
  <2> QED
    BY <2>1 DEF PolicyInv, ContextFilled
<1> QED
  BY <1>1, RefInvariant, PolicyInvariant, PTL

\* A write, a change of information, a control request or a rename that found
\* a rule in the file context is refused when its callback returns.
THEOREM RestrictedOperationRefusedAlways == Spec => []RestrictedOperationRefused
<1>1. PolicyInv => RestrictedOperationRefused
  BY DEF PolicyInv, RefusedSoFar, RestrictedOperationRefused
<1> QED
  BY <1>1, PolicyInvariant, PTL
=============================================================================
