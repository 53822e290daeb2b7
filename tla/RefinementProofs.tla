-------------------------- MODULE RefinementProofs --------------------------
(***************************************************************************)
(* Enforcement implements RulesRegistry, for every set of threads, files,  *)
(* rules and allocations and for messages of any length: the theorem       *)
(* behind the refinement that EnforcementRefinement states.                *)
(***************************************************************************)
EXTENDS EnforcementRefinement, EnforcementProofs

-----------------------------------------------------------------------------
(* The inductive invariant: how far the handler that has the lock has got, *)
(* between the rules it found (visible) and the list as it is (Contents).  *)

\* The rules of a message as they are stored.
Made(bulk) == [i \in DOMAIN bulk |-> NewRule(bulk[i])]

\* The places up to n that bring a rule of their own, when s was in force.
NewsOf(bulk, n, s) ==
    {i \in 1 .. n :
        /\ VALID_RULE_CODE(bulk[i])
        /\ ~ Registry!Known(bulk[i], s)
        /\ \A j \in 1 .. (i - 1) :
              VALID_RULE_CODE(bulk[j]) => ~ SameRule(bulk[i], NewRule(bulk[j]))}

\* The handler has dealt with the first n rules of the message.
Remaining(bulk, n) ==
    /\ Len(writer.todo) = Len(bulk) - n
    /\ \A i \in 1 .. Len(writer.todo) : writer.todo[i] = bulk[n + i]

\* AddRules: the news among them are in front of the rules it found, and each
\* valid one has its like in the list.
AddedSoFar(bulk, n) ==
    /\ writer.todo = <<>> \/ Remaining(bulk, n)
    /\ \E k \in 0 .. n : \E new \in [1 .. k -> {Made(bulk)[i] : i \in 1 .. n}] :
          /\ Registry!Selects(Registry!Reverse(new), Made(bulk), NewsOf(bulk, n, visible))
          /\ Contents = new \o visible
    /\ \A j \in 1 .. n : VALID_RULE_CODE(bulk[j]) =>
          \E i \in DOMAIN list : SameRule(bulk[j], rule[list[i]])

\* RemoveRules: what is left is a selection of the rules it found, without
\* those it has dealt with and with all those the message does not name.
KeptSoFar(bulk, n) ==
    /\ Remaining(bulk, n)
    /\ Len(list) <= Len(visible)
    /\ \E P \in SUBSET DOMAIN visible :
          /\ Registry!Selects(Contents, visible, P)
          /\ \A i \in DOMAIN visible : ~ Registry!Known(visible[i], bulk) => i \in P
          /\ \A i \in P, j \in 1 .. n : ~ SameRule(bulk[j], visible[i])

WriterProgress ==
    /\ writer.op = "none" => visible = Contents
    /\ writer.op = "add" =>
          \E bulk \in Bulks : \E n \in 0 .. Len(bulk) : AddedSoFar(bulk, n)
    /\ writer.op = "remove" =>
          \E bulk \in Bulks : \E n \in 0 .. Len(bulk) : KeptSoFar(bulk, n)

\* A thread has an entry in hand only between the walk and its reference, and
\* looks for a name it has.
LookupShape ==
    \A t \in Threads :
        /\ found[t] # None => pc[t] = "reference"
        /\ pc[t] = "lookup" => name[t] # None

HistoryInv ==
    /\ visible \in Seq(RuleType)
    /\ WriterProgress
    /\ LookupShape

-----------------------------------------------------------------------------
(* Selections from a sequence.                                             *)

\* Positions that rise, reach all of P and say where each element is from.
LEMMA SelectsBy ==
    ASSUME NEW n, NEW t, DOMAIN t = 1 .. n, NEW s, NEW P,
           \E at \in [1 .. n -> P] :
              /\ \A i, j \in 1 .. n : i < j => at[i] < at[j]
              /\ \A p \in P : \E i \in 1 .. n : at[i] = p
              /\ \A i \in 1 .. n : t[i] = s[at[i]]
    PROVE  Registry!Selects(t, s, P)
BY ZenonT(40) DEF Registry!Selects

\* One more element is selected, behind the others, and put in front of a
\* sequence that has them in reverse.
LEMMA SelectsGrows ==
    ASSUME NEW k \in Nat, NEW new, new \in Seq(RuleType), Len(new) = k,
           NEW s, NEW P, P \subseteq Int,
           Registry!Selects(Registry!Reverse(new), s, P),
           NEW m \in Int, \A p \in P : p < m, s[m] \in RuleType
    PROVE  Registry!Selects(Registry!Reverse(<<s[m]>> \o new), s, P \cup {m})
<1> DEFINE x == s[m]
           new2 == <<x>> \o new
           t == Registry!Reverse(new)
           u == Registry!Reverse(new2)
<1>1. /\ new2 \in Seq(RuleType) /\ Len(new2) = k + 1
      /\ \A i \in 1 .. k + 1 : new2[i] = IF i = 1 THEN x ELSE new[i - 1]
  <2>1. <<x>> \in Seq(RuleType) /\ Len(<<x>>) = 1 /\ <<x>>[1] = x
    OBVIOUS
  <2>2. /\ new2 \in Seq(RuleType) /\ Len(new2) = 1 + k
        /\ \A i \in 1 .. 1 + k : new2[i] = IF i <= 1 THEN <<x>>[i] ELSE new[i - 1]
    BY <2>1, ConcatProperties
  <2> HIDE DEF new2, x
  <2> QED
    BY <2>1, <2>2
<1> HIDE DEF new2
<1>2. t = [i \in 1 .. k |-> new[(k - i) + 1]]
  BY DEF Registry!Reverse
<1>3. u = [i \in 1 .. k + 1 |-> new2[(k + 1 - i) + 1]]
  BY <1>1 DEF Registry!Reverse
<1> HIDE DEF t, u
<1>4. \A i \in 1 .. k + 1 : u[i] = IF i = k + 1 THEN x ELSE t[i]
  <2> SUFFICES ASSUME NEW i \in 1 .. k + 1
               PROVE  u[i] = IF i = k + 1 THEN x ELSE t[i]
    OBVIOUS
  <2>1. (k + 1 - i) + 1 \in 1 .. k + 1 /\ u[i] = new2[(k + 1 - i) + 1]
    BY <1>3
  <2>2. CASE i = k + 1
    BY <1>1, <2>1, <2>2
  <2>3. CASE i # k + 1
    <3>1. i \in 1 .. k /\ (k + 1 - i) + 1 # 1 /\ ((k + 1 - i) + 1) - 1 = (k - i) + 1
      BY <2>3
    <3> QED
      BY <1>1, <1>2, <2>1, <2>3, <3>1
  <2> QED
    BY <2>2, <2>3
<1>5. DOMAIN t = 1 .. k /\ DOMAIN u = 1 .. k + 1
  BY <1>2, <1>3
<1>6. PICK at \in [1 .. k -> P] :
         /\ \A i, j \in 1 .. k : i < j => at[i] < at[j]
         /\ \A p \in P : \E i \in 1 .. k : at[i] = p
         /\ \A i \in 1 .. k : t[i] = s[at[i]]
  BY <1>5 DEF Registry!Selects, t
<1> DEFINE to == [i \in 1 .. k + 1 |-> IF i = k + 1 THEN m ELSE at[i]]
<1>7. to \in [1 .. k + 1 -> P \cup {m}]
  BY <1>6
<1>8. \A i, j \in 1 .. k + 1 : i < j => to[i] < to[j]
  <2> SUFFICES ASSUME NEW i \in 1 .. k + 1, NEW j \in 1 .. k + 1, i < j
               PROVE  to[i] < to[j]
    OBVIOUS
  <2>1. i \in 1 .. k /\ to[i] = at[i] /\ at[i] \in P
    BY <1>6
  <2>2. CASE j = k + 1
    BY <2>1, <2>2
  <2>3. CASE j # k + 1
    BY <1>6, <2>1, <2>3
  <2> QED
    BY <2>2, <2>3
<1>9. \A p \in P \cup {m} : \E i \in 1 .. k + 1 : to[i] = p
  <2>1. to[k + 1] = m /\ k + 1 \in 1 .. k + 1
    OBVIOUS
  <2>2. ASSUME NEW p \in P PROVE \E i \in 1 .. k + 1 : to[i] = p
    <3>1. PICK i \in 1 .. k : at[i] = p
      BY <1>6
    <3>2. i \in 1 .. k + 1 /\ to[i] = p
      BY <3>1
    <3> QED
      BY <3>2
  <2> QED
    BY <2>1, <2>2
<1>10. \A i \in 1 .. k + 1 : u[i] = s[to[i]]
  BY <1>4, <1>6
<1> HIDE DEF to
<1>11. Registry!Selects(u, s, P \cup {m})
  <2>1. \E f \in [1 .. k + 1 -> P \cup {m}] :
           /\ \A i, j \in 1 .. k + 1 : i < j => f[i] < f[j]
           /\ \A p \in P \cup {m} : \E i \in 1 .. k + 1 : f[i] = p
           /\ \A i \in 1 .. k + 1 : u[i] = s[f[i]]
    BY <1>7, <1>8, <1>9, <1>10
  <2> QED
    BY <1>5, <2>1, SelectsBy, ZenonT(40)
<1> QED
  BY <1>11 DEF u, new2, x

\* u has the m elements of t but the one at i.
Drops(u, t, m, i) ==
    /\ DOMAIN t = 1 .. m /\ DOMAIN u = 1 .. m - 1
    /\ \A k \in 1 .. m - 1 : u[k] = IF k < i THEN t[k] ELSE t[k + 1]

\* u selects what t does, but for one place that t[i] is from.
SelectsLess(u, t, i, s, P) ==
    \E p \in P : t[i] = s[p] /\ Registry!Selects(u, s, P \ {p})

\* The element at i is taken away.
LEMMA SelectsShrinks ==
    ASSUME NEW m, m \in Nat, NEW t, NEW u, NEW i, i \in 1 .. m, Drops(u, t, m, i),
           NEW s, NEW P, P \subseteq Int, Registry!Selects(t, s, P)
    PROVE  SelectsLess(u, t, i, s, P)
<1>0. /\ DOMAIN t = 1 .. m /\ DOMAIN u = 1 .. m - 1
      /\ \A k \in 1 .. m - 1 : u[k] = IF k < i THEN t[k] ELSE t[k + 1]
  BY DEF Drops
<1>1. PICK at \in [1 .. m -> P] :
         /\ \A j, k \in 1 .. m : j < k => at[j] < at[k]
         /\ \A p \in P : \E k \in 1 .. m : at[k] = p
         /\ \A k \in 1 .. m : t[k] = s[at[k]]
  BY <1>0, SMTT(30) DEF Registry!Selects
<1>2. \A k \in 1 .. m : at[k] \in Int
  BY <1>1
<1>3. \A j, k \in 1 .. m : at[j] = at[k] => j = k
  <2> SUFFICES ASSUME NEW j \in 1 .. m, NEW k \in 1 .. m, at[j] = at[k], j # k
               PROVE  FALSE
    OBVIOUS
  <2>1. j < k \/ k < j
    OBVIOUS
  <2> QED
    BY <1>1, <1>2, <2>1
<1> DEFINE up(k) == IF k < i THEN k ELSE k + 1
           to == [k \in 1 .. m - 1 |-> at[up(k)]]
<1>4. \A k \in 1 .. m - 1 : up(k) \in 1 .. m /\ up(k) # i
  OBVIOUS
<1>5. to \in [1 .. m - 1 -> P \ {at[i]}]
  BY <1>1, <1>3, <1>4
<1>6. \A j, k \in 1 .. m - 1 : j < k => to[j] < to[k]
  <2> SUFFICES ASSUME NEW j \in 1 .. m - 1, NEW k \in 1 .. m - 1, j < k
               PROVE  to[j] < to[k]
    OBVIOUS
  <2>1. up(j) < up(k)
    OBVIOUS
  <2> QED
    BY <1>1, <1>4, <2>1
<1>7. \A p \in P \ {at[i]} : \E k \in 1 .. m - 1 : to[k] = p
  <2> SUFFICES ASSUME NEW p \in P, p # at[i]
               PROVE  \E k \in 1 .. m - 1 : to[k] = p
    OBVIOUS
  <2>1. PICK j \in 1 .. m : at[j] = p
    BY <1>1
  <2>2. j # i
    BY <2>1
  <2>3. CASE j < i
    <3>1. j \in 1 .. m - 1 /\ up(j) = j
      BY <2>3
    <3> QED
      BY <2>1, <3>1
  <2>4. CASE j > i
    <3>1. j - 1 \in 1 .. m - 1 /\ up(j - 1) = j
      BY <2>4
    <3> QED
      BY <2>1, <3>1
  <2> QED
    BY <2>2, <2>3, <2>4
<1>8. \A k \in 1 .. m - 1 : u[k] = s[to[k]]
  BY <1>0, <1>1, <1>4
<1> HIDE DEF to
<1>9. Registry!Selects(u, s, P \ {at[i]})
  <2> DEFINE Q == P \ {at[i]}
             l == m - 1
  <2>1. /\ to \in [1 .. l -> Q]
        /\ \A j, k \in 1 .. l : j < k => to[j] < to[k]
        /\ \A p \in Q : \E k \in 1 .. l : to[k] = p
        /\ \A k \in 1 .. l : u[k] = s[to[k]]
    BY <1>5, <1>6, <1>7, <1>8
  <2>2. DOMAIN u = 1 .. l
    BY <1>0
  <2> HIDE DEF Q, l
  <2>3. Registry!Selects(u, s, Q)
    BY <2>1, <2>2, SelectsBy
  <2> QED
    BY <2>3 DEF Q
<1> QED
  BY <1>1, <1>9 DEF SelectsLess

-----------------------------------------------------------------------------
(* Messages, and the contents of the list.                                 *)

\* A function on 1 .. n is a sequence.
LEMMA FunctionIsSeq ==
    ASSUME NEW S, NEW n \in Nat, NEW f \in [1 .. n -> S]
    PROVE  f \in Seq(S) /\ Len(f) = n
OBVIOUS

\* A message is a sequence of rules.
LEMMA BulkSeq ==
    ASSUME NEW bulk \in Bulks
    PROVE  /\ bulk \in Seq(UserRules) /\ Len(bulk) \in Nat /\ DOMAIN bulk = 1 .. Len(bulk)
           /\ \A i \in 1 .. Len(bulk) : bulk[i] \in RuleType
<1>1. PICK n \in 1 .. MaxBulk : bulk \in [1 .. n -> UserRules]
  BY DEF Bulks
<1>2. n \in Nat
  BY <1>1, MaxBulkAssumption
<1>3. bulk \in Seq(UserRules)
  BY <1>1, <1>2
<1> QED
  BY <1>3, UserRulesAssumption

\* The rules that a list l of entries stands for when the memory says r.
LEMMA ContentsOf ==
    ASSUME NEW l \in Seq(RuleIds), NEW r \in [RuleIds -> RuleType], NEW c,
           c = [i \in DOMAIN l |-> r[l[i]]]
    PROVE  /\ c \in Seq(RuleType) /\ Len(c) = Len(l) /\ DOMAIN c = 1 .. Len(l)
           /\ DOMAIN l = 1 .. Len(l) /\ Len(l) \in Nat
           /\ \A i \in 1 .. Len(l) : c[i] = r[l[i]] /\ l[i] \in RuleIds
<1>1. /\ DOMAIN l = 1 .. Len(l) /\ Len(l) \in Nat
      /\ \A i \in 1 .. Len(l) : l[i] \in RuleIds /\ r[l[i]] \in RuleType
  OBVIOUS
<1>2. c \in [1 .. Len(l) -> RuleType] /\ \A i \in 1 .. Len(l) : c[i] = r[l[i]]
  BY <1>1
<1>3. c \in Seq(RuleType) /\ Len(c) = Len(l)
  BY ONLY <1>1, <1>2, FunctionIsSeq
<1> QED
  BY <1>1, <1>2, <1>3

\* The contents now, and after a step.
LEMMA ContentsNow ==
    ASSUME TypeOK
    PROVE  /\ Contents \in Seq(RuleType) /\ Len(Contents) = Len(list)
           /\ DOMAIN Contents = 1 .. Len(list)
           /\ DOMAIN list = 1 .. Len(list) /\ Len(list) \in Nat
           /\ \A i \in 1 .. Len(list) : Contents[i] = rule[list[i]] /\ list[i] \in RuleIds
<1>1. list \in Seq(RuleIds) /\ rule \in [RuleIds -> RuleType]
  BY DEF TypeOK
<1>2. Contents = [i \in DOMAIN list |-> rule[list[i]]]
  BY DEF Contents
<1> QED
  BY ONLY <1>1, <1>2, ContentsOf

LEMMA ContentsNext ==
    ASSUME TypeOK'
    PROVE  /\ Contents' \in Seq(RuleType) /\ Len(Contents') = Len(list')
           /\ DOMAIN Contents' = 1 .. Len(list')
           /\ DOMAIN list' = 1 .. Len(list') /\ Len(list') \in Nat
           /\ \A i \in 1 .. Len(list') : Contents'[i] = rule'[list'[i]]
<1>1. list' \in Seq(RuleIds) /\ rule' \in [RuleIds -> RuleType]
  BY DEF TypeOK
<1>2. Contents' = [i \in DOMAIN list' |-> rule'[list'[i]]]
  BY DEF Contents
<1> QED
  BY ONLY <1>1, <1>2, ContentsOf

\* The registry and the driver ask the same questions of a rule.
LEMMA SameQuestions ==
    ASSUME NEW a, NEW b
    PROVE  /\ Registry!SameRule(a, b) <=> SameRule(a, b)
           /\ Registry!NewRule(a) = NewRule(a)
           /\ Registry!VALID_RULE_CODE(a) <=> VALID_RULE_CODE(a)
           /\ Registry!NameInExpression(a, b) <=> NameInExpression(a, b)
           /\ Registry!Known(a, b) <=> \E i \in DOMAIN b : SameRule(a, b[i])
BY DEF Registry!SameRule, SameRule, Registry!CodeValue, CodeValue, Registry!NewRule,
   NewRule, Registry!VALID_RULE_CODE, VALID_RULE_CODE, Registry!RuleMajorNone,
   RuleMajorNone, Registry!RuleMajorMaximum, RuleMajorMaximum, Registry!RuleMinorNone,
   RuleMinorNone, Registry!RuleMinorMaximum, RuleMinorMaximum,
   Registry!NameInExpression, NameInExpression, Registry!Known

\* The list without the entry at i.
LEMMA WithoutAt ==
    ASSUME NEW S, NEW s \in Seq(S), NEW i \in DOMAIN s
    PROVE  LET q == SubSeq(s, 1, i - 1) \o SubSeq(s, i + 1, Len(s))
           IN  /\ q \in Seq(S) /\ Len(q) = Len(s) - 1
               /\ \A k \in 1 .. Len(s) - 1 : q[k] = IF k < i THEN s[k] ELSE s[k + 1]
<1> DEFINE a == SubSeq(s, 1, i - 1)
           b == SubSeq(s, i + 1, Len(s))
           q == a \o b
<1>1. Len(s) \in Nat /\ i \in 1 .. Len(s) /\ i \in Int
  OBVIOUS
<1>2. a \in Seq(S) /\ Len(a) = i - 1 /\ \A k \in 1 .. i - 1 : a[k] = s[k]
  BY <1>1, SubSeqProperties
<1>3. b \in Seq(S) /\ Len(b) = Len(s) - i /\ \A k \in 1 .. Len(s) - i : b[k] = s[i + k]
  BY <1>1, SubSeqProperties
<1>4. /\ q \in Seq(S) /\ Len(q) = Len(a) + Len(b)
      /\ \A k \in 1 .. Len(a) + Len(b) : q[k] = IF k <= Len(a) THEN a[k] ELSE b[k - Len(a)]
  BY ONLY <1>2, <1>3, ConcatProperties
<1> HIDE DEF a, b, q
<1>5. Len(a) + Len(b) = Len(s) - 1
  BY <1>1, <1>2, <1>3
<1>6. ASSUME NEW k \in 1 .. Len(s) - 1
      PROVE  q[k] = IF k < i THEN s[k] ELSE s[k + 1]
  <2>1. k \in Int /\ q[k] = IF k <= i - 1 THEN a[k] ELSE b[k - (i - 1)]
    BY <1>1, <1>2, <1>4, <1>5, SMTT(30)
  <2>2. CASE k < i
    BY <1>1, <1>2, <2>1, <2>2
  <2>3. CASE ~ (k < i)
    <3>1. k - (i - 1) \in 1 .. Len(s) - i /\ ~ (k <= i - 1) /\ i + (k - (i - 1)) = k + 1
      BY <1>1, <2>1, <2>3
    <3>2. b[k - (i - 1)] = s[i + (k - (i - 1))]
      BY <1>3, <3>1
    <3> QED
      BY <2>1, <2>3, <3>1, <3>2
  <2> QED
    BY <2>2, <2>3
<1> QED
  BY <1>4, <1>5, <1>6 DEF a, b, q

\* The handler goes on to the next rule of its message.
LEMMA TodoAdvances ==
    ASSUME TypeOK, NEW bulk \in Bulks, NEW n \in 0 .. Len(bulk), Remaining(bulk, n),
           writer.todo # <<>>
    PROVE  /\ n + 1 \in 0 .. Len(bulk) /\ n + 1 \in 1 .. Len(bulk)
           /\ Head(writer.todo) = bulk[n + 1]
           /\ writer'.todo = Tail(writer.todo) => Remaining(bulk, n + 1)'
<1> DEFINE todo == writer.todo
<1>1. todo \in Seq(UserRules) /\ Len(todo) \in Nat /\ Len(todo) >= 1
  BY DEF TypeOK
<1>2. Len(todo) = Len(bulk) - n /\ \A i \in 1 .. Len(todo) : todo[i] = bulk[n + i]
  BY DEF Remaining
<1>3. Len(bulk) \in Nat
  BY BulkSeq
<1>4. Head(todo) = todo[1] /\ Len(Tail(todo)) = Len(todo) - 1
      /\ \A i \in 1 .. Len(todo) - 1 : Tail(todo)[i] = todo[i + 1]
  BY <1>1
<1> HIDE DEF todo
<1>5. n + 1 \in 1 .. Len(bulk) /\ 1 \in 1 .. Len(todo)
  BY <1>1, <1>2, <1>3
<1>6. ASSUME writer'.todo = Tail(todo)
      PROVE  Remaining(bulk, n + 1)'
  <2>1. Len(writer'.todo) = Len(bulk) - (n + 1)
    BY <1>1, <1>2, <1>3, <1>4, <1>6
  <2>2. ASSUME NEW i \in 1 .. Len(writer'.todo)
        PROVE  writer'.todo[i] = bulk[(n + 1) + i]
    <3>1. i \in 1 .. Len(todo) - 1 /\ i + 1 \in 1 .. Len(todo)
      BY <1>1, <1>4, <1>6
    <3>2. n + (i + 1) = (n + 1) + i
      BY <3>1
    <3> QED
      BY <1>2, <1>4, <1>6, <3>1, <3>2
  <2> QED
    BY <2>1, <2>2 DEF Remaining
<1> QED
  BY <1>2, <1>4, <1>5, <1>6 DEF todo

\* A further rule of the message adds its place to the news, or does not.
LEMMA NewsNext ==
    ASSUME NEW bulk, NEW n \in Nat, NEW s
    PROVE  NewsOf(bulk, n + 1, s) =
              IF n + 1 \in NewsOf(bulk, n + 1, s) THEN NewsOf(bulk, n, s) \cup {n + 1}
                                                  ELSE NewsOf(bulk, n, s)
BY DEF NewsOf

\* What was added is a sequence of rules.
LEMMA NewIsSeq ==
    ASSUME NEW bulk \in Bulks, NEW n \in Nat, n <= Len(bulk), NEW k \in 0 .. n,
           NEW new \in [1 .. k -> {Made(bulk)[i] : i \in 1 .. n}]
    PROVE  new \in Seq(RuleType) /\ Len(new) = k
<1>1. /\ Len(bulk) \in Nat /\ DOMAIN bulk = 1 .. Len(bulk)
      /\ \A i \in 1 .. Len(bulk) : bulk[i] \in RuleType
  BY BulkSeq
<1>2. \A i \in 1 .. Len(bulk) : Made(bulk)[i] \in RuleType
  BY <1>1, SameRuleProperties DEF Made
<1>3. ASSUME NEW i \in 1 .. k PROVE new[i] \in RuleType
  <2>1. PICK j \in 1 .. n : new[i] = Made(bulk)[j]
    OBVIOUS
  <2>2. j \in 1 .. Len(bulk)
    BY <1>1
  <2> QED
    BY <1>2, <2>1, <2>2
<1>4. k \in Nat /\ new \in [1 .. k -> RuleType]
  BY <1>3
<1> QED
  BY ONLY <1>4, FunctionIsSeq

\* A rule that is news is put in front of those before it.
LEMMA NewsAdded ==
    ASSUME NEW bulk \in Bulks, NEW n \in Nat, n + 1 \in 1 .. Len(bulk), NEW s,
           NEW k \in 0 .. n, NEW new \in [1 .. k -> {Made(bulk)[i] : i \in 1 .. n}],
           Registry!Selects(Registry!Reverse(new), Made(bulk), NewsOf(bulk, n, s)),
           n + 1 \in NewsOf(bulk, n + 1, s)
    PROVE  LET new2 == <<NewRule(bulk[n + 1])>> \o new
           IN  /\ new \in Seq(RuleType)
               /\ new2 \in [1 .. k + 1 -> {Made(bulk)[i] : i \in 1 .. n + 1}]
               /\ Registry!Selects(Registry!Reverse(new2), Made(bulk),
                                   NewsOf(bulk, n + 1, s))
<1> DEFINE M == Made(bulk)
           x == NewRule(bulk[n + 1])
           new2 == <<x>> \o new
<1>1. /\ Len(bulk) \in Nat /\ DOMAIN bulk = 1 .. Len(bulk)
      /\ \A i \in 1 .. Len(bulk) : bulk[i] \in RuleType
  BY BulkSeq
<1>2. \A i \in 1 .. Len(bulk) : M[i] = NewRule(bulk[i]) /\ M[i] \in RuleType
  BY <1>1, SameRuleProperties DEF Made
<1>3. \A i \in 1 .. n + 1 : i \in 1 .. Len(bulk)
  BY <1>1
<1> HIDE DEF M
<1>4. k \in Nat /\ \A i \in 1 .. k : new[i] \in {M[j] : j \in 1 .. n}
  BY DEF M
<1>5. new \in Seq(RuleType) /\ Len(new) = k
  <2>1. n <= Len(bulk)
    BY <1>1
  <2> QED
    BY ONLY bulk \in Bulks, n \in Nat, <2>1, k \in 0 .. n,
       new \in [1 .. k -> {Made(bulk)[i] : i \in 1 .. n}], NewIsSeq
<1>6. M[n + 1] = x /\ x \in RuleType
  BY <1>2
<1>7. /\ NewsOf(bulk, n, s) \subseteq Int
      /\ \A p \in NewsOf(bulk, n, s) : p < n + 1
  BY DEF NewsOf
<1>8. Registry!Selects(Registry!Reverse(new2), M, NewsOf(bulk, n, s) \cup {n + 1})
  <2> DEFINE P == NewsOf(bulk, n, s)
  <2>1. Registry!Selects(Registry!Reverse(new), M, P) /\ n + 1 \in Int
    BY DEF M
  <2> HIDE DEF P
  <2>2. P \subseteq Int /\ \A p \in P : p < n + 1
    BY <1>7 DEF P
  <2>3. Registry!Selects(Registry!Reverse(<<M[n + 1]>> \o new), M, P \cup {n + 1})
    BY ONLY k \in Nat, <1>4, <1>5, <1>6, <2>1, <2>2, SelectsGrows
  <2> QED
    BY <1>6, <2>3 DEF P
<1>9. new2 \in [1 .. k + 1 -> {M[i] : i \in 1 .. n + 1}]
  <2>1. <<x>> \in Seq(RuleType) /\ Len(<<x>>) = 1 /\ <<x>>[1] = x
    BY <1>6
  <2>2. /\ new2 \in Seq(RuleType) /\ Len(new2) = 1 + k
        /\ \A i \in 1 .. 1 + k : new2[i] = IF i <= 1 THEN <<x>>[i] ELSE new[i - 1]
    BY <1>5, <2>1, ConcatProperties
  <2> HIDE DEF new2, x
  <2>3. \A i \in 1 .. k + 1 : new2[i] \in {M[j] : j \in 1 .. n + 1}
    <3> SUFFICES ASSUME NEW i \in 1 .. k + 1 PROVE new2[i] \in {M[j] : j \in 1 .. n + 1}
      OBVIOUS
    <3>1. CASE i = 1
      BY <1>4, <1>6, <2>1, <2>2, <3>1
    <3>2. CASE i # 1
      <4>1. i - 1 \in 1 .. k /\ new2[i] = new[i - 1]
        BY <1>4, <2>2, <3>2
      <4>2. PICK j \in 1 .. n : new[i - 1] = M[j]
        BY <1>4, <4>1
      <4> QED
        BY <4>1, <4>2
    <3> QED
      BY <3>1, <3>2
  <2>4. DOMAIN new2 = 1 .. k + 1 /\ new2 = [i \in DOMAIN new2 |-> new2[i]]
    BY <1>4, <2>2
  <2> QED
    BY <2>3, <2>4
<1> QED
  BY <1>5, <1>8, <1>9, NewsNext DEF M

-----------------------------------------------------------------------------
(* The steps of the handlers.                                              *)

\* AddRule puts a rule in front, and it is news.
LEMMA AddRuleProgress ==
    ASSUME RefInv, RefInv', HistoryInv, AddRule, visible' = visible
    PROVE  WriterProgress'
<1> DEFINE user == Head(writer.todo)
           x == NewRule(user)
<1>1. /\ TypeOK /\ visible \in Seq(RuleType)
      /\ writer.op = "add" /\ writer.todo # <<>>
      /\ writer'.op = "add" /\ writer'.todo = Tail(writer.todo)
      /\ VALID_RULE_CODE(user) /\ ~ InList(user)
  BY DEF AddRule, RefInv, TypeOK, HistoryInv
<1>2. PICK bulk \in Bulks : \E n \in 0 .. Len(bulk) : AddedSoFar(bulk, n)
  BY <1>1 DEF HistoryInv, WriterProgress
<1>3. PICK n \in 0 .. Len(bulk) : AddedSoFar(bulk, n)
  BY <1>2
<1>4. Remaining(bulk, n)
  BY <1>1, <1>3 DEF AddedSoFar
<1>5. /\ n + 1 \in 0 .. Len(bulk) /\ n + 1 \in 1 .. Len(bulk) /\ user = bulk[n + 1]
      /\ Remaining(bulk, n + 1)'
  BY <1>1, <1>4, TodoAdvances
<1>6. PICK k \in 0 .. n : \E new \in [1 .. k -> {Made(bulk)[i] : i \in 1 .. n}] :
         /\ Registry!Selects(Registry!Reverse(new), Made(bulk), NewsOf(bulk, n, visible))
         /\ Contents = new \o visible
  BY <1>3 DEF AddedSoFar
<1>7. PICK new \in [1 .. k -> {Made(bulk)[i] : i \in 1 .. n}] :
         /\ Registry!Selects(Registry!Reverse(new), Made(bulk), NewsOf(bulk, n, visible))
         /\ Contents = new \o visible
  BY <1>6
<1>8. \A j \in 1 .. n : VALID_RULE_CODE(bulk[j]) =>
          \E i \in DOMAIN list : SameRule(bulk[j], rule[list[i]])
  BY <1>3 DEF AddedSoFar
<1>9. PICK r \in RuleIds : Fresh(r) /\ CreateRule(r) /\ list' = <<r>> \o list
  BY DEF AddRule
<1>10. /\ Len(bulk) \in Nat /\ n \in Nat
       /\ \A i \in 1 .. Len(bulk) : bulk[i] \in RuleType
  BY BulkSeq
<1>11. user \in RuleType /\ x \in RuleType /\ SameRule(user, x)
  <2>1. user \in RuleType
    BY <1>5, <1>10
  <2> QED
    BY <2>1, SameRuleProperties DEF SameRule, CodeValue
<1>12. /\ Contents \in Seq(RuleType) /\ Len(Contents) = Len(list)
       /\ DOMAIN list = 1 .. Len(list) /\ Len(list) \in Nat
       /\ \A i \in 1 .. Len(list) : Contents[i] = rule[list[i]] /\ list[i] \in RuleIds
  BY <1>1, ContentsNow
<1>13. /\ Contents' \in Seq(RuleType) /\ Len(Contents') = Len(list')
       /\ DOMAIN list' = 1 .. Len(list')
       /\ \A i \in 1 .. Len(list') : Contents'[i] = rule'[list'[i]]
  BY ContentsNext DEF RefInv
<1>14. /\ Len(list') = Len(list) + 1
       /\ \A i \in 1 .. Len(list) + 1 : list'[i] = IF i = 1 THEN r ELSE list[i - 1]
  <2>1. list \in Seq(RuleIds) /\ <<r>> \in Seq(RuleIds) /\ Len(<<r>>) = 1 /\ <<r>>[1] = r
    BY <1>1 DEF TypeOK
  <2>2. /\ Len(<<r>> \o list) = 1 + Len(list)
        /\ \A i \in 1 .. 1 + Len(list) :
              (<<r>> \o list)[i] = IF i <= 1 THEN <<r>>[i] ELSE list[i - 1]
    BY <2>1, ConcatProperties
  <2> QED
    BY <1>9, <1>12, <2>1, <2>2
<1>15. rule'[r] = x /\ \A i \in 1 .. Len(list) : rule'[list[i]] = rule[list[i]]
  <2>1. r \notin Range(list) /\ rule \in [RuleIds -> RuleType]
    BY <1>9, FreePointedToByNone DEF Fresh, RefInv, TypeOK
  <2>2. \A i \in 1 .. Len(list) : list[i] # r
    BY <1>12, <2>1 DEF Range
  <2> QED
    BY <1>9, <1>12, <2>1, <2>2 DEF CreateRule
<1> HIDE DEF user, x
<1>16. Contents' = <<x>> \o Contents
  <2>1. <<x>> \in Seq(RuleType) /\ Len(<<x>>) = 1 /\ <<x>>[1] = x
    BY <1>11
  <2>2. /\ <<x>> \o Contents \in Seq(RuleType)
        /\ Len(<<x>> \o Contents) = 1 + Len(Contents)
        /\ \A i \in 1 .. 1 + Len(Contents) :
              (<<x>> \o Contents)[i] = IF i <= 1 THEN <<x>>[i] ELSE Contents[i - 1]
    BY <1>12, <2>1, ConcatProperties
  <2>3. ASSUME NEW i \in 1 .. Len(list) + 1
        PROVE  Contents'[i] = (<<x>> \o Contents)[i]
    <3>1. CASE i = 1
      BY <1>12, <1>13, <1>14, <1>15, <2>1, <2>2, <3>1
    <3>2. CASE i # 1
      <4>1. i - 1 \in 1 .. Len(list)
        BY <1>12, <3>2
      <4> QED
        BY <1>12, <1>13, <1>14, <1>15, <2>2, <3>2, <4>1
    <3> QED
      BY <3>1, <3>2
  <2>4. Len(Contents') = Len(<<x>> \o Contents)
    BY <1>12, <1>13, <1>14, <2>2
  <2>5. \A i \in 1 .. Len(Contents') : Contents'[i] = (<<x>> \o Contents)[i]
    BY <1>13, <1>14, <2>3
  <2> QED
    BY ONLY <1>13, <2>2, <2>4, <2>5, SeqEqual
<1>17. n + 1 \in NewsOf(bulk, n + 1, visible)
  <2>1. \A i \in 1 .. Len(list) : ~ SameRule(user, rule[list[i]])
    BY <1>1, <1>12 DEF InList, Range
  <2>2. ~ Registry!Known(user, visible)
    <3> SUFFICES ASSUME NEW i \in DOMAIN visible PROVE ~ SameRule(user, visible[i])
      BY SameQuestions
    <3>1. new \in Seq(RuleType) /\ Len(new) = k
      <4>1. n <= Len(bulk)
        BY <1>10
      <4> QED
        BY ONLY bulk \in Bulks, <1>10, <4>1, k \in 0 .. n,
           new \in [1 .. k -> {Made(bulk)[i2] : i2 \in 1 .. n}], NewIsSeq
    <3>2. k + i \in 1 .. Len(Contents) /\ Contents[k + i] = visible[i]
      <4>1. /\ Len(new \o visible) = k + Len(visible)
            /\ \A j \in 1 .. k + Len(visible) :
                  (new \o visible)[j] = IF j <= k THEN new[j] ELSE visible[j - k]
        <5>1. visible \in Seq(RuleType)
          BY <1>1
        <5> QED
          BY ONLY <5>1, <3>1, ConcatProperties
      <4>2. i \in 1 .. Len(visible) /\ Len(visible) \in Nat
        BY <1>1
      <4> QED
        BY <1>7, <1>10, <4>1, <4>2
    <3> QED
      BY <1>12, <2>1, <3>2
  <2>3. ASSUME NEW j \in 1 .. n, VALID_RULE_CODE(bulk[j])
        PROVE  ~ SameRule(user, NewRule(bulk[j]))
    <3>1. j \in 1 .. Len(bulk) /\ bulk[j] \in RuleType
      BY <1>10
    <3>2. PICK i \in 1 .. Len(list) : SameRule(bulk[j], rule[list[i]])
      BY <1>8, <1>12, <2>3
    <3>3. ~ SameRule(user, bulk[j])
      BY <2>1, <3>2 DEF SameRule
    <3> QED
      BY <1>11, <3>1, <3>3, SameRuleProperties
  <2> QED
    BY <1>1, <1>5, <1>10, <2>2, <2>3 DEF NewsOf
<1>18. /\ new \in Seq(RuleType)
       /\ <<x>> \o new \in [1 .. k + 1 -> {Made(bulk)[i] : i \in 1 .. n + 1}]
       /\ Registry!Selects(Registry!Reverse(<<x>> \o new), Made(bulk),
                           NewsOf(bulk, n + 1, visible))
  BY <1>5, <1>7, <1>10, <1>17, NewsAdded DEF x
<1>19. Contents' = (<<x>> \o new) \o visible
  <2>1. <<x>> \in Seq(RuleType)
    BY <1>11
  <2>2. (<<x>> \o new) \o visible = <<x>> \o (new \o visible)
    BY ONLY <1>1, <1>18, <2>1, ConcatAssociative, SMTT(30)
  <2> QED
    BY <1>7, <1>16, <2>2
<1>20. ASSUME NEW j \in 1 .. n + 1, VALID_RULE_CODE(bulk[j])
       PROVE  \E i \in DOMAIN list' : SameRule(bulk[j], rule'[list'[i]])
  <2>1. CASE j = n + 1
    <3>1. 1 \in DOMAIN list' /\ rule'[list'[1]] = x
      BY <1>12, <1>13, <1>14, <1>15
    <3> QED
      BY <1>5, <1>11, <2>1, <3>1
  <2>2. CASE j # n + 1
    <3>1. j \in 1 .. n
      BY <1>10, <2>2
    <3>2. PICK i \in 1 .. Len(list) : SameRule(bulk[j], rule[list[i]])
      BY <1>8, <1>12, <1>20, <3>1
    <3>3. i + 1 \in 1 .. Len(list) + 1 /\ i + 1 # 1 /\ (i + 1) - 1 = i
      BY <1>12
    <3>4. i + 1 \in DOMAIN list' /\ list'[i + 1] = list[i]
      BY <1>13, <1>14, <3>3
    <3> QED
      BY <1>15, <3>2, <3>4
  <2> QED
    BY <2>1, <2>2
<1>21. AddedSoFar(bulk, n + 1)'
  <2>1. k + 1 \in 0 .. n + 1
    BY <1>10
  <2> HIDE DEF x
  <2>2. \E m \in 0 .. n + 1 : \E w \in [1 .. m -> {Made(bulk)[i] : i \in 1 .. n + 1}] :
          /\ Registry!Selects(Registry!Reverse(w), Made(bulk),
                              NewsOf(bulk, n + 1, visible))
          /\ Contents' = w \o visible
    BY <1>18, <1>19, <2>1
  <2> QED
    BY <1>5, <1>20, <2>2 DEF AddedSoFar
<1> QED
  BY <1>1, <1>5, <1>21 DEF WriterProgress

\* SkipRule meets a rule that is not news.
LEMMA SkipRuleProgress ==
    ASSUME RefInv, HistoryInv, SkipRule, visible' = visible
    PROVE  WriterProgress'
<1> DEFINE user == Head(writer.todo)
<1>1. /\ TypeOK /\ visible \in Seq(RuleType)
      /\ writer.op = "add" /\ writer.todo # <<>>
      /\ writer'.op = "add" /\ writer'.todo = Tail(writer.todo)
      /\ UNCHANGED <<list, rule>>
      /\ ~ VALID_RULE_CODE(user) \/ InList(user)
  BY DEF SkipRule, RefInv, TypeOK, HistoryInv
<1>2. PICK bulk \in Bulks : \E n \in 0 .. Len(bulk) : AddedSoFar(bulk, n)
  BY <1>1 DEF HistoryInv, WriterProgress
<1>3. PICK n \in 0 .. Len(bulk) : AddedSoFar(bulk, n)
  BY <1>2
<1>4. Remaining(bulk, n)
  BY <1>1, <1>3 DEF AddedSoFar
<1>5. /\ n + 1 \in 0 .. Len(bulk) /\ n + 1 \in 1 .. Len(bulk) /\ user = bulk[n + 1]
      /\ Remaining(bulk, n + 1)'
  BY <1>1, <1>4, TodoAdvances
<1>6. PICK k \in 0 .. n : \E new \in [1 .. k -> {Made(bulk)[i] : i \in 1 .. n}] :
         /\ Registry!Selects(Registry!Reverse(new), Made(bulk), NewsOf(bulk, n, visible))
         /\ Contents = new \o visible
  BY <1>3 DEF AddedSoFar
<1>7. PICK new \in [1 .. k -> {Made(bulk)[i] : i \in 1 .. n}] :
         /\ Registry!Selects(Registry!Reverse(new), Made(bulk), NewsOf(bulk, n, visible))
         /\ Contents = new \o visible
  BY <1>6
<1>8. /\ Len(bulk) \in Nat /\ n \in Nat /\ n <= Len(bulk) /\ k \in Nat
      /\ DOMAIN bulk = 1 .. Len(bulk)
      /\ \A i \in 1 .. Len(bulk) : bulk[i] \in RuleType
  BY BulkSeq
<1>9. new \in Seq(RuleType) /\ Len(new) = k
  BY ONLY bulk \in Bulks, <1>8, k \in 0 .. n,
     new \in [1 .. k -> {Made(bulk)[i] : i \in 1 .. n}], NewIsSeq
<1>10. Contents' = Contents
  BY <1>1 DEF Contents
<1> HIDE DEF user
<1>11. n + 1 \notin NewsOf(bulk, n + 1, visible)
  <2> SUFFICES ASSUME n + 1 \in NewsOf(bulk, n + 1, visible) PROVE FALSE
    OBVIOUS
  <2>1. /\ VALID_RULE_CODE(user) /\ ~ Registry!Known(user, visible)
        /\ \A j \in 1 .. n :
              VALID_RULE_CODE(bulk[j]) => ~ SameRule(user, NewRule(bulk[j]))
    BY <1>5, <1>8 DEF NewsOf
  <2>2. PICK i \in 1 .. Len(list) : SameRule(user, rule[list[i]])
    BY <1>1, <2>1, ContentsNow DEF InList, Range
  <2>3. i \in 1 .. k + Len(visible) /\ SameRule(user, (new \o visible)[i])
    <3>1. Len(new \o visible) = k + Len(visible)
      BY ONLY <1>1, <1>9, ConcatProperties
    <3>2. Contents[i] = rule[list[i]] /\ Len(Contents) = Len(list)
      BY <1>1, ContentsNow
    <3> QED
      BY <1>7, <2>2, <3>1, <3>2
  <2>4. (new \o visible)[i] = IF i <= k THEN new[i] ELSE visible[i - k]
    BY ONLY <1>1, <1>9, <2>3, ConcatProperties
  <2>5. Len(visible) \in Nat /\ DOMAIN visible = 1 .. Len(visible)
    BY <1>1
  <2>6. CASE i <= k
    <3>1. i \in 1 .. k /\ SameRule(user, new[i])
      BY <1>8, <2>3, <2>4, <2>5, <2>6
    <3>2. PICK j \in NewsOf(bulk, n, visible) : new[i] = Made(bulk)[j]
      <4>1. DOMAIN Registry!Reverse(new) = 1 .. k
        BY <1>9 DEF Registry!Reverse
      <4>2. (k - i) + 1 \in 1 .. k /\ (k - ((k - i) + 1)) + 1 = i
        BY <1>8, <3>1
      <4>3. Registry!Reverse(new)[(k - i) + 1] = new[i]
        BY <1>9, <4>2 DEF Registry!Reverse
      <4>4. PICK at \in [1 .. k -> NewsOf(bulk, n, visible)] :
               \A m \in 1 .. k : Registry!Reverse(new)[m] = Made(bulk)[at[m]]
        BY <1>7, <4>1 DEF Registry!Selects
      <4> QED
        BY <4>2, <4>3, <4>4
    <3>3. j \in 1 .. n /\ VALID_RULE_CODE(bulk[j])
      BY <3>2 DEF NewsOf
    <3>4. Made(bulk)[j] = NewRule(bulk[j])
      BY <1>8, <3>3 DEF Made
    <3> QED
      BY <2>1, <3>1, <3>2, <3>3, <3>4
  <2>7. CASE ~ (i <= k)
    <3>1. i - k \in DOMAIN visible /\ SameRule(user, visible[i - k])
      BY <1>8, <2>3, <2>4, <2>5, <2>7
    <3> QED
      BY <2>1, <3>1, SameQuestions
  <2> QED
    BY <2>6, <2>7
<1>12. NewsOf(bulk, n + 1, visible) = NewsOf(bulk, n, visible)
  BY <1>8, <1>11, NewsNext
<1>13. k \in 0 .. n + 1 /\ new \in [1 .. k -> {Made(bulk)[i] : i \in 1 .. n + 1}]
  <2>1. {Made(bulk)[i] : i \in 1 .. n} \subseteq {Made(bulk)[i] : i \in 1 .. n + 1}
    BY <1>8
  <2> QED
    BY <1>8, <2>1
<1>14. ASSUME NEW j \in 1 .. n + 1, VALID_RULE_CODE(bulk[j])
       PROVE  \E i \in DOMAIN list' : SameRule(bulk[j], rule'[list'[i]])
  <2>1. CASE j = n + 1
    BY <1>1, <1>5, <1>14, <2>1 DEF InList, Range
  <2>2. CASE j # n + 1
    <3>1. j \in 1 .. n
      BY <1>8, <2>2
    <3> QED
      BY <1>1, <1>3, <1>14, <3>1 DEF AddedSoFar
  <2> QED
    BY <2>1, <2>2
<1>15. AddedSoFar(bulk, n + 1)'
  BY <1>5, <1>7, <1>10, <1>12, <1>13, <1>14 DEF AddedSoFar
<1> QED
  BY <1>1, <1>5, <1>15 DEF WriterProgress

\* When a rule cannot be created the handler is done with the message.
LEMMA CreateRuleFailsProgress ==
    ASSUME RefInv, HistoryInv, CreateRuleFails, visible' = visible
    PROVE  WriterProgress'
<1>1. /\ writer.op = "add" /\ writer'.op = "add" /\ writer'.todo = <<>>
      /\ UNCHANGED <<list, rule>>
  BY DEF CreateRuleFails, RefInv, TypeOK
<1>2. Contents' = Contents
  BY <1>1 DEF Contents
<1>3. PICK bulk \in Bulks : \E n \in 0 .. Len(bulk) : AddedSoFar(bulk, n)
  BY <1>1 DEF HistoryInv, WriterProgress
<1>4. PICK n \in 0 .. Len(bulk) : AddedSoFar(bulk, n)
  BY <1>3
<1>5. AddedSoFar(bulk, n)'
  BY <1>1, <1>2, <1>4 DEF AddedSoFar
<1> QED
  BY <1>1, <1>5 DEF WriterProgress

\* RemoveRule takes out a rule the message names.
LEMMA RemoveRuleProgress ==
    ASSUME RefInv, RefInv', HistoryInv, RemoveRule, visible' = visible
    PROVE  WriterProgress'
<1> DEFINE user == Head(writer.todo)
<1>1. /\ TypeOK /\ TypeOK' /\ visible \in Seq(RuleType)
      /\ writer.op = "remove" /\ writer.todo # <<>> /\ UNCHANGED <<rule, writer>>
  BY DEF RemoveRule, RefInv, HistoryInv
<1>2. PICK bulk \in Bulks : \E n \in 0 .. Len(bulk) : KeptSoFar(bulk, n)
  BY <1>1 DEF HistoryInv, WriterProgress
<1>3. PICK n \in 0 .. Len(bulk) : KeptSoFar(bulk, n)
  BY <1>2
<1>4. Remaining(bulk, n) /\ Len(list) <= Len(visible)
  BY <1>3 DEF KeptSoFar
<1>5. PICK P \in SUBSET DOMAIN visible :
         /\ Registry!Selects(Contents, visible, P)
         /\ \A i \in DOMAIN visible : ~ Registry!Known(visible[i], bulk) => i \in P
         /\ \A i \in P, j \in 1 .. n : ~ SameRule(bulk[j], visible[i])
  BY <1>3 DEF KeptSoFar
<1>6. n + 1 \in 1 .. Len(bulk) /\ user = bulk[n + 1]
  BY <1>1, <1>4, TodoAdvances
<1>7. PICK i \in DOMAIN list : SameRule(user, rule[list[i]]) /\ RemoveEntry(i)
  BY DEF RemoveRule
<1> DEFINE m == Len(list)
<1>8. /\ list' \in Seq(RuleIds) /\ Len(list') = m - 1
      /\ \A k \in 1 .. m - 1 : list'[k] = IF k < i THEN list[k] ELSE list[k + 1]
  <2>1. list \in Seq(RuleIds) /\ list' = SubSeq(list, 1, i - 1) \o SubSeq(list, i + 1, Len(list))
    BY <1>1, <1>7 DEF TypeOK, RemoveEntry
  <2> QED
    BY <2>1, WithoutAt
<1>9. /\ m \in Nat /\ i \in 1 .. m /\ DOMAIN Contents = 1 .. m
      /\ \A k \in 1 .. m : Contents[k] = rule[list[k]]
  BY <1>1, <1>7, ContentsNow
<1>10. /\ DOMAIN Contents' = 1 .. m - 1
       /\ \A k \in 1 .. m - 1 : Contents'[k] = rule[list'[k]]
  BY <1>1, <1>8, ContentsNext
<1> HIDE DEF m, user
<1>11. \A k \in 1 .. m - 1 : Contents'[k] = IF k < i THEN Contents[k] ELSE Contents[k + 1]
  <2> SUFFICES ASSUME NEW k \in 1 .. m - 1
               PROVE  Contents'[k] = IF k < i THEN Contents[k] ELSE Contents[k + 1]
    OBVIOUS
  <2>1. k \in 1 .. m /\ k + 1 \in 1 .. m
    BY <1>9
  <2> QED
    BY <1>8, <1>9, <1>10, <2>1, ZenonT(40)
<1>12. P \subseteq Int
  BY <1>1
<1>13. PICK p \in P : /\ Contents[i] = visible[p]
                      /\ Registry!Selects(Contents', visible, P \ {p})
  <2> DEFINE c == Contents
             d == Contents'
  <2>1. Drops(d, c, m, i) /\ Registry!Selects(c, visible, P)
    BY <1>5, <1>9, <1>10, <1>11 DEF Drops
  <2>2. m \in Nat /\ i \in 1 .. m
    BY <1>9
  <2> HIDE DEF c, d
  <2>3. SelectsLess(d, c, i, visible, P)
    BY ONLY <1>12, <2>1, <2>2, SelectsShrinks
  <2> QED
    BY <2>3 DEF c, d, SelectsLess
<1>14. Registry!Known(visible[p], bulk)
  <2>1. SameRule(user, visible[p])
    BY <1>7, <1>9, <1>13
  <2>2. user \in RuleType /\ visible[p] \in RuleType /\ n + 1 \in DOMAIN bulk
    BY <1>1, <1>6, BulkSeq
  <2>3. SameRule(visible[p], bulk[n + 1])
    BY <1>6, <2>1, <2>2, SameRuleProperties
  <2> QED
    BY <2>2, <2>3, SameQuestions
<1>15. Len(list') <= Len(visible')
  BY <1>1, <1>4, <1>8, <1>9 DEF m
<1>16. Remaining(bulk, n)'
  BY <1>1, <1>4 DEF Remaining
<1>17. KeptSoFar(bulk, n)'
  <2>1. P \ {p} \in SUBSET DOMAIN visible
    OBVIOUS
  <2>2. \A j \in DOMAIN visible : ~ Registry!Known(visible[j], bulk) => j \in P \ {p}
    BY <1>5, <1>14
  <2>3. \E Q \in SUBSET DOMAIN visible :
           /\ Registry!Selects(Contents', visible, Q)
           /\ \A j \in DOMAIN visible : ~ Registry!Known(visible[j], bulk) => j \in Q
           /\ \A j \in Q, k \in 1 .. n : ~ SameRule(bulk[k], visible[j])
    BY <1>5, <1>13, <2>1, <2>2
  <2> QED
    BY <1>15, <1>16, <2>3 DEF KeptSoFar
<1> QED
  BY <1>1, <1>17 DEF WriterProgress

\* NothingToRemove has the next rule of the message dealt with.
LEMMA NothingToRemoveProgress ==
    ASSUME RefInv, HistoryInv, NothingToRemove, visible' = visible
    PROVE  WriterProgress'
<1> DEFINE user == Head(writer.todo)
<1>1. /\ TypeOK /\ writer.op = "remove" /\ writer.todo # <<>>
      /\ writer'.op = "remove" /\ writer'.todo = Tail(writer.todo)
      /\ UNCHANGED <<list, rule>> /\ ~ InList(user)
  BY DEF NothingToRemove, RefInv, TypeOK
<1>2. PICK bulk \in Bulks : \E n \in 0 .. Len(bulk) : KeptSoFar(bulk, n)
  BY <1>1 DEF HistoryInv, WriterProgress
<1>3. PICK n \in 0 .. Len(bulk) : KeptSoFar(bulk, n)
  BY <1>2
<1>4. Remaining(bulk, n) /\ Len(list) <= Len(visible)
  BY <1>3 DEF KeptSoFar
<1>5. PICK P \in SUBSET DOMAIN visible :
         /\ Registry!Selects(Contents, visible, P)
         /\ \A i \in DOMAIN visible : ~ Registry!Known(visible[i], bulk) => i \in P
         /\ \A i \in P, j \in 1 .. n : ~ SameRule(bulk[j], visible[i])
  BY <1>3 DEF KeptSoFar
<1>6. /\ n + 1 \in 0 .. Len(bulk) /\ n + 1 \in 1 .. Len(bulk) /\ user = bulk[n + 1]
      /\ Remaining(bulk, n + 1)'
  BY <1>1, <1>4, TodoAdvances
<1>7. Contents' = Contents
  BY <1>1 DEF Contents
<1> HIDE DEF user
<1>8. \A i \in P : ~ SameRule(user, visible[i])
  <2> SUFFICES ASSUME NEW i \in P PROVE ~ SameRule(user, visible[i])
    OBVIOUS
  <2>1. PICK k \in DOMAIN Contents : Contents[k] = visible[i]
    BY <1>5 DEF Registry!Selects
  <2>2. k \in DOMAIN list /\ rule[list[k]] = visible[i]
    BY <1>1, <2>1, ContentsNow
  <2> QED
    BY <1>1, <2>2 DEF InList, Range
<1>9. \A i \in P, j \in 1 .. n + 1 : ~ SameRule(bulk[j], visible[i])
  <2> SUFFICES ASSUME NEW i \in P, NEW j \in 1 .. n + 1
               PROVE  ~ SameRule(bulk[j], visible[i])
    OBVIOUS
  <2>1. Len(bulk) \in Nat
    BY BulkSeq
  <2>2. j \in 1 .. n \/ j = n + 1
    BY <2>1
  <2> QED
    BY <1>5, <1>6, <1>8, <2>2
<1>10. KeptSoFar(bulk, n + 1)'
  BY <1>1, <1>4, <1>5, <1>6, <1>7, <1>9 DEF KeptSoFar
<1> QED
  BY <1>1, <1>6, <1>10 DEF WriterProgress

\* What the history variable says after a step.
History == visible' = IF writer'.op = "none" THEN Contents' ELSE visible

\* A handler that has just taken the lock has dealt with no rule yet.
LEMMA BeginProgress ==
    ASSUME RefInv, HistoryInv, BeginAddRules \/ BeginRemoveRules \/ BeginCleanup, History
    PROVE  visible' = visible /\ WriterProgress'
<1>1. /\ visible \in Seq(RuleType) /\ DOMAIN visible = 1 .. Len(visible)
      /\ Len(visible) \in Nat /\ TypeOK
  BY DEF HistoryInv, RefInv
<1>2. /\ writer.op = "none" /\ writer'.op # "none" /\ UNCHANGED <<list, rule>>
  BY DEF BeginAddRules, BeginRemoveRules, BeginCleanup, AcquireExclusive
<1>3. visible = Contents /\ Contents' = Contents /\ visible' = visible
  BY <1>2 DEF HistoryInv, WriterProgress, Contents, History
<1>4. CASE BeginAddRules
  <2>1. PICK bulk \in Bulks : writer' = [op |-> "add", todo |-> bulk]
    BY <1>4 DEF BeginAddRules, AcquireExclusive
  <2>2. Len(bulk) \in Nat
    BY BulkSeq
  <2>3. Remaining(bulk, 0)'
    BY <2>1, <2>2 DEF Remaining
  <2> DEFINE new == <<>>
  <2>4. /\ new \in [1 .. 0 -> {Made(bulk)[i] : i \in 1 .. 0}]
        /\ Registry!Reverse(new) = <<>> /\ DOMAIN Registry!Reverse(new) = 1 .. 0
    BY DEF Registry!Reverse
  <2>5. NewsOf(bulk, 0, visible) = {}
    BY DEF NewsOf
  <2>6. Registry!Selects(Registry!Reverse(new), Made(bulk), NewsOf(bulk, 0, visible))
    <3>1. <<>> \in [1 .. 0 -> {}]
      OBVIOUS
    <3> QED
      BY <2>4, <2>5, <3>1 DEF Registry!Selects
  <2>7. Contents' = new \o visible'
    BY <1>1, <1>3, ConcatEmptySeq
  <2> HIDE DEF new
  <2>8. AddedSoFar(bulk, 0)'
    <3>1. 0 \in 0 .. 0
      OBVIOUS
    <3>2. \E k \in 0 .. 0 : \E q \in [1 .. k -> {Made(bulk)[i] : i \in 1 .. 0}] :
             /\ Registry!Selects(Registry!Reverse(q), Made(bulk), NewsOf(bulk, 0, visible'))
             /\ Contents' = q \o visible'
      BY <1>3, <2>4, <2>6, <2>7, <3>1
    <3>3. ASSUME NEW j \in 1 .. 0 PROVE FALSE
      OBVIOUS
    <3> QED
      BY <2>3, <3>2, <3>3 DEF AddedSoFar
  <2> QED
    BY <1>3, <2>1, <2>2, <2>8 DEF WriterProgress
<1>5. CASE BeginRemoveRules
  <2>1. PICK bulk \in Bulks : writer' = [op |-> "remove", todo |-> bulk]
    BY <1>5 DEF BeginRemoveRules, AcquireExclusive
  <2>2. Len(bulk) \in Nat
    BY BulkSeq
  <2>3. Remaining(bulk, 0)'
    BY <2>1, <2>2 DEF Remaining
  <2>4. Registry!Selects(visible, visible, DOMAIN visible)
    <3> DEFINE at == [i \in 1 .. Len(visible) |-> i]
    <3>1. /\ at \in [DOMAIN visible -> DOMAIN visible]
          /\ \A i \in DOMAIN visible : at[i] = i
      BY <1>1
    <3> HIDE DEF at
    <3> QED
      BY <3>1 DEF Registry!Selects
  <2>5. Len(list') <= Len(visible')
    BY <1>1, <1>2, <1>3, ContentsNow
  <2>6. KeptSoFar(bulk, 0)'
    BY <1>3, <2>3, <2>4, <2>5 DEF KeptSoFar
  <2> QED
    BY <1>3, <2>1, <2>2, <2>6 DEF WriterProgress
<1>6. CASE BeginCleanup
  BY <1>3, <1>6 DEF BeginCleanup, AcquireExclusive, WriterProgress
<1> QED
  BY <1>4, <1>5, <1>6

\* The steps of everybody else do not touch what a handler works on.
LEMMA UndisturbedProgress ==
    ASSUME HistoryInv, UNCHANGED <<list, rule, writer>>, History
    PROVE  visible' = visible /\ WriterProgress'
<1>1. Contents' = Contents
  BY DEF Contents
<1>2. visible' = visible
  BY <1>1 DEF History, HistoryInv, WriterProgress
<1>3. ASSUME NEW bulk, NEW n, AddedSoFar(bulk, n) PROVE AddedSoFar(bulk, n)'
  BY <1>1, <1>2, <1>3 DEF AddedSoFar, Remaining
<1>4. ASSUME NEW bulk, NEW n, KeptSoFar(bulk, n) PROVE KeptSoFar(bulk, n)'
  BY <1>1, <1>2, <1>4 DEF KeptSoFar, Remaining
<1> QED
  BY <1>1, <1>2, <1>3, <1>4 DEF HistoryInv, WriterProgress

\* Until it gives the lock up, a handler changes nothing for the others.
LEMMA WriterHistory ==
    ASSUME RefInv, RefInv', HistoryInv, WriterStep, History
    PROVE  /\ WriterProgress'
           /\ ReleaseExclusive \/ visible' = visible
<1>1. CASE ReleaseExclusive
  BY <1>1 DEF ReleaseExclusive, RefInv, TypeOK, History, WriterProgress
<1>2. ASSUME ~ ReleaseExclusive PROVE visible' = visible
  BY <1>2 DEF WriterStep, SkipRule, AddRule, CreateRuleFails, RemoveRule, NothingToRemove,
     CleanupRule, RefInv, TypeOK, History
<1>3. CASE CleanupRule
  <2>1. writer'.op = "cleanup" /\ ~ ReleaseExclusive
    BY <1>3 DEF CleanupRule, ReleaseExclusive
  <2> QED
    BY <1>2, <2>1 DEF WriterProgress
<1> QED
  BY <1>1, <1>2, <1>3, SkipRuleProgress, AddRuleProgress, CreateRuleFailsProgress,
     RemoveRuleProgress, NothingToRemoveProgress DEF WriterStep

-----------------------------------------------------------------------------
(* The steps of the registry.                                              *)

\* A thread outside "reference" and HoldingAt has been given no rule, and no
\* name is NULL.
LEMMA GivenNone ==
    ASSUME RefInv, LookupShape, NEW t \in Threads, pc[t] # "reference"
    PROVE  /\ found[t] = None
           /\ pc[t] \notin HoldingAt => held[t] = None /\ Given(t) = None
BY DEF RefInv, ThreadShape, LookupShape, Given

LEMMA NamesGiven ==
    ASSUME NEW n \in Files \cup Destinations
    PROVE  n # None
BY FilesAssumption, NoneAssumption

\* A step that leaves the rules in force, the names and the pointers alone is
\* none of the registry.
LEMMA QuietHistory ==
    ASSUME HistoryInv, visible' = visible, UNCHANGED <<rule, found, held>>,
           \A t \in Threads : Asked(t)' = Asked(t)
    PROVE  UNCHANGED Registry!vars
<1>1. \A t \in Threads : Given(t)' = Given(t)
  BY DEF Given
<1>2. [t \in Threads |-> Given(t)]' = [t \in Threads |-> Given(t)]
  BY <1>1
<1>3. [t \in Threads |-> Asked(t)]' = [t \in Threads |-> Asked(t)]
  OBVIOUS
<1> QED
  BY <1>2, <1>3 DEF Registry!vars

\* What a step of one thread does to the names that are looked for.
LEMMA AskedStep ==
    ASSUME TypeOK, NEW t \in Threads, NEW p, pc' = [pc EXCEPT ![t] = p],
           \A u \in Threads \ {t} : name'[u] = name[u]
    PROVE  /\ Asked(t)' = IF p = "lookup" THEN name'[t] ELSE None
           /\ [u \in Threads |-> Asked(u)]' =
                 [[u \in Threads |-> Asked(u)] EXCEPT ![t] = Asked(t)']
<1>1. \A u \in Threads : pc'[u] = IF u = t THEN p ELSE pc[u]
  BY DEF TypeOK
<1>2. \A u \in Threads \ {t} : Asked(u)' = Asked(u)
  BY <1>1 DEF Asked
<1> QED
  BY <1>1, <1>2 DEF Asked

\* A step of one thread that neither begins nor ends a walk.
LEMMA AskedStays ==
    ASSUME TypeOK, NEW t \in Threads, NEW p, pc' = [pc EXCEPT ![t] = p],
           \A u \in Threads \ {t} : name'[u] = name[u],
           pc[t] # "lookup", p # "lookup"
    PROVE  /\ \A u \in Threads : Asked(u)' = Asked(u)
           /\ [u \in Threads |-> Asked(u)]' = [u \in Threads |-> Asked(u)]
<1>1. \A u \in Threads : pc'[u] = IF u = t THEN p ELSE pc[u]
  BY DEF TypeOK
<1>2. \A u \in Threads : Asked(u)' = Asked(u)
  BY <1>1 DEF Asked
<1> QED
  BY <1>2

\* What a step of one thread does to what the threads have been given.
LEMMA GivenStep ==
    ASSUME NEW t \in Threads, UNCHANGED rule,
           \A u \in Threads \ {t} : found'[u] = found[u] /\ held'[u] = held[u]
    PROVE  [u \in Threads |-> Given(u)]' =
              [[u \in Threads |-> Given(u)] EXCEPT ![t] = Given(t)']
<1>1. \A u \in Threads \ {t} : Given(u)' = Given(u)
  BY DEF Given
<1> QED
  BY <1>1

\* What a step of one thread does to its shape.
LEMMA ShapeStep ==
    ASSUME TypeOK, LookupShape, NEW t \in Threads, NEW p, pc' = [pc EXCEPT ![t] = p],
           \A u \in Threads \ {t} : found'[u] = found[u] /\ name'[u] = name[u],
           found'[t] # None => p = "reference",
           p = "lookup" => name'[t] # None
    PROVE  LookupShape'
<1>1. \A u \in Threads : pc'[u] = IF u = t THEN p ELSE pc[u]
  BY DEF TypeOK
<1> QED
  BY <1>1 DEF LookupShape

\* The steps of a callback between the match and the end: nobody is given or
\* gives up a rule.
LEMMA QuietThread ==
    ASSUME RefInv, HistoryInv, History, NEW t \in Threads,
           \/ \E f \in Files, o \in {"write", "setinfo", "fsctl", "rename"} :
                 PreOperation(t, f, o)
           \/ PassCreate(t) \/ AllocateFileContext(t) \/ SetFileContext(t)
           \/ FillName(t) \/ FillRule(t)
           \/ Enforce(t) \/ EnforceRenameSource(t)
    PROVE  HistoryInv' /\ UNCHANGED Registry!vars
<1>1. TypeOK /\ LookupShape
  BY DEF RefInv, HistoryInv
<1>2. UNCHANGED <<list, rule, writer, name, found, held>>
  BY DEF PreOperation, PassCreate, AllocateFileContext, SetFileContext, FillName,
     FillRule, Enforce, EnforceRenameSource
<1>3. pc[t] # "reference" /\ pc[t] # "lookup"
  BY DEF PreOperation, PassCreate, AllocateFileContext, SetFileContext, FillName,
     FillRule, Enforce, EnforceRenameSource
<1>4. \E p : pc' = [pc EXCEPT ![t] = p] /\ p # "lookup"
  BY DEF PreOperation, PassCreate, AllocateFileContext, SetFileContext, FillName,
     FillRule, Enforce, EnforceRenameSource
<1>5. found[t] = None
  BY <1>1, <1>3 DEF LookupShape
<1>6. LookupShape'
  BY <1>1, <1>2, <1>4, <1>5, ShapeStep
<1>7. visible' = visible /\ WriterProgress'
  BY <1>2, UndisturbedProgress
<1>8. \A u \in Threads : Asked(u)' = Asked(u)
  BY <1>1, <1>2, <1>3, <1>4, AskedStays
<1> QED
  BY <1>2, <1>6, <1>7, <1>8, QuietHistory DEF HistoryInv

\* A callback returns a verdict and the registry's operation is concluded.
LEMMA FinishHistory ==
    ASSUME RefInv, HistoryInv, History, NEW t \in Threads,
           \/ RefuseCreate(t) \/ CreateFails(t) \/ FileContextFound(t)
           \/ SetFileContextFails(t) \/ FileContextAlreadyDefined(t)
           \/ FinishCreate(t) \/ EnforceRenameDestination(t)
    PROVE  HistoryInv' /\ [Registry!Next]_Registry!vars
<1>1. TypeOK /\ LookupShape /\ RefCountExact /\ ThreadShape /\ AllocatedValid
  BY DEF RefInv, HistoryInv
<1>2. /\ UNCHANGED <<list, rule, writer, name, found>>
      /\ pc[t] # "reference" /\ pc[t] # "lookup"
  BY DEF RefuseCreate, CreateFails, FileContextFound, SetFileContextFails,
     FileContextAlreadyDefined, FinishCreate, EnforceRenameDestination
<1>3. held' = [held EXCEPT ![t] = None] /\ pc' = [pc EXCEPT ![t] = "done"]
  <2>1. CASE FileContextAlreadyDefined(t)
    BY <1>1, <2>1, AlreadyDefinedFinishes DEF Finish
  <2>2. CASE ~ FileContextAlreadyDefined(t)
    BY <2>2 DEF RefuseCreate, CreateFails, FileContextFound, SetFileContextFails,
       FinishCreate, EnforceRenameDestination, Finish
  <2> QED
    BY <2>1, <2>2
<1>4. found[t] = None
  BY <1>1, <1>2 DEF LookupShape
<1>5. LookupShape'
  BY <1>1, <1>2, <1>3, <1>4, ShapeStep
<1>6. visible' = visible /\ WriterProgress'
  BY <1>2, UndisturbedProgress
<1>7. Given(t)' = None
  BY <1>1, <1>2, <1>3, <1>4 DEF Given, TypeOK
<1> DEFINE F == [u \in Threads |-> Given(u)]
<1>8. F' = [F EXCEPT ![t] = None]
  BY <1>1, <1>2, <1>3, <1>7, GivenStep DEF TypeOK
<1>a. [u \in Threads |-> Asked(u)]' = [u \in Threads |-> Asked(u)]
  BY <1>1, <1>2, <1>3, AskedStays
<1>9. F[t] # None => Registry!Conclude(t)
  BY <1>6, <1>8, <1>a DEF Registry!Conclude
<1>10. F[t] = None => F' = F
  BY <1>8
<1>11. [Registry!Next]_Registry!vars
  BY <1>6, <1>9, <1>10, <1>a DEF Registry!Next, Registry!vars
<1> QED
  BY <1>5, <1>6, <1>11 DEF HistoryInv

\* An open, and a rename that knows its destination, ask for a name.
LEMMA AskHistory ==
    ASSUME RefInv, HistoryInv, History, NEW t \in Threads,
           (\E f \in Files : PreCreate(t, f)) \/ RenameDestination(t)
    PROVE  HistoryInv' /\ [Registry!Next]_Registry!vars
<1>1. TypeOK /\ LookupShape
  BY DEF RefInv, HistoryInv
<1>2. /\ UNCHANGED <<list, rule, writer, found, held>>
      /\ pc[t] # "reference" /\ pc[t] \notin HoldingAt /\ pc[t] # "lookup"
  BY DEF PreCreate, RenameDestination, HoldingAt
<1>3. found[t] = None /\ Given(t) = None
  BY <1>1, <1>2, GivenNone
<1>4. PICK p : pc' = [pc EXCEPT ![t] = p]
  BY DEF PreCreate, RenameDestination
<1>5. \/ \E n \in Files \cup Destinations : name' = [name EXCEPT ![t] = n]
      \/ name' = name /\ p # "lookup"
  BY <1>1, <1>4 DEF PreCreate, RenameDestination, TypeOK
<1>6. LookupShape'
  <2>1. p = "lookup" => name'[t] # None
    BY <1>1, <1>5, NamesGiven DEF TypeOK
  <2>2. \A u \in Threads \ {t} : found'[u] = found[u] /\ name'[u] = name[u]
    BY <1>1, <1>2, <1>5 DEF TypeOK
  <2> QED
    BY <1>1, <1>2, <1>3, <1>4, <2>1, <2>2, ShapeStep
<1>7. visible' = visible /\ WriterProgress'
  BY <1>2, UndisturbedProgress
<1> DEFINE F == [u \in Threads |-> Given(u)]
<1>8. F' = F
  BY <1>2 DEF Given
<1>9. F[t] = None
  BY <1>3
<1> DEFINE A == [u \in Threads |-> Asked(u)]
<1>a. \A u \in Threads \ {t} : name'[u] = name[u]
  BY <1>1, <1>5 DEF TypeOK
<1>10. ASSUME p = "lookup" PROVE [Registry!Next]_Registry!vars
  <2>1. PICK n \in Files \cup Destinations : name' = [name EXCEPT ![t] = n]
    BY <1>5, <1>10
  <2>2. Asked(t)' = n
    BY <1>1, <1>4, <1>10, <1>a, <2>1, AskedStep DEF TypeOK
  <2>3. A' = [A EXCEPT ![t] = n]
    BY <1>1, <1>4, <1>a, <2>2, AskedStep
  <2>4. A[t] = None
    BY <1>2 DEF Asked
  <2> HIDE DEF A, F
  <2>5. Registry!Ask(t, n)
    BY <1>7, <1>8, <1>9, <2>3, <2>4 DEF Registry!Ask, A, F
  <2> QED
    BY <2>5 DEF Registry!Next
<1>b. ASSUME p # "lookup" PROVE [Registry!Next]_Registry!vars
  <2>1. A' = A
    BY <1>1, <1>2, <1>4, <1>a, <1>b, AskedStays
  <2> HIDE DEF A, F
  <2> QED
    BY <1>7, <1>8, <2>1 DEF Registry!vars, A, F
<1>11. [Registry!Next]_Registry!vars
  BY <1>10, <1>b
<1> QED
  BY <1>6, <1>7, <1>11 DEF HistoryInv

\* FgcMatchRules gives the newest rule in force that matches, and none only
\* when none does, because no handler has the lock during the walk.
LEMMA MatchHistory ==
    ASSUME RefInv, HistoryInv, History, NEW t \in Threads, MatchRules(t)
    PROVE  HistoryInv' /\ [Registry!Next]_Registry!vars
<1>1. TypeOK /\ LookupShape
  BY DEF RefInv, HistoryInv
<1>2. /\ UNCHANGED <<list, rule, writer, name, held>>
      /\ pc[t] = "lookup" /\ writer.op = "none"
  BY DEF MatchRules
<1>3. /\ found[t] = None /\ held[t] = None /\ Given(t) = None /\ name[t] # None
      /\ visible = Contents
  <2>1. pc[t] # "reference" /\ pc[t] \notin HoldingAt
    BY <1>2 DEF HoldingAt
  <2> QED
    BY <1>1, <1>2, <2>1, GivenNone DEF LookupShape, HistoryInv, WriterProgress
<1>4. visible' = visible /\ WriterProgress'
  BY <1>2, UndisturbedProgress
<1> DEFINE A == [u \in Threads |-> Asked(u)]
<1>a. /\ \E p : pc' = [pc EXCEPT ![t] = p] /\ p # "lookup"
      /\ A' = [A EXCEPT ![t] = None] /\ A[t] = name[t]
  <2>1. PICK p : pc' = [pc EXCEPT ![t] = p] /\ p # "lookup"
    BY DEF MatchRules
  <2>2. Asked(t)' = None /\ A' = [A EXCEPT ![t] = Asked(t)']
    BY <1>1, <1>2, <2>1, AskedStep
  <2> QED
    BY <1>2, <2>1, <2>2 DEF Asked
<1> HIDE DEF A
<1>b. /\ DOMAIN visible = 1 .. Len(list) /\ DOMAIN list = 1 .. Len(list)
      /\ Len(list) \in Nat
      /\ \A k \in 1 .. Len(list) : visible[k] = rule[list[k]] /\ list[k] \in RuleIds
  BY <1>1, <1>3, ContentsNow
<1>5. CASE UNCHANGED found
  <2>1. NoMatch(name[t])
    <3>1. ASSUME NEW i \in DOMAIN list, found' = [found EXCEPT ![t] = list[i]]
          PROVE  FALSE
      BY <1>1, <1>3, <1>5, <1>b, <3>1, NoneAssumption DEF TypeOK
    <3> QED
      BY <3>1 DEF MatchRules
  <2>2. LookupShape'
    BY <1>1, <1>2, <1>3, <1>5, <1>a, ShapeStep
  <2>3. \A i \in DOMAIN visible : ~ Registry!NameInExpression(visible[i].expr, name[t])
    BY <1>b, <2>1, SameQuestions DEF NoMatch
  <2> DEFINE F == [u \in Threads |-> Given(u)]
  <2>4. F' = F
    BY <1>2, <1>5 DEF Given
  <2> HIDE DEF F
  <2>5. Registry!NoMatch(t)
    BY <1>3, <1>4, <1>a, <2>3, <2>4 DEF Registry!NoMatch, Registry!Matches, A, F
  <2> QED
    BY <1>4, <2>2, <2>5 DEF HistoryInv, Registry!Next
<1>6. CASE ~ UNCHANGED found
  <2>1. PICK i \in DOMAIN list :
           /\ FirstMatchAt(i, name[t])
           /\ found' = [found EXCEPT ![t] = list[i]]
           /\ pc' = [pc EXCEPT ![t] = "reference"]
    BY <1>6 DEF MatchRules
  <2>3. list[i] # None /\ list[i] \in RuleIds /\ visible[i] = rule[list[i]]
    BY <1>b, <2>1, NoneAssumption
  <2>4. LookupShape'
    BY <1>1, <1>2, <2>1, ShapeStep DEF TypeOK
  <2>5. Given(t)' = visible[i]
    BY <1>1, <1>2, <2>1, <2>3 DEF Given, TypeOK
  <2> DEFINE F == [u \in Threads |-> Given(u)]
  <2>6. F' = [F EXCEPT ![t] = visible[i]]
    BY <1>1, <1>2, <2>1, <2>5, GivenStep DEF TypeOK
  <2>7. F[t] = None
    BY <1>3
  <2>8. /\ Registry!NameInExpression(visible[i].expr, name[t])
        /\ \A j \in 1 .. (i - 1) : ~ Registry!NameInExpression(visible[j].expr, name[t])
    <3>1. NameInExpression(visible[i].expr, name[t])
      BY <2>1, <2>3 DEF FirstMatchAt
    <3>2. ASSUME NEW j \in 1 .. (i - 1) PROVE ~ NameInExpression(visible[j].expr, name[t])
      <4>1. j \in 1 .. Len(list)
        BY <1>b, <2>1
      <4> QED
        BY <1>b, <2>1, <4>1 DEF FirstMatchAt
    <3> QED
      BY <3>1, <3>2, SameQuestions
  <2> HIDE DEF F
  <2>9. Registry!Match(t)
    <3>1. i \in DOMAIN visible
      BY <1>b, <2>1
    <3> QED
      BY <1>3, <1>4, <1>a, <2>6, <2>7, <2>8, <3>1
      DEF Registry!Match, Registry!Matches, A, F
  <2> QED
    BY <1>4, <2>4, <2>9 DEF HistoryInv, Registry!Next
<1> QED
  BY <1>5, <1>6

\* FgcReferenceRule changes how a callback holds its rule, not the rule.
LEMMA ReferenceHistory ==
    ASSUME RefInv, HistoryInv, History, NEW t \in Threads, ReferenceMatch(t)
    PROVE  HistoryInv' /\ UNCHANGED Registry!vars
<1>1. TypeOK /\ LookupShape
  BY DEF RefInv, HistoryInv
<1>2. /\ UNCHANGED <<list, rule, writer, name>>
      /\ pc[t] = "reference" /\ found[t] \in Range(list)
      /\ pc[t] # "lookup"
      /\ held' = [held EXCEPT ![t] = found[t]] /\ found' = [found EXCEPT ![t] = None]
  BY DEF ReferenceMatch
<1>a. \E p : pc' = [pc EXCEPT ![t] = p] /\ p # "lookup"
  <2>1. (IF op[t] = "create" THEN "decide" ELSE "renamed") # "lookup"
    OBVIOUS
  <2> QED
    BY <2>1 DEF ReferenceMatch
<1>3. found[t] \in RuleIds /\ found[t] # None
  BY <1>1, <1>2, NoneAssumption DEF TypeOK, Range
<1>4. LookupShape'
  <2>1. /\ found'[t] = None
        /\ \A u \in Threads \ {t} : found'[u] = found[u] /\ name'[u] = name[u]
    BY <1>1, <1>2 DEF TypeOK
  <2> QED
    BY <1>1, <1>a, <2>1, ShapeStep
<1>5. visible' = visible /\ WriterProgress'
  BY <1>2, UndisturbedProgress
<1>6. Given(t)' = Given(t)
  BY <1>1, <1>2, <1>3 DEF Given, TypeOK
<1>7. [u \in Threads |-> Given(u)]' = [u \in Threads |-> Given(u)]
  <2>1. \A u \in Threads \ {t} : found'[u] = found[u] /\ held'[u] = held[u]
    BY <1>1, <1>2 DEF TypeOK
  <2> QED
    BY <1>2, <1>6, <2>1, GivenStep
<1>8. [u \in Threads |-> Asked(u)]' = [u \in Threads |-> Asked(u)]
  BY <1>1, <1>2, <1>a, AskedStays
<1> QED
  BY <1>4, <1>5, <1>7, <1>8 DEF HistoryInv, Registry!vars

\* The request is completed: it was not waiting for an answer.
LEMMA ReturnHistory ==
    ASSUME RefInv, HistoryInv, History, NEW t \in Threads, Return(t)
    PROVE  HistoryInv' /\ UNCHANGED Registry!vars
<1>1. TypeOK /\ LookupShape
  BY DEF RefInv, HistoryInv
<1>2. /\ UNCHANGED <<list, rule, writer, found, held>>
      /\ pc[t] = "done" /\ pc[t] # "reference" /\ pc[t] # "lookup"
      /\ name' = [name EXCEPT ![t] = None] /\ pc' = [pc EXCEPT ![t] = "idle"]
  BY DEF Return
<1>3. found[t] = None
  BY <1>1, <1>2 DEF LookupShape
<1>4. \A u \in Threads \ {t} : found'[u] = found[u] /\ name'[u] = name[u]
  BY <1>1, <1>2 DEF TypeOK
<1>5. LookupShape'
  BY <1>1, <1>2, <1>3, <1>4, ShapeStep
<1>6. visible' = visible /\ WriterProgress'
  BY <1>2, UndisturbedProgress
<1>7. \A u \in Threads : Asked(u)' = Asked(u)
  BY <1>1, <1>2, <1>4, AskedStays
<1> QED
  BY <1>2, <1>5, <1>6, <1>7, QuietHistory DEF HistoryInv

\* A step that touches neither the list nor the threads.
LEMMA IdleHistory ==
    ASSUME RefInv, HistoryInv, History, UNCHANGED <<list, rule, writer, threadVars>>
    PROVE  HistoryInv' /\ UNCHANGED Registry!vars
<1>1. UNCHANGED <<list, rule, writer, pc, name, found, held>>
  BY DEF threadVars
<1>2. visible' = visible /\ WriterProgress'
  BY <1>1, UndisturbedProgress
<1>3. LookupShape'
  BY <1>1 DEF HistoryInv, LookupShape
<1>4. \A t \in Threads : Asked(t)' = Asked(t)
  BY <1>1 DEF Asked
<1> QED
  BY <1>1, <1>2, <1>3, <1>4, QuietHistory DEF HistoryInv

\* A handler at work is no step of the registry: the new rules of AddRules are
\* in memory that no thread knows of.
LEMMA WorkingHistory ==
    ASSUME RefInv, RefInv', HistoryInv, History, Next, ~ ReleaseExclusive,
           BeginAddRules \/ BeginRemoveRules \/ BeginCleanup \/ WriterStep
    PROVE  HistoryInv' /\ UNCHANGED Registry!vars
<1>1. visible' = visible /\ WriterProgress'
  BY BeginProgress, WriterHistory
<1>2. UNCHANGED <<pc, name, found, held>>
  BY DEF BeginAddRules, BeginRemoveRules, BeginCleanup, AcquireExclusive, WriterStep,
     SkipRule, AddRule, CreateRuleFails, RemoveRule, NothingToRemove, CleanupRule, threadVars
<1>3. LookupShape'
  BY <1>2 DEF HistoryInv, LookupShape
<1>4. ASSUME NEW t \in Threads PROVE Given(t)' = Given(t)
  <2>1. CASE AddRule
    <3>1. PICK r \in RuleIds : Fresh(r) /\ CreateRule(r)
      BY <2>1 DEF AddRule
    <3>2. \A q : q # r => rule'[q] = rule[q]
      BY <3>1 DEF CreateRule, RefInv, TypeOK
    <3>3. found[t] # r
      BY <3>1 DEF Fresh
    <3>4. held[t] # r
      BY <3>1, NoneAssumption, PointersLive DEF Fresh
    <3> QED
      BY <1>2, <3>2, <3>3, <3>4 DEF Given
  <2>2. CASE ~ AddRule
    <3>1. UNCHANGED rule
      BY <2>2 DEF BeginAddRules, BeginRemoveRules, BeginCleanup, AcquireExclusive,
         WriterStep, SkipRule, CreateRuleFails, RemoveRule, NothingToRemove, CleanupRule
    <3> QED
      BY <1>2, <3>1 DEF Given
  <2> QED
    BY <2>1, <2>2
<1>5. [t \in Threads |-> Given(t)]' = [t \in Threads |-> Given(t)]
  BY <1>4
<1>6. [t \in Threads |-> Asked(t)]' = [t \in Threads |-> Asked(t)]
  BY <1>2 DEF Asked
<1> QED
  BY <1>1, <1>2, <1>3, <1>5, <1>6 DEF HistoryInv, Registry!vars

\* When the handler gives up the lock, the whole message takes effect.
LEMMA ReleaseHistory ==
    ASSUME RefInv, RefInv', HistoryInv, History, ReleaseExclusive
    PROVE  HistoryInv' /\ Registry!Next
<1>1. /\ TypeOK /\ TypeOK' /\ visible \in Seq(RuleType) /\ WriterProgress
      /\ DOMAIN visible = 1 .. Len(visible) /\ Len(visible) \in Nat
  BY DEF RefInv, HistoryInv
<1>2. UNCHANGED <<list, rule, pc, name, found, held>> /\ writer'.op = "none"
  BY <1>1 DEF ReleaseExclusive, threadVars, TypeOK
<1>3. visible' = Contents /\ Contents' = Contents /\ visible' \in Seq(RuleType)
  BY <1>1, <1>2, ContentsNow DEF History, Contents
<1>4. HistoryInv'
  <2>1. WriterProgress'
    BY <1>2, <1>3 DEF WriterProgress
  <2>2. LookupShape'
    BY <1>2 DEF HistoryInv, LookupShape
  <2> QED
    BY <1>3, <2>1, <2>2 DEF HistoryInv
<1> DEFINE F == [t \in Threads |-> Given(t)]
           A == [t \in Threads |-> Asked(t)]
<1>5. F' = F /\ A' = A
  BY <1>2 DEF Given, Asked
<1> HIDE DEF F, A
<1>6. CASE writer.op = "add"
  <2>1. PICK bulk \in Bulks : \E n \in 0 .. Len(bulk) : AddedSoFar(bulk, n)
    BY <1>1, <1>6 DEF WriterProgress
  <2>2. PICK n \in 0 .. Len(bulk) : AddedSoFar(bulk, n)
    BY <2>1
  <2>3. PICK k \in 0 .. n :
           \E new \in [1 .. k -> {Made(bulk)[i] : i \in 1 .. n}] :
              /\ Registry!Selects(Registry!Reverse(new), Made(bulk), NewsOf(bulk, n, visible))
              /\ Contents = new \o visible
    BY <2>2 DEF AddedSoFar
  <2>4. /\ Registry!Bulks = Bulks /\ Made(bulk) = [i \in DOMAIN bulk |-> Registry!NewRule(bulk[i])]
        /\ NewsOf(bulk, n, visible) = Registry!News(bulk, n)
    <3>1. NewsOf(bulk, n, visible) = Registry!News(bulk, n)
      <4>1. ASSUME NEW i \in 1 .. n, NEW j \in 1 .. (i - 1)
            PROVE  (VALID_RULE_CODE(bulk[j]) => ~ SameRule(bulk[i], NewRule(bulk[j])))
                   <=> (Registry!VALID_RULE_CODE(bulk[j])
                          => ~ Registry!SameRule(bulk[i], Registry!NewRule(bulk[j])))
        <5>1. Registry!NewRule(bulk[j]) = NewRule(bulk[j])
          BY ONLY SameQuestions
        <5>2. Registry!VALID_RULE_CODE(bulk[j]) <=> VALID_RULE_CODE(bulk[j])
          BY ONLY SameQuestions
        <5>3. Registry!SameRule(bulk[i], NewRule(bulk[j])) <=> SameRule(bulk[i], NewRule(bulk[j]))
          BY ONLY SameQuestions
        <5> QED
          BY ONLY <5>1, <5>2, <5>3
      <4>2. ASSUME NEW i \in 1 .. n
            PROVE  i \in NewsOf(bulk, n, visible) <=> i \in Registry!News(bulk, n)
        <5>1. VALID_RULE_CODE(bulk[i]) <=> Registry!VALID_RULE_CODE(bulk[i])
          BY SameQuestions
        <5> QED
          BY <4>1, <5>1 DEF NewsOf, Registry!News
      <4>3. NewsOf(bulk, n, visible) \subseteq 1 .. n /\ Registry!News(bulk, n) \subseteq 1 .. n
        BY DEF NewsOf, Registry!News
      <4> QED
        BY <4>2, <4>3
    <3>2. Registry!Bulks = Bulks
      BY DEF Registry!Bulks, Bulks
    <3>3. Made(bulk) = [i \in DOMAIN bulk |-> Registry!NewRule(bulk[i])]
      BY SameQuestions, ZenonT(40) DEF Made
    <3> QED
      BY <3>1, <3>2, <3>3
  <2>5. Registry!AddRules(bulk)
    BY <1>3, <1>5, <2>3, <2>4 DEF Registry!AddRules, F, A
  <2> QED
    BY <1>4, <2>4, <2>5 DEF Registry!Next
<1>7. CASE writer.op = "remove"
  <2>1. PICK bulk \in Bulks : \E n \in 0 .. Len(bulk) : KeptSoFar(bulk, n)
    BY <1>1, <1>7 DEF WriterProgress
  <2>2. PICK n \in 0 .. Len(bulk) : KeptSoFar(bulk, n)
    BY <2>1
  <2>3. Len(list) <= Len(visible) /\ Remaining(bulk, n)
    BY <2>2 DEF KeptSoFar
  <2>4. PICK P \in SUBSET DOMAIN visible :
           /\ Registry!Selects(Contents, visible, P)
           /\ \A i \in DOMAIN visible : ~ Registry!Known(visible[i], bulk) => i \in P
           /\ \A i \in P, j \in 1 .. n : ~ SameRule(bulk[j], visible[i])
    BY <2>2 DEF KeptSoFar
  <2>5. /\ Len(bulk) \in Nat /\ DOMAIN bulk = 1 .. Len(bulk)
        /\ \A i \in 1 .. Len(bulk) : bulk[i] \in RuleType
    BY BulkSeq
  <2>6. n = Len(bulk)
    BY <1>7, <2>3, <2>5 DEF ReleaseExclusive, Remaining
  <2>7. P = {i \in DOMAIN visible : ~ Registry!Known(visible[i], bulk)}
    <3>1. ASSUME NEW i \in P PROVE ~ Registry!Known(visible[i], bulk)
      <4> SUFFICES ASSUME NEW j \in DOMAIN bulk PROVE ~ SameRule(visible[i], bulk[j])
        BY SameQuestions
      <4>1. visible[i] \in RuleType /\ bulk[j] \in RuleType /\ j \in 1 .. n
        BY <1>1, <2>5, <2>6
      <4> QED
        BY <2>4, <4>1, SameRuleProperties
    <3> QED
      BY <2>4, <3>1
  <2>8. Contents \in [1 .. Len(list) -> Range(visible)] /\ Len(list) \in 0 .. Len(visible)
    <3>1. DOMAIN Contents = 1 .. Len(list) /\ Len(list) \in Nat /\ Contents \in Seq(RuleType)
      BY <1>1, ContentsNow
    <3>2. \A i \in 1 .. Len(list) : Contents[i] \in Range(visible)
      <4> SUFFICES ASSUME NEW i \in 1 .. Len(list) PROVE Contents[i] \in Range(visible)
        OBVIOUS
      <4>1. PICK p \in P : Contents[i] = visible[p]
        BY <2>4, <3>1 DEF Registry!Selects
      <4> QED
        BY <4>1 DEF Range
    <3> QED
      BY <1>1, <2>3, <3>1, <3>2
  <2>9. Registry!Bulks = Bulks /\ Registry!Range(visible) = Range(visible)
    BY DEF Registry!Bulks, Bulks, Registry!Range, Range
  <2>10. Registry!RemoveRules(bulk)
    <3>1. \E k \in 0 .. Len(visible) : \E kept \in [1 .. k -> Registry!Range(visible)] :
             /\ Registry!Selects(kept, visible,
                   {i \in DOMAIN visible : ~ Registry!Known(visible[i], bulk)})
             /\ visible' = kept
      BY <1>3, <2>4, <2>7, <2>8, <2>9
    <3> QED
      BY <1>5, <3>1 DEF Registry!RemoveRules, F, A
  <2> QED
    BY <1>4, <2>9, <2>10 DEF Registry!Next
<1>8. CASE writer.op = "cleanup"
  <2>1. list = <<>>
    BY <1>8 DEF ReleaseExclusive
  <2>2. visible' = <<>>
    BY <1>3, <2>1 DEF Contents
  <2>3. Registry!CleanupRules
    BY <1>5, <2>2 DEF Registry!CleanupRules, F, A
  <2> QED
    BY <1>4, <2>3 DEF Registry!Next
<1> QED
  BY <1>6, <1>7, <1>8 DEF ReleaseExclusive

\* Every step of the driver keeps the invariant and is a step of the registry,
\* or none.
LEMMA NextHistory ==
    ASSUME RefInv, RefInv', HistoryInv, [HistoryNext]_<<vars, visible>>
    PROVE  HistoryInv' /\ [Registry!Next]_Registry!vars
<1>1. CASE UNCHANGED <<vars, visible>>
  <2>1. UNCHANGED <<list, rule, writer, threadVars, pc, name, found, held, visible>>
    BY <1>1 DEF vars, threadVars
  <2>2. History
    BY <2>1 DEF History, HistoryInv, WriterProgress, Contents
  <2> QED
    BY <2>1, <2>2, IdleHistory
<1>2. CASE HistoryNext
  <2>1. Next /\ History
    BY <1>2 DEF HistoryNext, History
  <2>2. CASE BeginAddRules \/ BeginRemoveRules \/ BeginCleanup \/ WriterStep
    BY <2>1, <2>2, WorkingHistory, ReleaseHistory
  <2>3. ASSUME NEW t \in Threads, NEW f \in Files, PreCreate(t, f)
        PROVE  HistoryInv' /\ [Registry!Next]_Registry!vars
    BY <2>1, <2>3, AskHistory
  <2>4. ASSUME NEW t \in Threads, NEW f \in Files,
               NEW o \in {"write", "setinfo", "fsctl", "rename"}, PreOperation(t, f, o)
        PROVE  HistoryInv' /\ [Registry!Next]_Registry!vars
    BY <2>1, <2>4, QuietThread
  <2>5. ASSUME NEW t \in Threads, ThreadStep(t)
        PROVE  HistoryInv' /\ [Registry!Next]_Registry!vars
    <3>1. CASE ReferenceFreedEntry(t) \/ CompareUnfilledContext(t)
      <4>1. UNCHANGED <<list, rule, writer, threadVars>>
        BY <3>1 DEF ReferenceFreedEntry, CompareUnfilledContext
      <4> QED
        BY <2>1, <4>1, IdleHistory
    <3> QED
      BY <2>1, <2>5, <3>1, QuietThread, FinishHistory, AskHistory, ReferenceHistory,
         ReturnHistory DEF ThreadStep, CreateStep, EnforceStep
  <2>6. ASSUME NEW t \in Threads, MatchRules(t)
        PROVE  HistoryInv' /\ [Registry!Next]_Registry!vars
    BY <2>1, <2>6, MatchHistory
  <2>7. CASE Halted \/ \E f \in Files : CleanupFileContext(f)
    <3>1. UNCHANGED <<list, rule, writer, threadVars>>
      BY <2>7 DEF Halted, CleanupFileContext, vars
    <3> QED
      BY <2>1, <3>1, IdleHistory
  <2> QED
    BY <2>1, <2>2, <2>3, <2>4, <2>5, <2>6, <2>7 DEF Next
<1> QED
  BY <1>1, <1>2

\* At first there are no rules, no names and no handler.
LEMMA InitHistory ==
    ASSUME HistoryInit
    PROVE  HistoryInv /\ Registry!Init
<1>1. /\ visible = <<>> /\ Contents = <<>> /\ writer.op = "none"
      /\ \A t \in Threads : pc[t] = "idle" /\ found[t] = None /\ held[t] = None
      /\ name = [t \in Threads |-> None]
  BY DEF HistoryInit, Init, Contents
<1>2. HistoryInv
  BY <1>1 DEF HistoryInv, WriterProgress, LookupShape
<1>3. \A t \in Threads : Given(t) = None /\ Asked(t) = None
  BY <1>1 DEF Given, Asked
<1>4. /\ [t \in Threads |-> Given(t)] = [t \in Threads |-> None]
      /\ [t \in Threads |-> Asked(t)] = [t \in Threads |-> None]
  BY <1>3
<1> QED
  BY <1>1, <1>2, <1>4 DEF Registry!Init

-----------------------------------------------------------------------------
(* The theorems.                                                           *)

\* The history variable only looks on: without it, the behaviours are those
\* of the driver.
LEMMA HistoryLooksOn == HistorySpec => Spec
<1>1. HistoryInit => Init
  BY DEF HistoryInit
<1>2. [HistoryNext]_<<vars, visible>> => [Next]_vars
  BY DEF HistoryNext
<1> QED
  BY <1>1, <1>2, PTL DEF HistorySpec, Spec

\* At every step of FgcAddRules and FgcRemoveRules the list is what the rules
\* of the message dealt with so far make of the rules the handler found.
THEOREM HistoryInvariant == HistorySpec => []HistoryInv
<1>1. HistoryInit => HistoryInv
  BY InitHistory
<1>2. RefInv /\ RefInv' /\ HistoryInv /\ [HistoryNext]_<<vars, visible>> => HistoryInv'
  BY NextHistory
<1> QED
  BY <1>1, <1>2, HistoryLooksOn, RefInvariant, PTL DEF HistorySpec

\* The rules list of Rule.c, with its lock, its reference counts and handlers
\* that work through a message rule by rule, implements the registry: a
\* message takes effect as a whole, FgcMatchRules gives the newest rule in
\* force that matches, or none when none does, and the rule it gives does not
\* change in a callback's hands.
THEOREM EnforcementImplementsRegistry == HistorySpec => ImplementsRegistry
<1>1. HistoryInit => Registry!Init
  BY InitHistory
<1>2. RefInv /\ RefInv' /\ HistoryInv /\ [HistoryNext]_<<vars, visible>>
         => [Registry!Next]_Registry!vars
  BY NextHistory
<1> QED
  BY <1>1, <1>2, HistoryLooksOn, RefInvariant, HistoryInvariant, PTL
  DEF HistorySpec, ImplementsRegistry, Registry!Spec
=============================================================================
