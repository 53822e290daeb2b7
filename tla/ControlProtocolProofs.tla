----------------------- MODULE ControlProtocolProofs -----------------------
(***************************************************************************)
(* Proofs about ControlProtocol, for every set of threads, of strings, of  *)
(* rules and every width of a USHORT: whatever the rules are, the walks    *)
(* over them stay in their buffers and a query returns them whole.         *)
(***************************************************************************)
EXTENDS ControlProtocol, TLAPS, SequenceTheorems, FiniteSetTheorems, NaturalsInduction,
        WellFoundedInduction

-----------------------------------------------------------------------------
(* Induction over an interval, and functions defined by iteration.         *)

\* A set that has 0, and with a number below n the next one, has all up to n.
LEMMA IntervalInd ==
    ASSUME NEW n \in Nat, NEW T, 0 \in T, \A i \in 1 .. n : i - 1 \in T => i \in T
    PROVE  \A i \in 0 .. n : i \in T
<1> DEFINE R == OpToRel(<, Nat)
           U == {i \in 0 .. n : i \notin T}
<1> SUFFICES ASSUME U # {} PROVE FALSE
  OBVIOUS
<1>1. IsWellFoundedOn(R, Nat)
  BY NatLessThanWellFounded
<1>2. R = {p \in Nat \X Nat : p[1] < p[2]}
  BY DEF OpToRel
<1> HIDE DEF R
<1>3. U \subseteq Nat
  OBVIOUS
<1>4. PICK x \in U : \A y \in U : ~ (<<y, x>> \in R)
  BY <1>1, <1>3, WFMin
<1>5. x \in 1 .. n /\ x - 1 \in 0 .. n /\ x - 1 \in Nat /\ x \in Nat
  BY <1>4
<1>6. x - 1 \notin U
  <2>1. <<x - 1, x>> \in R
    BY <1>2, <1>5
  <2> QED
    BY <1>4, <2>1
<1> QED
  BY <1>4, <1>5, <1>6

\* g begins with b and takes the first k of the steps F.
Run(F, b, V, k, g) ==
    /\ g \in [0 .. k -> V] /\ g[0] = b
    /\ \A i \in 1 .. k : g[i] = F[i][g[i - 1]]

Runs(F, b, V, k) == \E g : Run(F, b, V, k, g)

LEMMA RunsExist ==
    ASSUME NEW n \in Nat, NEW V, NEW b \in V, NEW F \in [1 .. n -> [V -> V]]
    PROVE  Runs(F, b, V, n)
<1> DEFINE T == {k \in Nat : Runs(F, b, V, k)}
<1>1. 0 \in T
  <2> DEFINE z == [i \in 0 .. 0 |-> b]
  <2>1. z \in [0 .. 0 -> V] /\ z[0] = b /\ \A i \in 1 .. 0 : FALSE
    OBVIOUS
  <2> HIDE DEF z
  <2>2. Run(F, b, V, 0, z)
    BY <2>1 DEF Run
  <2> QED
    BY <2>2 DEF Runs
<1>2. ASSUME NEW k \in 1 .. n, Runs(F, b, V, k - 1) PROVE Runs(F, b, V, k)
  <2>1. PICK g : Run(F, b, V, k - 1, g)
    BY <1>2 DEF Runs
  <2>2. /\ g \in [0 .. k - 1 -> V] /\ g[0] = b
        /\ \A i \in 1 .. k - 1 : g[i] = F[i][g[i - 1]]
    BY <2>1 DEF Run
  <2>3. g[k - 1] \in V /\ F[k] \in [V -> V] /\ F[k][g[k - 1]] \in V
    BY <2>2
  <2> DEFINE h == [i \in 0 .. k |-> IF i = k THEN F[k][g[k - 1]] ELSE g[i]]
  <2>4. h \in [0 .. k -> V] /\ h[0] = b
    BY <2>2, <2>3
  <2>5. ASSUME NEW i \in 1 .. k PROVE h[i] = F[i][h[i - 1]]
    <3>1. CASE i = k
      <4>1. i - 1 \in 0 .. k /\ i - 1 # k
        BY <3>1
      <4> QED
        BY <3>1, <4>1
    <3>2. CASE i # k
      <4>1. i \in 1 .. k - 1 /\ i - 1 \in 0 .. k /\ i - 1 # k
        BY <3>2
      <4> QED
        BY <2>2, <3>2, <4>1
    <3> QED
      BY <3>1, <3>2
  <2> HIDE DEF h
  <2>6. Run(F, b, V, k, h)
    BY <2>4, <2>5 DEF Run
  <2> QED
    BY <2>6 DEF Runs
<1>3. \A k \in 1 .. n : k - 1 \in T => k \in T
  BY <1>2
<1> HIDE DEF T
<1>4. \A k \in 0 .. n : k \in T
  BY ONLY <1>1, <1>3, n \in Nat, IntervalInd
<1>5. n \in T
  BY <1>4
<1> QED
  BY <1>5 DEF T

-----------------------------------------------------------------------------
(* Rules one behind the other.                                             *)

LEMMA SizesOf ==
    ASSUME NEW rs \in Seq(RuleType)
    PROVE  /\ Len(rs) \in Nat /\ DOMAIN rs = 1 .. Len(rs)
           /\ \A i \in 1 .. Len(rs) : /\ rs[i] \in RuleType
                                      /\ RuleSize(rs[i]) \in Nat /\ RuleSize(rs[i]) > 0
<1>1. Len(rs) \in Nat /\ DOMAIN rs = 1 .. Len(rs) /\ \A i \in 1 .. Len(rs) : rs[i] \in RuleType
  OBVIOUS
<1>2. ASSUME NEW r \in RuleType PROVE RuleSize(r) \in Nat /\ RuleSize(r) > 0
  <2>1. r.expr \in Strings
    BY DEF RuleType
  <2>2. r.expr.len \in Nat
    BY <2>1, LengthAssumption
  <2> QED
    BY <2>2 DEF RuleSize, FG_RULE_SIZE, WCHAR
<1> QED
  BY <1>1, <1>2

\* The equation that defines Offsets.
LEMMA OffsetsEquation ==
    ASSUME NEW rs \in Seq(RuleType)
    PROVE  Offsets(rs) = [i \in 1 .. (Len(rs) + 1) |->
                             IF i = 1 THEN 0 ELSE Offsets(rs)[i - 1] + RuleSize(rs[i - 1])]
<1> DEFINE L == Len(rs)
           F == [i \in 1 .. L |-> [v \in Nat |-> v + RuleSize(rs[i])]]
<1>1. L \in Nat /\ \A i \in 1 .. L : RuleSize(rs[i]) \in Nat
  BY SizesOf
<1>2. /\ F \in [1 .. L -> [Nat -> Nat]]
      /\ \A i \in 1 .. L : \A v \in Nat : F[i][v] = v + RuleSize(rs[i])
  BY <1>1
<1> HIDE DEF L, F
<1>3. PICK g : Run(F, 0, Nat, L, g)
  <2>1. Runs(F, 0, Nat, L)
    <3>1. 0 \in Nat
      OBVIOUS
    <3> QED
      BY ONLY <1>1, <1>2, <3>1, RunsExist
  <2> QED
    BY <2>1 DEF Runs
<1>4. /\ g \in [0 .. L -> Nat] /\ g[0] = 0
      /\ \A i \in 1 .. L : g[i] = F[i][g[i - 1]]
  BY <1>3 DEF Run
<1>5. \A i \in 1 .. L : g[i] = g[i - 1] + RuleSize(rs[i])
  <2> SUFFICES ASSUME NEW i \in 1 .. L PROVE g[i] = g[i - 1] + RuleSize(rs[i])
    OBVIOUS
  <2>1. g[i - 1] \in Nat
    BY <1>1, <1>4
  <2> QED
    BY <1>2, <1>4, <2>1
<1> DEFINE h == [i \in 1 .. (L + 1) |-> g[i - 1]]
<1>6. h = [i \in 1 .. (L + 1) |-> IF i = 1 THEN 0 ELSE h[i - 1] + RuleSize(rs[i - 1])]
  <2>1. ASSUME NEW i \in 1 .. (L + 1)
        PROVE  h[i] = IF i = 1 THEN 0 ELSE h[i - 1] + RuleSize(rs[i - 1])
    <3>1. CASE i = 1
      BY <1>4, <3>1
    <3>2. CASE i # 1
      <4>1. i - 1 \in 1 .. L /\ i - 1 \in 1 .. (L + 1)
        BY <1>1, <3>2
      <4>2. h[i] = g[i - 1] /\ h[i - 1] = g[(i - 1) - 1]
        BY <4>1
      <4> QED
        BY <1>5, <3>2, <4>1, <4>2
    <3> QED
      BY <3>1, <3>2
  <2> QED
    BY <2>1
<1> HIDE DEF h
<1>7. \E f : f = [i \in 1 .. (L + 1) |-> IF i = 1 THEN 0 ELSE f[i - 1] + RuleSize(rs[i - 1])]
  BY <1>6
<1>8. Offsets(rs) = CHOOSE f : f = [i \in 1 .. (L + 1) |->
                                      IF i = 1 THEN 0 ELSE f[i - 1] + RuleSize(rs[i - 1])]
  BY Zenon DEF Offsets, L
<1> QED
  BY <1>7, <1>8, Zenon DEF L

\* The offsets rise with the sizes of the rules.
LEMMA OffsetsRise ==
    ASSUME NEW rs \in Seq(RuleType)
    PROVE  /\ Offsets(rs) \in [1 .. (Len(rs) + 1) -> Nat] /\ Offsets(rs)[1] = 0
           /\ \A i \in 1 .. Len(rs) : Offsets(rs)[i + 1] = Offsets(rs)[i] + RuleSize(rs[i])
           /\ TotalSize(rs) \in Nat
<1> DEFINE L == Len(rs)
           at == Offsets(rs)
<1>1. at = [i \in 1 .. (L + 1) |-> IF i = 1 THEN 0 ELSE at[i - 1] + RuleSize(rs[i - 1])]
  BY OffsetsEquation
<1>2. L \in Nat /\ \A i \in 1 .. L : RuleSize(rs[i]) \in Nat
  BY SizesOf
<1>x. TotalSize(rs) = at[L + 1]
  BY DEF TotalSize
<1> HIDE DEF at, L
<1>3. at[1] = 0 /\ DOMAIN at = 1 .. (L + 1)
  <2>1. 1 \in 1 .. (L + 1)
    BY <1>2
  <2> QED
    BY <1>1, <2>1
<1>4. \A i \in 1 .. L : at[i + 1] = at[i] + RuleSize(rs[i])
  <2> SUFFICES ASSUME NEW i \in 1 .. L PROVE at[i + 1] = at[i] + RuleSize(rs[i])
    OBVIOUS
  <2>1. i + 1 \in 1 .. (L + 1) /\ i + 1 # 1 /\ (i + 1) - 1 = i
    BY <1>2
  <2> QED
    BY <1>1, <2>1
<1> DEFINE T == {k \in Nat : at[k + 1] \in Nat}
<1>5. 0 \in T
  BY <1>3
<1>6. \A k \in 1 .. L : k - 1 \in T => k \in T
  <2> SUFFICES ASSUME NEW k \in 1 .. L, at[k] \in Nat PROVE at[k + 1] \in Nat
    BY <1>2
  <2> QED
    BY <1>2, <1>4
<1> HIDE DEF T
<1>7. \A k \in 0 .. L : k \in T
  BY ONLY <1>2, <1>5, <1>6, IntervalInd
<1>8. \A i \in 1 .. (L + 1) : at[i] \in Nat
  <2> SUFFICES ASSUME NEW i \in 1 .. (L + 1) PROVE at[i] \in Nat
    OBVIOUS
  <2>1. i - 1 \in 0 .. L /\ (i - 1) + 1 = i
    BY <1>2
  <2> QED
    BY <1>7, <2>1 DEF T
<1>9. at \in [1 .. (L + 1) -> Nat]
  BY <1>1, <1>3, <1>8
<1>10. TotalSize(rs) \in Nat
  BY <1>2, <1>8, <1>x
<1> QED
  BY <1>3, <1>4, <1>9, <1>10 DEF at, L

\* A rule begins behind all those before it.
LEMMA OffsetsIncrease ==
    ASSUME NEW rs \in Seq(RuleType), NEW i \in 1 .. (Len(rs) + 1), NEW j \in 1 .. (Len(rs) + 1),
           i < j
    PROVE  Offsets(rs)[i] < Offsets(rs)[j]
<1> DEFINE L == Len(rs)
           at == Offsets(rs)
           T == {k \in Nat : at[i] < at[i + 1 + k]}
<1>1. L \in Nat /\ \A k \in 1 .. L : RuleSize(rs[k]) \in Nat /\ RuleSize(rs[k]) > 0
  BY SizesOf
<1>2. at \in [1 .. (L + 1) -> Nat] /\ \A k \in 1 .. L : at[k + 1] = at[k] + RuleSize(rs[k])
  BY OffsetsRise
<1> HIDE DEF L, at
<1>3. i \in 1 .. L /\ j \in 1 .. (L + 1) /\ L - i \in Nat
  BY <1>1 DEF L
<1>4. 0 \in T
  <2>1. at[i + 1] = at[i] + RuleSize(rs[i])
    BY <1>2, <1>3
  <2>2. at[i] \in Nat /\ RuleSize(rs[i]) \in Nat /\ RuleSize(rs[i]) > 0
    BY <1>1, <1>2, <1>3
  <2>3. at[i] < at[i + 1]
    BY <2>1, <2>2
  <2>4. i + 1 + 0 = i + 1
    BY <1>3
  <2> QED
    BY <2>3, <2>4
<1>5. \A k \in 1 .. (L - i) : k - 1 \in T => k \in T
  <2> SUFFICES ASSUME NEW k \in 1 .. (L - i), at[i] < at[i + 1 + (k - 1)]
               PROVE  at[i] < at[i + 1 + k]
    BY <1>3
  <2>1. /\ i + 1 + (k - 1) = i + k /\ i + 1 + k = (i + k) + 1
        /\ i \in 1 .. (L + 1) /\ i + k \in 1 .. L /\ i + k \in 1 .. (L + 1)
    BY <1>1, <1>3
  <2>2. at[(i + k) + 1] = at[i + k] + RuleSize(rs[i + k])
    BY <1>2, <2>1
  <2>3. at[i] \in Nat /\ at[i + k] \in Nat /\ RuleSize(rs[i + k]) \in Nat
    BY <1>1, <1>2, <2>1
  <2>4. at[i] < at[i + k]
    BY <2>1
  <2>5. at[i] < at[(i + k) + 1]
    BY <2>2, <2>3, <2>4
  <2> QED
    BY <2>1, <2>5
<1> HIDE DEF T
<1>6. \A k \in 0 .. (L - i) : k \in T
  BY ONLY <1>3, <1>4, <1>5, IntervalInd
<1>7. j - (i + 1) \in 0 .. (L - i) /\ i + 1 + (j - (i + 1)) = j
  BY <1>1, <1>3
<1>8. at[i] < at[j]
  BY <1>6, <1>7 DEF T
<1> QED
  BY <1>8 DEF at

\* So the record at an offset is the one that begins there.
LEMMA ImageIs ==
    ASSUME NEW rs \in Seq(RuleType)
    PROVE  /\ DOMAIN Image(rs) = {Offsets(rs)[i] : i \in 1 .. Len(rs)}
           /\ \A i \in 1 .. Len(rs) : Image(rs)[Offsets(rs)[i]] = rs[i]
           /\ \A i, j \in 1 .. Len(rs) : Offsets(rs)[i] = Offsets(rs)[j] => i = j
<1> DEFINE at == Offsets(rs)
<1>1. Len(rs) \in Nat /\ DOMAIN rs = 1 .. Len(rs)
  BY SizesOf
<1>2. ASSUME NEW i \in 1 .. Len(rs), NEW j \in 1 .. Len(rs), at[i] = at[j] PROVE i = j
  <2>1. i \in 1 .. (Len(rs) + 1) /\ j \in 1 .. (Len(rs) + 1)
    BY <1>1
  <2>2. at \in [1 .. (Len(rs) + 1) -> Nat]
    BY OffsetsRise
  <2>3. at[i] \in Nat /\ at[j] \in Nat
    BY <2>1, <2>2
  <2> HIDE DEF at
  <2>4. ASSUME i < j PROVE FALSE
    <3>1. at[i] < at[j]
      BY <2>1, <2>4, OffsetsIncrease DEF at
    <3> QED
      BY <1>2, <2>3, <3>1
  <2>5. ASSUME j < i PROVE FALSE
    <3>1. at[j] < at[i]
      BY <2>1, <2>5, OffsetsIncrease DEF at
    <3> QED
      BY <1>2, <2>3, <3>1
  <2> QED
    BY <2>1, <2>4, <2>5
<1>3. Image(rs) = [o \in {at[i] : i \in 1 .. Len(rs)} |-> rs[CHOOSE i \in 1 .. Len(rs) : at[i] = o]]
  BY <1>1 DEF Image
<1>4. ASSUME NEW i \in 1 .. Len(rs) PROVE Image(rs)[at[i]] = rs[i]
  <2>1. (CHOOSE j \in 1 .. Len(rs) : at[j] = at[i]) = i
    BY <1>2
  <2>2. at[i] \in {at[j] : j \in 1 .. Len(rs)}
    OBVIOUS
  <2>3. Image(rs)[at[i]] = rs[CHOOSE j \in 1 .. Len(rs) : at[j] = at[i]]
    BY <1>3, <2>2
  <2> QED
    BY <2>1, <2>3
<1>5. DOMAIN Image(rs) = {at[i] : i \in 1 .. Len(rs)}
  BY <1>3
<1> QED
  BY <1>2, <1>4, <1>5

-----------------------------------------------------------------------------
(* Selecting from a list.                                                  *)

\* One step of the selection.
Picked(rs, I, i, v) == IF i \in I THEN Append(v, rs[i]) ELSE v

\* The selection from the first rules of the list.
Upto(rs, I) == CHOOSE f : f = [i \in 0 .. Len(rs) |->
                                 IF i = 0 THEN <<>> ELSE Picked(rs, I, i, f[i - 1])]

LEMMA UptoEquation ==
    ASSUME NEW S, NEW rs \in Seq(S), NEW I
    PROVE  /\ Upto(rs, I) = [i \in 0 .. Len(rs) |->
                               IF i = 0 THEN <<>> ELSE Picked(rs, I, i, Upto(rs, I)[i - 1])]
           /\ Select(rs, I) = Upto(rs, I)[Len(rs)]
<1> DEFINE L == Len(rs)
           F == [i \in 1 .. L |-> [v \in Seq(S) |-> Picked(rs, I, i, v)]]
<1>1. L \in Nat /\ \A i \in 1 .. L : rs[i] \in S
  OBVIOUS
<1>2. \A i \in 1 .. L : \A v \in Seq(S) : Picked(rs, I, i, v) \in Seq(S)
  <2> SUFFICES ASSUME NEW i \in 1 .. L, NEW v \in Seq(S) PROVE Picked(rs, I, i, v) \in Seq(S)
    OBVIOUS
  <2>1. rs[i] \in S
    BY <1>1
  <2>2. Append(v, rs[i]) \in Seq(S)
    BY <2>1
  <2> QED
    BY <2>2 DEF Picked
<1>3. /\ F \in [1 .. L -> [Seq(S) -> Seq(S)]]
      /\ \A i \in 1 .. L : \A v \in Seq(S) : F[i][v] = Picked(rs, I, i, v)
  BY <1>2
<1> HIDE DEF L, F
<1>4. PICK g : Run(F, <<>>, Seq(S), L, g)
  <2>1. <<>> \in Seq(S)
    OBVIOUS
  <2>2. Runs(F, <<>>, Seq(S), L)
    BY ONLY <1>1, <1>3, <2>1, RunsExist
  <2> QED
    BY <2>2 DEF Runs
<1>5. /\ g \in [0 .. L -> Seq(S)] /\ g[0] = <<>>
      /\ \A i \in 1 .. L : g[i] = F[i][g[i - 1]]
  BY <1>4 DEF Run
<1>6. g = [i \in 0 .. L |-> IF i = 0 THEN <<>> ELSE Picked(rs, I, i, g[i - 1])]
  <2>1. ASSUME NEW i \in 0 .. L PROVE g[i] = IF i = 0 THEN <<>> ELSE Picked(rs, I, i, g[i - 1])
    <3>1. CASE i = 0
      BY <1>5, <3>1
    <3>2. CASE i # 0
      <4>1. i \in 1 .. L /\ g[i - 1] \in Seq(S)
        BY <1>1, <1>5, <3>2
      <4> QED
        BY <1>3, <1>5, <3>2, <4>1
    <3> QED
      BY <3>1, <3>2
  <2> QED
    BY <1>5, <2>1
<1>7. \E f : f = [i \in 0 .. L |-> IF i = 0 THEN <<>> ELSE Picked(rs, I, i, f[i - 1])]
  BY <1>6
<1>8. Upto(rs, I) = CHOOSE f : f = [i \in 0 .. L |-> IF i = 0 THEN <<>> ELSE Picked(rs, I, i, f[i - 1])]
  BY Zenon DEF Upto, L
<1>9. Select(rs, I) = Upto(rs, I)[Len(rs)]
  BY Zenon DEF Select, Upto, Picked
<1> QED
  BY <1>7, <1>8, <1>9, Zenon DEF L

\* v has the rules among the first k of rs with an index in I, in their order.
Selection(rs, I, k, v) ==
    /\ Len(v) <= k
    /\ \A j \in 1 .. Len(v) : \E i \in 1 .. k : i \in I /\ v[j] = rs[i]
    /\ \A i \in 1 .. k : i \in I => \E j \in 1 .. Len(v) : v[j] = rs[i]
    /\ \A j, l \in 1 .. Len(v) : j < l =>
          \E i, m \in 1 .. k : i < m /\ v[j] = rs[i] /\ v[l] = rs[m]
    /\ (\A i \in 1 .. k : i \in I) => Len(v) = k
    /\ (\A i, m \in 1 .. k : i \notin I /\ m \notin I => i = m) => Len(v) >= k - 1

LEMMA SelectionPicks ==
    ASSUME NEW S, NEW rs \in Seq(S), NEW I, NEW k \in 1 .. Len(rs), NEW v \in Seq(S),
           Selection(rs, I, k - 1, v), k \in I
    PROVE  Selection(rs, I, k, Append(v, rs[k]))
<1> DEFINE w == Append(v, rs[k])
           n == Len(v)
<1>1. Len(rs) \in Nat /\ k \in Nat /\ k - 1 \in Nat /\ n \in Nat
  OBVIOUS
<1>2. rs[k] \in S
  OBVIOUS
<1>3. Len(w) = n + 1 /\ w[n + 1] = rs[k] /\ \A j \in 1 .. n : w[j] = v[j]
  BY <1>2
<1> HIDE DEF w
<1>4. /\ n <= k - 1
      /\ \A j \in 1 .. n : \E i \in 1 .. (k - 1) : i \in I /\ v[j] = rs[i]
      /\ \A i \in 1 .. (k - 1) : i \in I => \E j \in 1 .. n : v[j] = rs[i]
      /\ \A j, l \in 1 .. n : j < l =>
            \E i, m \in 1 .. (k - 1) : i < m /\ v[j] = rs[i] /\ v[l] = rs[m]
      /\ (\A i \in 1 .. (k - 1) : i \in I) => n = k - 1
      /\ (\A i, m \in 1 .. (k - 1) : i \notin I /\ m \notin I => i = m) => n >= (k - 1) - 1
  BY DEF Selection
<1> HIDE DEF n
<1>a. \A i \in 1 .. (k - 1) : i \in 1 .. k /\ i < k
  BY <1>1
<1>b. \A i \in 1 .. k : i \in 1 .. (k - 1) \/ i = k
  BY <1>1
<1>c. \A j \in 1 .. (n + 1) : j \in 1 .. n \/ j = n + 1
  BY <1>1
<1>5. Len(w) <= k
  BY <1>1, <1>3, <1>4
<1>6. ASSUME NEW j \in 1 .. (n + 1) PROVE \E i \in 1 .. k : i \in I /\ w[j] = rs[i]
  <2>1. CASE j \in 1 .. n
    <3>1. PICK i \in 1 .. (k - 1) : i \in I /\ v[j] = rs[i]
      BY <1>4, <2>1
    <3>2. i \in 1 .. k /\ w[j] = v[j]
      BY <1>3, <1>a, <2>1
    <3> QED
      BY <3>1, <3>2
  <2>2. CASE j = n + 1
    <3>1. k \in 1 .. k
      BY <1>1
    <3> QED
      BY <1>3, <2>2, <3>1
  <2> QED
    BY <1>c, <2>1, <2>2
<1>7. ASSUME NEW i \in 1 .. k, i \in I PROVE \E j \in 1 .. (n + 1) : w[j] = rs[i]
  <2>1. CASE i \in 1 .. (k - 1)
    <3>1. PICK j \in 1 .. n : v[j] = rs[i]
      BY <1>4, <1>7, <2>1
    <3>2. j \in 1 .. (n + 1)
      BY <1>1
    <3> QED
      BY <1>3, <3>1, <3>2
  <2>2. CASE i = k
    <3>1. n + 1 \in 1 .. (n + 1)
      BY <1>1
    <3> QED
      BY <1>3, <2>2, <3>1
  <2> QED
    BY <1>b, <2>1, <2>2
<1>8. ASSUME NEW j \in 1 .. (n + 1), NEW l \in 1 .. (n + 1), j < l
      PROVE  \E i, m \in 1 .. k : i < m /\ w[j] = rs[i] /\ w[l] = rs[m]
  <2>1. j \in 1 .. n
    BY <1>1, <1>8
  <2>2. CASE l \in 1 .. n
    <3>1. PICK i \in 1 .. (k - 1), m \in 1 .. (k - 1) : i < m /\ v[j] = rs[i] /\ v[l] = rs[m]
      BY <1>4, <1>8, <2>1, <2>2
    <3>2. i \in 1 .. k /\ m \in 1 .. k /\ w[j] = v[j] /\ w[l] = v[l]
      BY <1>3, <1>a, <2>1, <2>2
    <3> QED
      BY <3>1, <3>2
  <2>3. CASE l = n + 1
    <3>1. PICK i \in 1 .. (k - 1) : v[j] = rs[i]
      BY <1>4, <2>1
    <3>2. k \in 1 .. k /\ i \in 1 .. k /\ i < k
      BY <1>1, <1>a
    <3>3. w[j] = v[j] /\ w[l] = rs[k]
      BY <1>3, <2>1, <2>3
    <3> QED
      BY <3>1, <3>2, <3>3
  <2> QED
    BY <1>c, <2>2, <2>3
<1>9. ASSUME \A i \in 1 .. k : i \in I PROVE Len(w) = k
  <2>1. n = k - 1
    BY <1>4, <1>9, <1>a
  <2> QED
    BY <1>1, <1>3, <2>1
<1>10. ASSUME \A i, m \in 1 .. k : i \notin I /\ m \notin I => i = m PROVE Len(w) >= k - 1
  <2>1. n >= (k - 1) - 1
    BY <1>4, <1>10, <1>a
  <2> QED
    BY <1>1, <1>3, <2>1
<1>11. Selection(rs, I, k, w)
  BY <1>3, <1>5, <1>6, <1>7, <1>8, <1>9, <1>10 DEF Selection
<1> QED
  BY <1>11 DEF w

LEMMA SelectionSkips ==
    ASSUME NEW S, NEW rs \in Seq(S), NEW I, NEW k \in 1 .. Len(rs), NEW v \in Seq(S),
           Selection(rs, I, k - 1, v), k \notin I
    PROVE  Selection(rs, I, k, v)
<1> DEFINE n == Len(v)
<1>1. Len(rs) \in Nat /\ k \in Nat /\ k - 1 \in Nat /\ n \in Nat
  OBVIOUS
<1>4. /\ n <= k - 1
      /\ \A j \in 1 .. n : \E i \in 1 .. (k - 1) : i \in I /\ v[j] = rs[i]
      /\ \A i \in 1 .. (k - 1) : i \in I => \E j \in 1 .. n : v[j] = rs[i]
      /\ \A j, l \in 1 .. n : j < l =>
            \E i, m \in 1 .. (k - 1) : i < m /\ v[j] = rs[i] /\ v[l] = rs[m]
      /\ (\A i \in 1 .. (k - 1) : i \in I) => n = k - 1
  BY DEF Selection
<1> HIDE DEF n
<1>a. \A i \in 1 .. (k - 1) : i \in 1 .. k /\ i # k
  BY <1>1
<1>b. \A i \in 1 .. k : i \in 1 .. (k - 1) \/ i = k
  BY <1>1
<1>k. k \in 1 .. k
  BY <1>1
<1>5. n <= k
  BY <1>1, <1>4
<1>6. ASSUME NEW j \in 1 .. n PROVE \E i \in 1 .. k : i \in I /\ v[j] = rs[i]
  BY <1>4, <1>a
<1>7. ASSUME NEW i \in 1 .. k, i \in I PROVE \E j \in 1 .. n : v[j] = rs[i]
  BY <1>4, <1>7, <1>b
<1>8. ASSUME NEW j \in 1 .. n, NEW l \in 1 .. n, j < l
      PROVE  \E i, m \in 1 .. k : i < m /\ v[j] = rs[i] /\ v[l] = rs[m]
  BY <1>4, <1>8, <1>a
<1>9. ~ (\A i \in 1 .. k : i \in I)
  BY <1>k
<1>10. ASSUME \A i, m \in 1 .. k : i \notin I /\ m \notin I => i = m PROVE n >= k - 1
  <2>1. \A i \in 1 .. (k - 1) : i \in I
    BY <1>10, <1>a, <1>k
  <2> QED
    BY <1>1, <1>4, <2>1
<1> QED
  BY <1>5, <1>6, <1>7, <1>8, <1>9, <1>10 DEF Selection, n

\* What Select returns.
LEMMA SelectIs ==
    ASSUME NEW S, NEW rs \in Seq(S), NEW I
    PROVE  Select(rs, I) \in Seq(S) /\ Selection(rs, I, Len(rs), Select(rs, I))
<1> DEFINE L == Len(rs)
           u == Upto(rs, I)
<1>1. L \in Nat /\ \A i \in 1 .. L : rs[i] \in S
  OBVIOUS
<1>2. /\ u = [i \in 0 .. L |-> IF i = 0 THEN <<>> ELSE Picked(rs, I, i, u[i - 1])]
      /\ Select(rs, I) = u[L]
  BY UptoEquation
<1> HIDE DEF u
<1> DEFINE T == {k \in Nat : u[k] \in Seq(S) /\ Selection(rs, I, k, u[k])}
<1>3. 0 \in T
  <2>1. u[0] = <<>>
    BY <1>1, <1>2
  <2>2. <<>> \in Seq(S) /\ Len(<<>>) = 0 /\ \A i \in 1 .. 0 : FALSE
    OBVIOUS
  <2>3. Selection(rs, I, 0, <<>>)
    BY <2>2 DEF Selection
  <2> QED
    BY <2>1, <2>2, <2>3
<1>4. \A k \in 1 .. L : k - 1 \in T => k \in T
  <2> SUFFICES ASSUME NEW k \in 1 .. L, u[k - 1] \in Seq(S), Selection(rs, I, k - 1, u[k - 1])
               PROVE  u[k] \in Seq(S) /\ Selection(rs, I, k, u[k])
    BY <1>1
  <2>1. u[k] = Picked(rs, I, k, u[k - 1])
    <3>1. k \in 0 .. L /\ k # 0
      BY <1>1
    <3> QED
      BY <1>2, <3>1
  <2>2. rs[k] \in S
    BY <1>1
  <2>3. CASE k \in I
    <3>1. u[k] = Append(u[k - 1], rs[k])
      BY <2>1, <2>3 DEF Picked
    <3> QED
      BY <2>2, <2>3, <3>1, SelectionPicks
  <2>4. CASE k \notin I
    <3>1. u[k] = u[k - 1]
      BY <2>1, <2>4 DEF Picked
    <3> QED
      BY <2>4, <3>1, SelectionSkips
  <2> QED
    BY <2>3, <2>4
<1> HIDE DEF T
<1>5. \A k \in 0 .. L : k \in T
  BY ONLY <1>1, <1>3, <1>4, IntervalInd
<1>6. L \in T
  BY <1>1, <1>5
<1> QED
  BY <1>2, <1>6 DEF T

-----------------------------------------------------------------------------
(* The rules a message carries.                                            *)

\* What ExpressionsWhole says of one rule.
WholeRule(r) ==
    \E u \in UserRules :
        \/ r = NewRule(u)
        \/ /\ ~ Countable(u)
           /\ r.expr.text = Upcase[u.expr].text
           /\ r.expr.len < u.expr.len

Whole == {r \in RuleType : WholeRule(r)}

\* The rules as FglCreateRulesMessage writes them.
Sent == {[u EXCEPT !.expr = Cut(u.expr)] : u \in UserRules}

LEMMA RemainderIs ==
    ASSUME NEW m \in Nat, m > 0, NEW x \in Int
    PROVE  x % m \in 0 .. m - 1 /\ (x \in 0 .. m - 1 => x % m = x)
OBVIOUS

\* Cut leaves alone what a USHORT can count, and shortens the rest.
LEMMA CutIs ==
    ASSUME NEW s \in Strings
    PROVE  /\ Cut(s) \in Strings
           /\ Upcase[Cut(s)].text = Upcase[s].text /\ Upcase[Cut(s)].len = Cut(s).len
           /\ s.len * WCHAR < UShort => Cut(s) = s
           /\ ~ (s.len * WCHAR < UShort) => Cut(s).len < s.len
<1> DEFINE n == ((s.len * 2) % UShort) \div 2
           c == [s EXCEPT !.len = n]
<1>1. s = [text |-> s.text, len |-> s.len] /\ s.len \in Nat
  BY LengthAssumption
<1>2. Cut(s) = c
  BY DEF Cut, WCHAR
<1>3. c \in Strings /\ Upcase[c].text = Upcase[s].text
  BY CutAssumption
<1>4. Upcase[c].len = c.len
  BY <1>3, CutAssumption
<1>5. c = [text |-> s.text, len |-> n] /\ c.len = n
  BY <1>1
<1> DEFINE x == s.len * 2
           y == x % UShort
<1>6. x \in Nat /\ UShort \in Nat /\ UShort > 0
  BY <1>1, UShortAssumption
<1> HIDE DEF x
<1>7. y \in 0 .. UShort - 1 /\ (x \in 0 .. UShort - 1 => y = x)
  BY <1>6, RemainderIs
<1> HIDE DEF y
<1>8. n = y \div 2
  BY DEF x, y
<1>9. s.len * WCHAR = x
  BY DEF x, WCHAR
<1>10. ASSUME s.len * WCHAR < UShort PROVE Cut(s) = s
  <2>1. y = s.len * 2
    BY <1>6, <1>7, <1>9, <1>10 DEF x
  <2>2. n = s.len
    BY <1>1, <1>8, <2>1
  <2> QED
    BY <1>1, <1>2, <1>5, <2>2
<1>11. ASSUME ~ (s.len * WCHAR < UShort) PROVE Cut(s).len < s.len
  <2>1. y < x
    BY <1>6, <1>7, <1>9, <1>11
  <2>2. y \div 2 < s.len
    BY <1>1, <1>6, <1>7, <2>1 DEF x
  <2> QED
    BY <1>2, <1>5, <1>8, <2>2
<1> QED
  BY <1>2, <1>3, <1>4, <1>10, <1>11

\* What is sent are rules, and a rule created from one of them is whole.
LEMMA SentIs ==
    ASSUME NEW m \in Sent
    PROVE  m \in RuleType /\ NewRule(m) \in Whole
<1>1. PICK u \in UserRules : m = [u EXCEPT !.expr = Cut(u.expr)]
  BY DEF Sent
<1>2. u \in RuleType
  BY UserRulesAssumption
<1>3. u.expr \in Strings
  BY <1>2 DEF RuleType
<1>4. /\ Cut(u.expr) \in Strings
      /\ Upcase[Cut(u.expr)].text = Upcase[u.expr].text
      /\ Upcase[Cut(u.expr)].len = Cut(u.expr).len
      /\ u.expr.len * WCHAR < UShort => Cut(u.expr) = u.expr
      /\ ~ (u.expr.len * WCHAR < UShort) => Cut(u.expr).len < u.expr.len
  BY <1>3, CutIs
<1>5. m \in RuleType /\ m.expr = Cut(u.expr)
  BY <1>1, <1>2, <1>4 DEF RuleType
<1>6. NewRule(m) \in RuleType /\ NewRule(m).expr = Upcase[Cut(u.expr)]
  <2>1. Upcase[m.expr] \in Strings
    BY <1>4, <1>5, UpcaseAssumption
  <2> QED
    BY <1>5, <2>1 DEF NewRule, RuleType
<1>7. WholeRule(NewRule(m))
  <2>1. CASE Countable(u)
    <3>1. Cut(u.expr) = u.expr
      BY <1>4, <2>1 DEF Countable
    <3>2. m = u
      BY <1>1, <1>2, <3>1 DEF RuleType
    <3> QED
      BY <3>2 DEF WholeRule
  <2>2. CASE ~ Countable(u)
    <3>1. NewRule(m).expr.len < u.expr.len
      BY <1>4, <1>6, <2>2 DEF Countable
    <3>2. NewRule(m).expr.text = Upcase[u.expr].text
      BY <1>4, <1>6
    <3> QED
      BY <2>2, <3>1, <3>2 DEF WholeRule
  <2> QED
    BY <2>1, <2>2
<1> QED
  BY <1>5, <1>6, <1>7 DEF Whole

-----------------------------------------------------------------------------
(* The rules list.                                                         *)

\* No rule is in a list twice, upper and lower case taken for the same.
Distinct(rs) == \A i, j \in DOMAIN rs : SameRule(rs[i], rs[j]) => i = j

RuleLists == {rs \in Seq(Whole) : Distinct(rs)}

LEMMA ListIs ==
    ASSUME NEW rs \in RuleLists
    PROVE  /\ rs \in Seq(Whole) /\ rs \in Seq(RuleType) /\ Distinct(rs)
           /\ Len(rs) \in Nat /\ DOMAIN rs = 1 .. Len(rs)
           /\ \A i \in 1 .. Len(rs) : rs[i] \in Whole
<1>1. rs \in Seq(Whole) /\ Distinct(rs)
  BY DEF RuleLists
<1>2. /\ Len(rs) \in Nat /\ DOMAIN rs = 1 .. Len(rs)
      /\ \A i \in 1 .. Len(rs) : rs[i] \in Whole
  BY <1>1
<1>3. Whole \subseteq RuleType
  BY DEF Whole
<1>4. rs \in Seq(RuleType)
  BY <1>1, <1>3
<1> QED
  BY <1>1, <1>2, <1>4

LEMMA SelectDistinct ==
    ASSUME NEW rs \in RuleLists, NEW I
    PROVE  Select(rs, I) \in RuleLists
<1> DEFINE v == Select(rs, I)
           L == Len(rs)
<1>1. rs \in Seq(Whole) /\ Distinct(rs) /\ L \in Nat /\ DOMAIN rs = 1 .. L
  BY ListIs
<1>2. v \in Seq(Whole) /\ Selection(rs, I, L, v)
  BY <1>1, SelectIs
<1> HIDE DEF v, L
<1>3. Len(v) \in Nat /\ DOMAIN v = 1 .. Len(v)
  BY <1>2
<1>4. \A j, l \in 1 .. Len(v) : j < l =>
          \E i, m \in 1 .. L : i < m /\ v[j] = rs[i] /\ v[l] = rs[m]
  BY <1>2 DEF Selection
<1>5. ASSUME NEW j \in 1 .. Len(v), NEW l \in 1 .. Len(v), j < l,
             SameRule(v[j], v[l]) \/ SameRule(v[l], v[j])
      PROVE  FALSE
  <2>1. PICK i \in 1 .. L, m \in 1 .. L : i < m /\ v[j] = rs[i] /\ v[l] = rs[m]
    BY <1>4, <1>5
  <2>2. SameRule(rs[i], rs[m]) \/ SameRule(rs[m], rs[i])
    BY <1>5, <2>1
  <2>3. i = m
    BY <1>1, <2>2 DEF Distinct
  <2> QED
    BY <1>1, <2>1, <2>3
<1>6. ASSUME NEW j \in 1 .. Len(v), NEW l \in 1 .. Len(v), SameRule(v[j], v[l]) PROVE j = l
  <2>1. ~ (j < l) /\ ~ (l < j)
    BY <1>5, <1>6
  <2> QED
    BY <1>3, <2>1
<1>7. Distinct(v)
  BY <1>3, <1>6 DEF Distinct
<1> QED
  BY <1>2, <1>7 DEF RuleLists, v

\* Upper-casing its expression makes no other rule of a rule.
LEMMA SameAsNew ==
    ASSUME NEW m \in RuleType, NEW r
    PROVE  /\ SameRule(NewRule(m), r) <=> SameRule(m, r)
           /\ SameRule(r, NewRule(m)) <=> SameRule(m, r)
           /\ SameRule(m, NewRule(m))
<1>1. m.expr \in Strings
  BY DEF RuleType
<1>2. NewRule(m).expr = Upcase[m.expr] /\ CodeValue(NewRule(m)) = CodeValue(m)
  BY DEF NewRule, RuleType, CodeValue
<1>3. Upcase[NewRule(m).expr] = Upcase[m.expr]
  BY <1>1, <1>2, UpcaseAssumption
<1> QED
  BY <1>2, <1>3 DEF SameRule

\* A rule that is not known goes to the head of the list.
LEMMA HeadInserted ==
    ASSUME NEW rs \in RuleLists, NEW m \in Sent, ~ Known(m, rs)
    PROVE  /\ <<NewRule(m)>> \o rs \in RuleLists
           /\ Len(<<NewRule(m)>> \o rs) = Len(rs) + 1
           /\ Range(rs) \subseteq Range(<<NewRule(m)>> \o rs)
           /\ Known(m, <<NewRule(m)>> \o rs)
<1> DEFINE x == NewRule(m)
           q == <<x>> \o rs
           L == Len(rs)
<1>1. rs \in Seq(Whole) /\ Distinct(rs) /\ L \in Nat /\ DOMAIN rs = 1 .. L
  BY ListIs
<1>2. x \in Whole /\ m \in RuleType
  BY SentIs
<1>3. SameRule(m, x) /\ \A r : /\ SameRule(x, r) <=> SameRule(m, r)
                               /\ SameRule(r, x) <=> SameRule(m, r)
  BY <1>2, SameAsNew
<1> HIDE DEF x
<1>4. /\ q \in Seq(Whole) /\ Len(q) = L + 1 /\ q[1] = x
      /\ \A i \in 1 .. L : q[i + 1] = rs[i]
  <2>1. <<x>> \in Seq(Whole) /\ Len(<<x>>) = 1 /\ <<x>>[1] = x
    BY <1>2
  <2>2. /\ q \in Seq(Whole) /\ Len(q) = Len(<<x>>) + Len(rs)
        /\ \A i \in 1 .. Len(<<x>>) + Len(rs) :
              q[i] = IF i <= Len(<<x>>) THEN <<x>>[i] ELSE rs[i - Len(<<x>>)]
    BY <1>1, <2>1, ConcatProperties
  <2> HIDE DEF q
  <2>3. q[1] = x
    BY <1>1, <2>1, <2>2
  <2>4. ASSUME NEW i \in 1 .. L PROVE q[i + 1] = rs[i]
    <3>1. i + 1 \in 1 .. 1 + L /\ ~ (i + 1 <= 1) /\ (i + 1) - 1 = i
      BY <1>1
    <3> QED
      BY <2>1, <2>2, <3>1
  <2> QED
    BY <1>1, <2>1, <2>2, <2>3, <2>4
<1> HIDE DEF q
<1>5. DOMAIN q = 1 .. (L + 1)
  BY <1>1, <1>4
<1>6. \A i \in 1 .. L : ~ SameRule(m, rs[i])
  BY <1>1 DEF Known
<1>7. ASSUME NEW i \in 1 .. (L + 1), i # 1
      PROVE  i - 1 \in 1 .. L /\ q[i] = rs[i - 1]
  <2>1. i - 1 \in 1 .. L /\ (i - 1) + 1 = i
    BY <1>1, <1>7
  <2> QED
    BY <1>4, <2>1
<1>8. ASSUME NEW i \in 1 .. (L + 1), NEW j \in 1 .. (L + 1), SameRule(q[i], q[j]) PROVE i = j
  <2>1. CASE i = 1 /\ j # 1
    BY <1>3, <1>4, <1>6, <1>7, <1>8, <2>1
  <2>2. CASE i # 1 /\ j = 1
    BY <1>3, <1>4, <1>6, <1>7, <1>8, <2>2
  <2>3. CASE i # 1 /\ j # 1
    <3>1. i - 1 = j - 1
      BY <1>1, <1>7, <1>8, <2>3 DEF Distinct
    <3> QED
      BY <1>1, <3>1
  <2> QED
    BY <2>1, <2>2, <2>3
<1>9. q \in RuleLists
  BY <1>4, <1>5, <1>8 DEF RuleLists, Distinct
<1>10. Range(rs) \subseteq Range(q)
  <2> SUFFICES ASSUME NEW i \in 1 .. L PROVE rs[i] \in Range(q)
    BY <1>1 DEF Range
  <2>1. i + 1 \in DOMAIN q /\ q[i + 1] = rs[i]
    BY <1>1, <1>4, <1>5
  <2> QED
    BY <2>1 DEF Range
<1>11. Known(m, q)
  <2>1. 1 \in DOMAIN q
    BY <1>1, <1>5
  <2> QED
    BY <1>3, <1>4, <2>1 DEF Known
<1> QED
  BY <1>4, <1>9, <1>10, <1>11 DEF q, x, L

LEMMA KnownStays ==
    ASSUME NEW m, NEW rs, NEW qs, Known(m, rs), Range(rs) \subseteq Range(qs)
    PROVE  Known(m, qs)
BY DEF Known, Range

-----------------------------------------------------------------------------
(* The driver's loops.                                                     *)

Statuses == {"SUCCESS", "INVALID_PARAMETER_1", "INSUFFICIENT_RESOURCES", "OVERRUN"}

\* The state of a walk over the rules of a message.
Progress == [rules : RuleLists, at : Nat, amount : Nat, status : Statuses]

LEMMA CountStays ==
    ASSUME NEW x \in Int
    PROVE  x % UShort \in Nat /\ (x \in 0 .. UShort - 1 => x % UShort = x)
<1>1. UShort \in Nat /\ UShort > 0
  BY UShortAssumption
<1>2. x % UShort \in 0 .. UShort - 1 /\ (x \in 0 .. UShort - 1 => x % UShort = x)
  BY <1>1, RemainderIs
<1> QED
  BY <1>1, <1>2

LEMMA SentSize ==
    ASSUME NEW m \in Sent
    PROVE  RuleSize(m) \in Nat
<1>1. m.expr \in Strings
  BY SentIs DEF RuleType
<1>2. m.expr.len \in Nat
  BY <1>1, LengthAssumption
<1> QED
  BY <1>2 DEF RuleSize, FG_RULE_SIZE, WCHAR

\* An iteration of FgcAddRules at a rule of the message: the rule is passed
\* over, it is known afterwards, or the loop is left.
LEMMA AddStep ==
    ASSUME NEW buf, NEW pw \in Progress, NEW memory \in BOOLEAN, pw.at \in DOMAIN buf,
           NEW m \in Sent, m = buf[pw.at]
    PROVE  LET w == AddIteration(buf, pw, memory)
           IN  /\ w \in Progress
               /\ \/ /\ w.rules = pw.rules /\ w.amount = pw.amount /\ w.at = pw.at + RuleSize(m)
                     /\ w.status = pw.status /\ (VALID_RULE_CODE(m) => Known(m, pw.rules))
                  \/ /\ ~ Known(m, pw.rules)
                     /\ w.rules = <<NewRule(m)>> \o pw.rules
                     /\ w.amount = (pw.amount + 1) % UShort /\ w.at = pw.at + RuleSize(m)
                     /\ w.status = pw.status
                  \/ /\ w.status \in Statuses \ {"SUCCESS", "OVERRUN"}
                     /\ w.rules = pw.rules
<1> DEFINE w == AddIteration(buf, pw, memory)
           next == [pw EXCEPT !.at = pw.at + RuleSize(m)]
           created == FgcAllocateUnicodeString(m.expr.len * WCHAR, memory)
<1>1. /\ pw.rules \in RuleLists /\ pw.at \in Nat /\ pw.amount \in Nat /\ pw.status \in Statuses
      /\ pw = [rules |-> pw.rules, at |-> pw.at, amount |-> pw.amount, status |-> pw.status]
  BY DEF Progress
<1>2. RuleSize(m) \in Nat /\ (pw.amount + 1) % UShort \in Nat /\ pw.at + RuleSize(m) \in Nat
  BY <1>1, SentSize, CountStays
<1>3. created \in {"SUCCESS", "INVALID_PARAMETER_1", "INSUFFICIENT_RESOURCES"}
  BY DEF FgcAllocateUnicodeString
<1>4. w = IF ~ VALID_RULE_CODE(m) \/ Known(m, pw.rules) THEN next
          ELSE IF created # "SUCCESS" THEN [pw EXCEPT !.status = created]
          ELSE [next EXCEPT !.rules = <<NewRule(m)>> \o pw.rules,
                            !.amount = (pw.amount + 1) % UShort]
  BY <1>1 DEF AddIteration
<1> HIDE DEF created
<1>5. CASE ~ VALID_RULE_CODE(m) \/ Known(m, pw.rules)
  <2>1. w = [rules |-> pw.rules, at |-> pw.at + RuleSize(m), amount |-> pw.amount,
             status |-> pw.status]
    BY <1>1, <1>4, <1>5
  <2> HIDE DEF w
  <2>2. w \in Progress
    BY <1>1, <1>2, <2>1 DEF Progress
  <2>3. /\ w.rules = pw.rules /\ w.amount = pw.amount /\ w.at = pw.at + RuleSize(m)
        /\ w.status = pw.status
    BY <2>1
  <2> QED
    BY <1>5, <2>2, <2>3, Zenon DEF w
<1>6. CASE ~ (~ VALID_RULE_CODE(m) \/ Known(m, pw.rules)) /\ created # "SUCCESS"
  <2>1. w = [rules |-> pw.rules, at |-> pw.at, amount |-> pw.amount, status |-> created]
    BY <1>1, <1>4, <1>6
  <2> HIDE DEF w
  <2>2. w \in Progress
    BY <1>1, <1>3, <2>1 DEF Progress, Statuses
  <2>3. w.rules = pw.rules /\ w.status \in Statuses \ {"SUCCESS", "OVERRUN"}
    BY <1>3, <1>6, <2>1 DEF Statuses
  <2> QED
    BY <2>2, <2>3, Zenon DEF w
<1>7. CASE ~ (~ VALID_RULE_CODE(m) \/ Known(m, pw.rules)) /\ created = "SUCCESS"
  <2>1. w = [rules |-> <<NewRule(m)>> \o pw.rules, at |-> pw.at + RuleSize(m),
             amount |-> (pw.amount + 1) % UShort, status |-> pw.status]
    BY <1>1, <1>4, <1>7
  <2> HIDE DEF w
  <2>2. <<NewRule(m)>> \o pw.rules \in RuleLists
    BY <1>1, <1>7, HeadInserted
  <2>3. w \in Progress
    BY <1>1, <1>2, <2>1, <2>2 DEF Progress
  <2>4. /\ w.rules = <<NewRule(m)>> \o pw.rules /\ w.amount = (pw.amount + 1) % UShort
        /\ w.at = pw.at + RuleSize(m) /\ w.status = pw.status
    BY <2>1
  <2> QED
    BY <1>7, <2>3, <2>4, Zenon DEF w
<1> QED
  BY <1>5, <1>6, <1>7

\* The rules of a list that m does not name.
Others(m, rs) == {r \in Range(rs) : ~ SameRule(m, r)}

\* An iteration of FgcFindAndRemoveRule at a rule of the message: the rule is
\* gone afterwards, and at most one was taken from the list.
LEMMA RemoveStep ==
    ASSUME NEW buf, NEW pw \in Progress, pw.at \in DOMAIN buf, NEW m \in Sent, m = buf[pw.at]
    PROVE  LET w == RemoveIteration(buf, pw)
           IN  /\ w \in Progress /\ w.at = pw.at + RuleSize(m) /\ w.status = pw.status
               /\ Range(w.rules) = Others(m, pw.rules)
               /\ Len(pw.rules) - Len(w.rules) \in 0 .. 1
               /\ w.amount = (pw.amount + Len(pw.rules) - Len(w.rules)) % UShort
<1> DEFINE w == RemoveIteration(buf, pw)
           rs == pw.rules
           L == Len(rs)
           I == {i \in DOMAIN rs : ~ SameRule(m, rs[i])}
           kept == Select(rs, I)
<1>1. /\ rs \in RuleLists /\ pw.at \in Nat /\ pw.amount \in Nat /\ pw.status \in Statuses
      /\ pw = [rules |-> rs, at |-> pw.at, amount |-> pw.amount, status |-> pw.status]
  BY DEF Progress
<1>2. rs \in Seq(Whole) /\ Distinct(rs) /\ L \in Nat /\ DOMAIN rs = 1 .. L
  BY <1>1, ListIs
<1>3. kept \in RuleLists
  BY <1>1, SelectDistinct
<1>4. Selection(rs, I, L, kept)
  BY <1>2, SelectIs
<1>5. Len(kept) \in Nat /\ DOMAIN kept = 1 .. Len(kept)
  BY <1>3, ListIs
<1>6. RuleSize(m) \in Nat /\ pw.at + RuleSize(m) \in Nat
  BY <1>1, SentSize
<1>7. (pw.amount + L - Len(kept)) % UShort \in Nat
  BY <1>1, <1>2, <1>5, CountStays
<1>8. w = [pw EXCEPT !.rules = kept, !.amount = (pw.amount + L - Len(kept)) % UShort,
                     !.at = pw.at + RuleSize(m)]
  BY DEF RemoveIteration
<1>i. \A i \in 1 .. L : i \in I <=> ~ SameRule(m, rs[i])
  BY <1>2
<1> HIDE DEF rs, kept, I, L
<1>9. w = [rules |-> kept, at |-> pw.at + RuleSize(m),
           amount |-> (pw.amount + L - Len(kept)) % UShort, status |-> pw.status]
  BY <1>1, <1>8
<1> HIDE DEF w
<1>10. w \in Progress
  BY <1>1, <1>3, <1>6, <1>7, <1>9 DEF Progress
<1>11. /\ w.rules = kept /\ w.at = pw.at + RuleSize(m) /\ w.status = pw.status
       /\ w.amount = (pw.amount + L - Len(kept)) % UShort
  BY <1>9
<1>12. Range(kept) = Others(m, rs)
  <2>1. ASSUME NEW j \in 1 .. Len(kept) PROVE kept[j] \in Range(rs) /\ ~ SameRule(m, kept[j])
    <3>1. PICK i \in 1 .. L : i \in I /\ kept[j] = rs[i]
      BY <1>4 DEF Selection
    <3> QED
      BY <1>2, <1>i, <3>1 DEF Range
  <2>2. ASSUME NEW i \in 1 .. L, ~ SameRule(m, rs[i]) PROVE rs[i] \in Range(kept)
    <3>1. PICK j \in 1 .. Len(kept) : kept[j] = rs[i]
      BY <1>4, <1>i, <2>2 DEF Selection
    <3> QED
      BY <1>5, <3>1 DEF Range
  <2>3. Range(kept) = {kept[j] : j \in 1 .. Len(kept)} /\ Range(rs) = {rs[i] : i \in 1 .. L}
    BY <1>2, <1>5 DEF Range
  <2>4. Range(kept) = {r \in Range(rs) : ~ SameRule(m, r)}
    BY <2>1, <2>2, <2>3, SMTT(30)
  <2> QED
    BY <2>4 DEF Others
<1>13. L - Len(kept) \in 0 .. 1
  <2>1. ASSUME NEW i \in 1 .. L, NEW k \in 1 .. L, i \notin I, k \notin I PROVE i = k
    <3>1. SameRule(m, rs[i]) /\ SameRule(m, rs[k])
      BY <1>i, <2>1
    <3>2. SameRule(rs[i], rs[k])
      BY <3>1 DEF SameRule
    <3> QED
      BY <1>2, <3>2 DEF Distinct
  <2>2. Len(kept) >= L - 1 /\ Len(kept) <= L
    BY <1>4, <2>1 DEF Selection
  <2>3. \A a, b \in Nat : a >= b - 1 /\ a <= b => b - a \in 0 .. 1
    OBVIOUS
  <2> QED
    BY <1>2, <1>5, <2>2, <2>3
<1> QED
  BY <1>10, <1>11, <1>12, <1>13 DEF w, rs, L

\* The message FglCreateRulesMessage makes of a bulk.
CutBulk(bulk) == [i \in DOMAIN bulk |-> [bulk[i] EXCEPT !.expr = Cut(bulk[i].expr)]]

LEMMA MessageIs ==
    ASSUME NEW bulk \in Bulks
    PROVE  /\ CutBulk(bulk) \in Seq(Sent) /\ CutBulk(bulk) \in Seq(RuleType)
           /\ Len(CutBulk(bulk)) = Len(bulk) /\ Len(bulk) \in Nat /\ Len(bulk) < UShort
           /\ DOMAIN bulk = 1 .. Len(bulk)
           /\ FglCreateRulesMessage(bulk) = Image(CutBulk(bulk))
           /\ \A i \in 1 .. Len(bulk) : /\ bulk[i] \in UserRules
                                        /\ CutBulk(bulk)[i] \in Sent
                                        /\ Countable(bulk[i]) => CutBulk(bulk)[i] = bulk[i]
           /\ \A o \in DOMAIN Image(CutBulk(bulk)) : Image(CutBulk(bulk))[o] \in Sent
<1> DEFINE cs == CutBulk(bulk)
<1>1. PICK n \in 1 .. MaxBulk : bulk \in [1 .. n -> UserRules]
  BY DEF Bulks
<1>2. n \in Nat /\ n < UShort /\ DOMAIN bulk = 1 .. n /\ bulk \in Seq(UserRules) /\ Len(bulk) = n
  BY <1>1, BulkAssumption, UShortAssumption
<1>3. cs = [i \in 1 .. n |-> [bulk[i] EXCEPT !.expr = Cut(bulk[i].expr)]]
  BY <1>2 DEF CutBulk
<1> HIDE DEF cs
<1>4. ASSUME NEW i \in 1 .. n
      PROVE  bulk[i] \in UserRules /\ cs[i] \in Sent /\ (Countable(bulk[i]) => cs[i] = bulk[i])
  <2>1. bulk[i] \in UserRules /\ cs[i] = [bulk[i] EXCEPT !.expr = Cut(bulk[i].expr)]
    BY <1>1, <1>3
  <2>2. cs[i] \in Sent
    BY <2>1 DEF Sent
  <2>3. bulk[i] \in RuleType
    BY <2>1, UserRulesAssumption
  <2>4. bulk[i].expr \in Strings
    BY <2>3 DEF RuleType
  <2>5. ASSUME Countable(bulk[i]) PROVE cs[i] = bulk[i]
    <3>1. Cut(bulk[i].expr) = bulk[i].expr
      BY <2>4, <2>5, CutIs DEF Countable
    <3> QED
      BY <2>1, <2>3, <3>1 DEF RuleType
  <2> QED
    BY <2>1, <2>2, <2>5
<1>5. cs \in Seq(Sent) /\ Len(cs) = n
  <2>1. cs \in [1 .. n -> Sent]
    BY <1>3, <1>4
  <2> QED
    BY <1>2, <2>1
<1>6. Sent \subseteq RuleType
  BY SentIs
<1>7. cs \in Seq(RuleType)
  BY <1>5, <1>6
<1>8. \A o \in DOMAIN Image(cs) : Image(cs)[o] \in Sent
  <2>1. /\ DOMAIN Image(cs) = {Offsets(cs)[i] : i \in 1 .. n}
        /\ \A i \in 1 .. n : Image(cs)[Offsets(cs)[i]] = cs[i]
    BY <1>5, <1>7, ImageIs
  <2> QED
    BY <1>4, <2>1
<1>9. FglCreateRulesMessage(bulk) = Image(CutBulk(bulk))
  BY DEF FglCreateRulesMessage, CutBulk
<1> QED
  BY <1>2, <1>4, <1>5, <1>7, <1>8, <1>9 DEF cs

\* The loops, one step at a time.
NextAdded(buf, fails, i, v) ==
    IF v.status # "SUCCESS" THEN v ELSE AddIteration(buf, v, i # fails)

AddWalk(buf, n, fails) ==
    CHOOSE f : f = [i \in 0 .. n |->
                      IF i = 0 THEN Begin(rules) ELSE NextAdded(buf, fails, i, f[i - 1])]

NextRemoved(buf, v) == IF v.status # "SUCCESS" THEN v ELSE RemoveIteration(buf, v)

RemoveWalk(buf, n) ==
    CHOOSE f : f = [i \in 0 .. n |->
                      IF i = 0 THEN Begin(rules) ELSE NextRemoved(buf, f[i - 1])]

LEMMA StepsStay ==
    ASSUME NEW buf, \A o \in DOMAIN buf : buf[o] \in Sent, NEW v \in Progress
    PROVE  /\ \A fails, i : NextAdded(buf, fails, i, v) \in Progress
           /\ NextRemoved(buf, v) \in Progress
<1>1. CASE v.at \notin DOMAIN buf
  <2>1. [v EXCEPT !.status = "OVERRUN"] \in Progress
    BY DEF Progress, Statuses
  <2>2. \A b : AddIteration(buf, v, b) = [v EXCEPT !.status = "OVERRUN"]
    BY <1>1 DEF AddIteration
  <2>3. RemoveIteration(buf, v) = [v EXCEPT !.status = "OVERRUN"]
    BY <1>1 DEF RemoveIteration
  <2> QED
    BY <2>1, <2>2, <2>3 DEF NextAdded, NextRemoved
<1>2. CASE v.at \in DOMAIN buf
  <2>1. buf[v.at] \in Sent
    BY <1>2
  <2>2. \A b \in BOOLEAN : AddIteration(buf, v, b) \in Progress
    BY <1>2, <2>1, AddStep
  <2>3. RemoveIteration(buf, v) \in Progress
    BY <1>2, <2>1, RemoveStep
  <2>4. ASSUME NEW fails, NEW i PROVE AddIteration(buf, v, i # fails) \in Progress
    <3>1. (i # fails) \in BOOLEAN
      OBVIOUS
    <3> QED
      BY <2>2, <3>1, Zenon
  <2>5. NextRemoved(buf, v) \in Progress
    BY <2>3 DEF NextRemoved
  <2>6. ASSUME NEW fails, NEW i PROVE NextAdded(buf, fails, i, v) \in Progress
    <3>1. AddIteration(buf, v, i # fails) \in Progress
      BY <2>4
    <3> QED
      BY <3>1, Zenon DEF NextAdded
  <2> QED
    BY <2>5, <2>6
<1> QED
  BY <1>1, <1>2

LEMMA BeginIs ==
    ASSUME rules \in RuleLists
    PROVE  /\ Begin(rules) \in Progress
           /\ Begin(rules).rules = rules /\ Begin(rules).at = 0
           /\ Begin(rules).amount = 0 /\ Begin(rules).status = "SUCCESS"
BY DEF Begin, Progress, Statuses

LEMMA AddWalkEquation ==
    ASSUME NEW buf, \A o \in DOMAIN buf : buf[o] \in Sent, NEW n \in Nat, NEW fails,
           rules \in RuleLists
    PROVE  /\ AddWalk(buf, n, fails) =
                [i \in 0 .. n |-> IF i = 0 THEN Begin(rules)
                                  ELSE NextAdded(buf, fails, i, AddWalk(buf, n, fails)[i - 1])]
           /\ FgcAddRules(buf, n, fails) = AddWalk(buf, n, fails)[n]
<1> DEFINE F == [i \in 1 .. n |-> [v \in Progress |-> NextAdded(buf, fails, i, v)]]
           B == Begin(rules)
<1>1. B \in Progress
  BY BeginIs
<1>2. /\ F \in [1 .. n -> [Progress -> Progress]]
      /\ \A i \in 1 .. n : \A v \in Progress : F[i][v] = NextAdded(buf, fails, i, v)
  BY StepsStay
<1> HIDE DEF F, B
<1>3. PICK g : Run(F, B, Progress, n, g)
  <2>1. n \in Nat
    OBVIOUS
  <2>2. Runs(F, B, Progress, n)
    BY ONLY <1>1, <1>2, <2>1, RunsExist
  <2> QED
    BY <2>2 DEF Runs
<1>4. /\ g \in [0 .. n -> Progress] /\ g[0] = B
      /\ \A i \in 1 .. n : g[i] = F[i][g[i - 1]]
  BY <1>3 DEF Run
<1>5. g = [i \in 0 .. n |-> IF i = 0 THEN B ELSE NextAdded(buf, fails, i, g[i - 1])]
  <2>1. ASSUME NEW i \in 0 .. n
        PROVE  g[i] = IF i = 0 THEN B ELSE NextAdded(buf, fails, i, g[i - 1])
    <3>1. CASE i = 0
      BY <1>4, <3>1
    <3>2. CASE i # 0
      <4>1. i \in 1 .. n /\ g[i - 1] \in Progress
        BY <1>4, <3>2
      <4> QED
        BY <1>2, <1>4, <3>2, <4>1
    <3> QED
      BY <3>1, <3>2
  <2> QED
    BY <1>4, <2>1
<1>6. \E f : f = [i \in 0 .. n |-> IF i = 0 THEN B ELSE NextAdded(buf, fails, i, f[i - 1])]
  BY <1>5
<1>7. AddWalk(buf, n, fails)
        = CHOOSE f : f = [i \in 0 .. n |-> IF i = 0 THEN B ELSE NextAdded(buf, fails, i, f[i - 1])]
  BY Zenon DEF AddWalk, B
<1>8. FgcAddRules(buf, n, fails) = AddWalk(buf, n, fails)[n]
  BY Zenon DEF FgcAddRules, AddWalk, NextAdded
<1> QED
  BY <1>6, <1>7, <1>8, Zenon DEF B

LEMMA RemoveWalkEquation ==
    ASSUME NEW buf, \A o \in DOMAIN buf : buf[o] \in Sent, NEW n \in Nat,
           rules \in RuleLists
    PROVE  /\ RemoveWalk(buf, n) =
                [i \in 0 .. n |-> IF i = 0 THEN Begin(rules)
                                  ELSE NextRemoved(buf, RemoveWalk(buf, n)[i - 1])]
           /\ FgcFindAndRemoveRule(buf, n) = RemoveWalk(buf, n)[n]
<1> DEFINE F == [i \in 1 .. n |-> [v \in Progress |-> NextRemoved(buf, v)]]
           B == Begin(rules)
<1>1. B \in Progress
  BY BeginIs
<1>2. /\ F \in [1 .. n -> [Progress -> Progress]]
      /\ \A i \in 1 .. n : \A v \in Progress : F[i][v] = NextRemoved(buf, v)
  BY StepsStay
<1> HIDE DEF F, B
<1>3. PICK g : Run(F, B, Progress, n, g)
  <2>1. n \in Nat
    OBVIOUS
  <2>2. Runs(F, B, Progress, n)
    BY ONLY <1>1, <1>2, <2>1, RunsExist
  <2> QED
    BY <2>2 DEF Runs
<1>4. /\ g \in [0 .. n -> Progress] /\ g[0] = B
      /\ \A i \in 1 .. n : g[i] = F[i][g[i - 1]]
  BY <1>3 DEF Run
<1>5. g = [i \in 0 .. n |-> IF i = 0 THEN B ELSE NextRemoved(buf, g[i - 1])]
  <2>1. ASSUME NEW i \in 0 .. n
        PROVE  g[i] = IF i = 0 THEN B ELSE NextRemoved(buf, g[i - 1])
    <3>1. CASE i = 0
      BY <1>4, <3>1
    <3>2. CASE i # 0
      <4>1. i \in 1 .. n /\ g[i - 1] \in Progress
        BY <1>4, <3>2
      <4> QED
        BY <1>2, <1>4, <3>2, <4>1
    <3> QED
      BY <3>1, <3>2
  <2> QED
    BY <1>4, <2>1
<1>6. \E f : f = [i \in 0 .. n |-> IF i = 0 THEN B ELSE NextRemoved(buf, f[i - 1])]
  BY <1>5
<1>7. RemoveWalk(buf, n)
        = CHOOSE f : f = [i \in 0 .. n |-> IF i = 0 THEN B ELSE NextRemoved(buf, f[i - 1])]
  BY Zenon DEF RemoveWalk, B
<1>8. FgcFindAndRemoveRule(buf, n) = RemoveWalk(buf, n)[n]
  BY Zenon DEF FgcFindAndRemoveRule, RemoveWalk, NextRemoved
<1> QED
  BY <1>6, <1>7, <1>8, Zenon DEF B

\* What FgcAddRules has done when it has come past the first k rules.
AddedTo(cs, k, w) ==
    /\ w.at = Offsets(cs)[k + 1]
    /\ Range(rules) \subseteq Range(w.rules)
    /\ \A i \in 1 .. k : VALID_RULE_CODE(cs[i]) => Known(cs[i], w.rules)
    /\ Len(w.rules) - Len(rules) \in 0 .. k
    /\ w.amount = Len(w.rules) - Len(rules)

\* What FgcFindAndRemoveRule has done when it has come past the first k.
RemovedTo(cs, k, w) ==
    /\ w.at = Offsets(cs)[k + 1]
    /\ Range(w.rules) = {r \in Range(rules) : \A i \in 1 .. k : ~ SameRule(cs[i], r)}
    /\ Len(rules) - Len(w.rules) \in 0 .. k
    /\ w.amount = Len(rules) - Len(w.rules)

\* The walk is at a rule of the message, and moves behind it.
LEMMA WalkStands ==
    ASSUME NEW cs \in Seq(RuleType), NEW k \in 1 .. Len(cs), NEW a, a = Offsets(cs)[(k - 1) + 1]
    PROVE  /\ a \in DOMAIN Image(cs) /\ Image(cs)[a] = cs[k]
           /\ a + RuleSize(cs[k]) = Offsets(cs)[k + 1]
<1>1. Len(cs) \in Nat /\ (k - 1) + 1 = k
  OBVIOUS
<1>2. a = Offsets(cs)[k]
  BY <1>1
<1>3. Offsets(cs)[k + 1] = Offsets(cs)[k] + RuleSize(cs[k])
  BY OffsetsRise
<1>4. Offsets(cs)[k] \in DOMAIN Image(cs) /\ Image(cs)[Offsets(cs)[k]] = cs[k]
  BY ImageIs, ZenonT(40)
<1> QED
  BY <1>2, <1>3, <1>4

LEMMA AddedNext ==
    ASSUME rules \in RuleLists, NEW cs \in Seq(RuleType), NEW k \in 1 .. Len(cs),
           cs[k] \in Sent, k < UShort, NEW fails,
           NEW v \in Progress, v.status = "SUCCESS", AddedTo(cs, k - 1, v)
    PROVE  LET w == NextAdded(Image(cs), fails, k, v)
           IN  w.status # "OVERRUN" /\ (w.status = "SUCCESS" => AddedTo(cs, k, w))
<1> DEFINE buf == Image(cs)
           w == AddIteration(buf, v, k # fails)
           m == cs[k]
<1>1. NextAdded(buf, fails, k, v) = w
  BY DEF NextAdded
<1>2. v.at \in DOMAIN buf /\ buf[v.at] = m /\ v.at + RuleSize(m) = Offsets(cs)[k + 1]
  BY WalkStands DEF AddedTo
<1>3. /\ Range(rules) \subseteq Range(v.rules)
      /\ \A i \in 1 .. (k - 1) : VALID_RULE_CODE(cs[i]) => Known(cs[i], v.rules)
      /\ Len(v.rules) - Len(rules) \in 0 .. (k - 1)
      /\ v.amount = Len(v.rules) - Len(rules)
  BY DEF AddedTo
<1>4. /\ v.rules \in RuleLists /\ Len(v.rules) \in Nat /\ Len(rules) \in Nat
      /\ Len(cs) \in Nat /\ k \in Nat
  <2>1. v.rules \in RuleLists
    BY DEF Progress
  <2> QED
    BY <2>1, ListIs
<1>5. /\ w \in Progress
      /\ \/ /\ w.rules = v.rules /\ w.amount = v.amount /\ w.at = v.at + RuleSize(m)
            /\ w.status = v.status /\ (VALID_RULE_CODE(m) => Known(m, v.rules))
         \/ /\ ~ Known(m, v.rules)
            /\ w.rules = <<NewRule(m)>> \o v.rules
            /\ w.amount = (v.amount + 1) % UShort /\ w.at = v.at + RuleSize(m)
            /\ w.status = v.status
         \/ /\ w.status \in Statuses \ {"SUCCESS", "OVERRUN"}
            /\ w.rules = v.rules
  <2>1. (k # fails) \in BOOLEAN /\ m \in Sent
    OBVIOUS
  <2> HIDE DEF m, buf
  <2> QED
    BY <1>2, <2>1, AddStep, ZenonT(40)
<1>b. \A i \in 1 .. k : i \in 1 .. (k - 1) \/ i = k
  BY <1>4
<1> HIDE DEF w, m
<1>6. CASE /\ w.rules = v.rules /\ w.amount = v.amount /\ w.at = v.at + RuleSize(m)
           /\ w.status = v.status /\ (VALID_RULE_CODE(m) => Known(m, v.rules))
  <2>1. \A i \in 1 .. k : VALID_RULE_CODE(cs[i]) => Known(cs[i], w.rules)
    BY <1>3, <1>6, <1>b DEF m
  <2>2. Len(w.rules) - Len(rules) \in 0 .. k
    BY <1>3, <1>4, <1>6
  <2>3. AddedTo(cs, k, w)
    BY <1>2, <1>3, <1>6, <2>1, <2>2 DEF AddedTo
  <2> QED
    BY <1>1, <1>6, <2>3
<1>7. CASE /\ ~ Known(m, v.rules)
           /\ w.rules = <<NewRule(m)>> \o v.rules
           /\ w.amount = (v.amount + 1) % UShort /\ w.at = v.at + RuleSize(m)
           /\ w.status = v.status
  <2>1. /\ Len(w.rules) = Len(v.rules) + 1 /\ Range(v.rules) \subseteq Range(w.rules)
        /\ Known(m, w.rules)
    BY <1>4, <1>7, HeadInserted DEF m
  <2>2. \A i \in 1 .. k : VALID_RULE_CODE(cs[i]) => Known(cs[i], w.rules)
    BY <1>3, <1>b, <2>1, KnownStays DEF m
  <2>3. Len(w.rules) - Len(rules) \in 0 .. k /\ v.amount + 1 = Len(w.rules) - Len(rules)
    BY <1>3, <1>4, <2>1
  <2>4. v.amount + 1 \in Int /\ v.amount + 1 \in 0 .. UShort - 1
    BY <1>4, <2>3, UShortAssumption
  <2>5. w.amount = Len(w.rules) - Len(rules)
    BY <1>7, <2>3, <2>4, CountStays
  <2>6. Range(rules) \subseteq Range(w.rules)
    BY <1>3, <2>1
  <2>7. AddedTo(cs, k, w)
    BY <1>2, <1>7, <2>2, <2>3, <2>5, <2>6 DEF AddedTo
  <2> QED
    BY <1>1, <1>7, <2>7
<1>8. CASE w.status \in Statuses \ {"SUCCESS", "OVERRUN"}
  BY <1>1, <1>8
<1> QED
  BY <1>5, <1>6, <1>7, <1>8

LEMMA RemovedNext ==
    ASSUME rules \in RuleLists, NEW cs \in Seq(RuleType), NEW k \in 1 .. Len(cs),
           cs[k] \in Sent, k < UShort,
           NEW v \in Progress, v.status = "SUCCESS", RemovedTo(cs, k - 1, v)
    PROVE  LET w == NextRemoved(Image(cs), v)
           IN  w.status = "SUCCESS" /\ RemovedTo(cs, k, w)
<1> DEFINE buf == Image(cs)
           w == RemoveIteration(buf, v)
           m == cs[k]
<1>1. NextRemoved(buf, v) = w
  BY DEF NextRemoved
<1>2. v.at \in DOMAIN buf /\ buf[v.at] = m /\ v.at + RuleSize(m) = Offsets(cs)[k + 1]
  BY WalkStands DEF RemovedTo
<1>3. /\ Range(v.rules) = {r \in Range(rules) : \A i \in 1 .. (k - 1) : ~ SameRule(cs[i], r)}
      /\ Len(rules) - Len(v.rules) \in 0 .. (k - 1)
      /\ v.amount = Len(rules) - Len(v.rules)
  BY DEF RemovedTo
<1>4. /\ v.rules \in RuleLists /\ Len(v.rules) \in Nat /\ Len(rules) \in Nat
      /\ Len(cs) \in Nat /\ k \in Nat
  <2>1. v.rules \in RuleLists
    BY DEF Progress
  <2> QED
    BY <2>1, ListIs
<1>5. /\ w \in Progress /\ w.at = v.at + RuleSize(m) /\ w.status = v.status
      /\ Range(w.rules) = Others(m, v.rules)
      /\ Len(v.rules) - Len(w.rules) \in 0 .. 1
      /\ w.amount = (v.amount + Len(v.rules) - Len(w.rules)) % UShort
  <2>1. m \in Sent /\ v \in Progress
    OBVIOUS
  <2>2. v.at \in DOMAIN buf /\ m = buf[v.at]
    BY <1>2
  <2> HIDE DEF m, buf
  <2> QED
    BY ONLY <2>1, <2>2, RemoveStep
<1> HIDE DEF w, m
<1>6. Len(w.rules) \in Nat
  <2>1. w.rules \in RuleLists
    BY <1>5 DEF Progress
  <2> QED
    BY <2>1, ListIs
<1>b. (\A i \in 1 .. (k - 1) : i \in 1 .. k) /\ k \in 1 .. k /\ \A i \in 1 .. k : i \in 1 .. (k - 1) \/ i = k
  BY <1>4
<1>7. Range(w.rules) = {r \in Range(rules) : \A i \in 1 .. k : ~ SameRule(cs[i], r)}
  <2>1. \A r : (\A i \in 1 .. k : ~ SameRule(cs[i], r))
                  <=> (\A i \in 1 .. (k - 1) : ~ SameRule(cs[i], r)) /\ ~ SameRule(m, r)
    BY <1>b DEF m
  <2> QED
    BY <1>3, <1>5, <2>1 DEF Others
<1>8. /\ Len(rules) - Len(w.rules) \in 0 .. k
      /\ v.amount + Len(v.rules) - Len(w.rules) = Len(rules) - Len(w.rules)
  BY <1>3, <1>4, <1>5, <1>6, SMTT(30)
<1>9. w.amount = Len(rules) - Len(w.rules)
  <2>1. Len(rules) - Len(w.rules) \in Int /\ Len(rules) - Len(w.rules) \in 0 .. UShort - 1
    BY <1>4, <1>8, UShortAssumption
  <2> QED
    BY <1>5, <1>8, <2>1, CountStays
<1>10. RemovedTo(cs, k, w)
  BY <1>2, <1>5, <1>7, <1>8, <1>9 DEF RemovedTo
<1> QED
  BY <1>1, <1>5, <1>10

\* FgcAddRules stays in the message; when it succeeds all of the message's
\* rules are in the list, and the amount is what the list has grown by.
LEMMA AddRulesIs ==
    ASSUME rules \in RuleLists, NEW bulk \in Bulks, NEW fails
    PROVE  LET w == FgcAddRules(FglCreateRulesMessage(bulk), Len(bulk), fails)
           IN  /\ w \in Progress /\ w.status # "OVERRUN"
               /\ w.status = "SUCCESS" => AddedTo(CutBulk(bulk), Len(bulk), w)
<1> DEFINE cs == CutBulk(bulk)
           n == Len(bulk)
           buf == Image(cs)
           a == AddWalk(buf, n, fails)
<1>1. /\ cs \in Seq(RuleType) /\ Len(cs) = n /\ n \in Nat /\ n < UShort
      /\ FglCreateRulesMessage(bulk) = buf
      /\ \A i \in 1 .. n : cs[i] \in Sent
      /\ \A o \in DOMAIN buf : buf[o] \in Sent
  BY MessageIs
<1> HIDE DEF cs, n, buf
<1>2. /\ a = [i \in 0 .. n |-> IF i = 0 THEN Begin(rules) ELSE NextAdded(buf, fails, i, a[i - 1])]
      /\ FgcAddRules(buf, n, fails) = a[n]
  <2>1. n \in Nat /\ \A o \in DOMAIN buf : buf[o] \in Sent
    BY <1>1
  <2> QED
    BY <2>1, AddWalkEquation, Zenon
<1> HIDE DEF a
<1> DEFINE T == {k \in Nat : /\ a[k] \in Progress /\ a[k].status # "OVERRUN"
                             /\ a[k].status = "SUCCESS" => AddedTo(cs, k, a[k])}
<1>3. 0 \in T
  <2>1. a[0] = Begin(rules)
    BY <1>1, <1>2
  <2>2. /\ a[0] \in Progress /\ a[0].rules = rules /\ a[0].at = 0
        /\ a[0].amount = 0 /\ a[0].status = "SUCCESS"
    BY <2>1, BeginIs
  <2>3. AddedTo(cs, 0, a[0])
    <3>1. Offsets(cs)[0 + 1] = 0 /\ Len(rules) \in Nat /\ \A i \in 1 .. 0 : FALSE
      BY <1>1, OffsetsRise, ListIs
    <3>2. Len(rules) - Len(rules) = 0 /\ 0 \in 0 .. 0
      BY <3>1
    <3> QED
      BY <2>2, <3>1, <3>2 DEF AddedTo
  <2> QED
    BY <2>2, <2>3
<1>4. \A k \in 1 .. n : k - 1 \in T => k \in T
  <2> SUFFICES ASSUME NEW k \in 1 .. n, a[k - 1] \in Progress, a[k - 1].status # "OVERRUN",
                      a[k - 1].status = "SUCCESS" => AddedTo(cs, k - 1, a[k - 1])
               PROVE  /\ a[k] \in Progress /\ a[k].status # "OVERRUN"
                      /\ a[k].status = "SUCCESS" => AddedTo(cs, k, a[k])
    BY <1>1
  <2>1. a[k] = NextAdded(buf, fails, k, a[k - 1])
    <3>1. k \in 0 .. n /\ k # 0
      BY <1>1
    <3> QED
      BY <1>2, <3>1
  <2>2. a[k] \in Progress
    BY <1>1, <2>1, StepsStay
  <2>3. CASE a[k - 1].status # "SUCCESS"
    <3>1. a[k] = a[k - 1]
      BY <2>1, <2>3 DEF NextAdded
    <3> QED
      BY <2>3, <3>1
  <2>4. CASE a[k - 1].status = "SUCCESS"
    <3>1. k \in 1 .. Len(cs) /\ cs[k] \in Sent /\ k < UShort
      BY <1>1, UShortAssumption
    <3>2. LET w == NextAdded(Image(cs), fails, k, a[k - 1])
          IN  w.status # "OVERRUN" /\ (w.status = "SUCCESS" => AddedTo(cs, k, w))
      BY <1>1, <2>4, <3>1, AddedNext
    <3> QED
      BY <2>1, <2>2, <3>2 DEF buf
  <2> QED
    BY <2>3, <2>4
<1> HIDE DEF T
<1>5. \A k \in 0 .. n : k \in T
  BY ONLY <1>1, <1>3, <1>4, IntervalInd
<1>6. n \in T
  BY <1>1, <1>5
<1>7. /\ a[n] \in Progress /\ a[n].status # "OVERRUN"
      /\ a[n].status = "SUCCESS" => AddedTo(cs, n, a[n])
  BY <1>6 DEF T
<1>8. FgcAddRules(FglCreateRulesMessage(bulk), Len(bulk), fails) = a[n]
  BY <1>1, <1>2 DEF n
<1> QED
  BY <1>7, <1>8 DEF cs, n

\* FgcFindAndRemoveRule, too; it takes the message's rules from the list and
\* no others, and the amount is what the list has shrunk by.
LEMMA RemoveRulesIs ==
    ASSUME rules \in RuleLists, NEW bulk \in Bulks
    PROVE  LET w == FgcFindAndRemoveRule(FglCreateRulesMessage(bulk), Len(bulk))
           IN  w \in Progress /\ w.status = "SUCCESS" /\ RemovedTo(CutBulk(bulk), Len(bulk), w)
<1> DEFINE cs == CutBulk(bulk)
           n == Len(bulk)
           buf == Image(cs)
           a == RemoveWalk(buf, n)
<1>1. /\ cs \in Seq(RuleType) /\ Len(cs) = n /\ n \in Nat /\ n < UShort
      /\ FglCreateRulesMessage(bulk) = buf
      /\ \A i \in 1 .. n : cs[i] \in Sent
      /\ \A o \in DOMAIN buf : buf[o] \in Sent
  BY MessageIs
<1> HIDE DEF cs, n, buf
<1>2. /\ a = [i \in 0 .. n |-> IF i = 0 THEN Begin(rules) ELSE NextRemoved(buf, a[i - 1])]
      /\ FgcFindAndRemoveRule(buf, n) = a[n]
  <2>1. n \in Nat /\ \A o \in DOMAIN buf : buf[o] \in Sent
    BY <1>1
  <2> QED
    BY <2>1, RemoveWalkEquation, Zenon
<1> HIDE DEF a
<1> DEFINE T == {k \in Nat : /\ a[k] \in Progress /\ a[k].status = "SUCCESS"
                             /\ RemovedTo(cs, k, a[k])}
<1>3. 0 \in T
  <2>1. a[0] = Begin(rules)
    BY <1>1, <1>2
  <2>2. /\ a[0] \in Progress /\ a[0].rules = rules /\ a[0].at = 0
        /\ a[0].amount = 0 /\ a[0].status = "SUCCESS"
    BY <2>1, BeginIs
  <2>3. RemovedTo(cs, 0, a[0])
    <3>1. Offsets(cs)[0 + 1] = 0 /\ Len(rules) \in Nat /\ \A i \in 1 .. 0 : FALSE
      BY <1>1, OffsetsRise, ListIs
    <3>2. Len(rules) - Len(rules) = 0 /\ 0 \in 0 .. 0
      BY <3>1
    <3>3. Range(rules) = {r \in Range(rules) : \A i \in 1 .. 0 : ~ SameRule(cs[i], r)}
      BY <3>1
    <3> QED
      BY <2>2, <3>1, <3>2, <3>3 DEF RemovedTo
  <2> QED
    BY <2>2, <2>3
<1>4. \A k \in 1 .. n : k - 1 \in T => k \in T
  <2> SUFFICES ASSUME NEW k \in 1 .. n, k - 1 \in T PROVE k \in T
    OBVIOUS
  <2>a. a[k - 1] \in Progress /\ a[k - 1].status = "SUCCESS" /\ RemovedTo(cs, k - 1, a[k - 1])
    OBVIOUS
  <2> HIDE DEF T
  <2>1. a[k] = NextRemoved(buf, a[k - 1])
    <3>1. k \in 0 .. n /\ k # 0
      BY <1>1
    <3> QED
      BY <1>2, <3>1
  <2>2. a[k] \in Progress
    BY <1>1, <2>1, <2>a, StepsStay
  <2>3. k \in 1 .. Len(cs) /\ cs[k] \in Sent /\ k < UShort
    BY <1>1, UShortAssumption
  <2>4. LET w == NextRemoved(Image(cs), a[k - 1])
        IN  w.status = "SUCCESS" /\ RemovedTo(cs, k, w)
    BY <1>1, <2>3, <2>a, RemovedNext
  <2>5. k \in Nat /\ a[k].status = "SUCCESS" /\ RemovedTo(cs, k, a[k])
    BY <1>1, <2>1, <2>4 DEF buf
  <2> QED
    BY <2>2, <2>5 DEF T
<1> HIDE DEF T
<1>5. \A k \in 0 .. n : k \in T
  BY ONLY <1>1, <1>3, <1>4, IntervalInd
<1>6. n \in T
  BY <1>1, <1>5
<1>7. a[n] \in Progress /\ a[n].status = "SUCCESS" /\ RemovedTo(cs, n, a[n])
  BY <1>6 DEF T
<1>8. FgcFindAndRemoveRule(FglCreateRulesMessage(bulk), Len(bulk)) = a[n]
  BY <1>1, <1>2 DEF n
<1> QED
  BY <1>7, <1>8 DEF cs, n

-----------------------------------------------------------------------------
(* Queries.                                                                *)

\* The second loop of FgcGetRules copies all of the rules that fit.
LEMMA CopiedAll ==
    ASSUME NEW rs \in Seq(RuleType), NEW room \in Nat, ~ (TotalSize(rs) > room)
    PROVE  Copied(rs, room) = rs
<1> DEFINE ends == Offsets(rs)
           L == Len(rs)
           full == {i \in DOMAIN rs : ends[i + 1] >= room}
<1>1. L \in Nat /\ DOMAIN rs = 1 .. L
  BY SizesOf
<1>2. ends \in [1 .. (L + 1) -> Nat] /\ TotalSize(rs) = ends[L + 1] /\ TotalSize(rs) \in Nat
  BY OffsetsRise DEF TotalSize
<1>3. ASSUME NEW i \in full PROVE i = L
  <2>1. i \in 1 .. L /\ ends[i + 1] >= room
    BY <1>1
  <2>2. ASSUME i # L PROVE FALSE
    <3>1. i + 1 \in 1 .. (Len(rs) + 1) /\ L + 1 \in 1 .. (Len(rs) + 1) /\ i + 1 < L + 1
      BY <1>1, <2>1, <2>2
    <3>2. ends[i + 1] < ends[L + 1]
      BY <3>1, OffsetsIncrease
    <3>3. ends[i + 1] \in Nat /\ ends[L + 1] \in Nat
      BY <1>2, <3>1
    <3> QED
      BY <1>2, <2>1, <3>2, <3>3
  <2> QED
    BY <2>2
<1>4. Copied(rs, room) = IF full = {} THEN rs
                         ELSE SubSeq(rs, 1, CHOOSE i \in full : \A j \in full : i <= j)
  BY DEF Copied
<1> HIDE DEF full
<1>5. CASE full = {}
  BY <1>4, <1>5
<1>6. CASE full # {}
  <2>1. L \in full /\ \A j \in full : L <= j
    BY <1>1, <1>3, <1>6
  <2>2. (CHOOSE i \in full : \A j \in full : i <= j) = L
    BY <1>3, <2>1
  <2>3. SubSeq(rs, 1, L) = rs
    BY SubSeqFull
  <2> QED
    BY <1>4, <1>6, <2>2, <2>3
<1> QED
  BY <1>5, <1>6

\* One step of ResolveRulesBuffer.
ReadNext(buf, n, last) ==
    IF last.at = n \/ last.status # "SUCCESS" THEN last
    ELSE IF last.at \notin DOMAIN buf THEN [last EXCEPT !.status = "OVERRUN"]
    ELSE [last EXCEPT !.rules = Append(last.rules, buf[last.at]),
                      !.at = last.at + RuleSize(buf[last.at])]

\* Where it is after i steps: behind the first i rules, or the last.
Reached(rs, i) == IF i <= Len(rs) THEN i ELSE Len(rs)
ReadTo(rs, i) ==
    [rules |-> SubSeq(rs, 1, Reached(rs, i)), at |-> Offsets(rs)[Reached(rs, i) + 1],
     status |-> "SUCCESS"]

LEMMA ReachedIs ==
    ASSUME NEW rs, NEW l \in Nat, l = Len(rs), NEW i \in Nat
    PROVE  /\ i <= l => Reached(rs, i) = i
           /\ i >= l => Reached(rs, i) = l
<1>1. i <= Len(rs) <=> i <= l
  OBVIOUS
<1>2. Reached(rs, i) = IF i <= l THEN i ELSE l
  BY <1>1 DEF Reached
<1> QED
  BY <1>2

LEMMA ReadAdvances ==
    ASSUME NEW rs \in Seq(RuleType), NEW i \in Nat
    PROVE  ReadNext(Image(rs), TotalSize(rs), ReadTo(rs, i)) = ReadTo(rs, i + 1)
<1> DEFINE L == Len(rs)
           at == Offsets(rs)
           last == ReadTo(rs, i)
<1>1. L \in Nat /\ DOMAIN rs = 1 .. L
  BY SizesOf
<1>2. CASE i >= L
  <2>1. Reached(rs, i) = L /\ Reached(rs, i + 1) = L
    BY <1>1, <1>2, ReachedIs
  <2>2. last.at = at[L + 1] /\ ReadTo(rs, i + 1) = last
    BY <2>1 DEF ReadTo
  <2>3. TotalSize(rs) = at[L + 1]
    BY DEF TotalSize
  <2> QED
    BY <2>2, <2>3 DEF ReadNext
<1>3. CASE i < L
  <2>1. Reached(rs, i) = i /\ Reached(rs, i + 1) = i + 1
    BY <1>1, <1>3, ReachedIs
  <2>2. i + 1 \in 1 .. L
    BY <1>1, <1>3
  <2>3. last = [rules |-> SubSeq(rs, 1, i), at |-> at[i + 1], status |-> "SUCCESS"]
    BY <2>1 DEF ReadTo
  <2>4. at[i + 1] \in DOMAIN Image(rs) /\ Image(rs)[at[i + 1]] = rs[i + 1]
    BY <2>2, ImageIs, ZenonT(40)
  <2>5. at[(i + 1) + 1] = at[i + 1] + RuleSize(rs[i + 1])
    BY <2>2, OffsetsRise
  <2>6. Append(SubSeq(rs, 1, i), rs[i + 1]) = SubSeq(rs, 1, i + 1)
    <3>1. SubSeq(rs, 1, i + 1) = SubSeq(rs, 1, (i + 1) - 1) \o <<rs[i + 1]>>
      BY <1>1, <2>2, SubSeqRecursiveSecond
    <3>2. SubSeq(rs, 1, i) \in Seq(RuleType) /\ rs[i + 1] \in RuleType
      BY <1>1, <2>2, SubSeqProperties, ElementOfSeq
    <3>3. Append(SubSeq(rs, 1, i), rs[i + 1]) = SubSeq(rs, 1, i) \o <<rs[i + 1]>>
      BY <3>2, AppendIsConcat
    <3> QED
      BY <3>1, <3>3
  <2>7. at[i + 1] # TotalSize(rs)
    <3>1. i + 1 \in 1 .. (Len(rs) + 1) /\ L + 1 \in 1 .. (Len(rs) + 1) /\ i + 1 < L + 1
      BY <1>1, <1>3
    <3>2. at[i + 1] < at[L + 1]
      BY <3>1, OffsetsIncrease
    <3>3. at[i + 1] \in Nat /\ at[L + 1] \in Nat
      BY <3>1, OffsetsRise
    <3> QED
      BY <3>2, <3>3 DEF TotalSize
  <2> DEFINE p == SubSeq(rs, 1, i)
             q == SubSeq(rs, 1, i + 1)
             o == at[i + 1]
             o2 == at[(i + 1) + 1]
             buf == Image(rs)
  <2>8. ReadTo(rs, i + 1) = [rules |-> q, at |-> o2, status |-> "SUCCESS"]
    BY <2>1 DEF ReadTo
  <2>9. Append(p, buf[o]) = q /\ o + RuleSize(buf[o]) = o2
    BY <2>4, <2>5, <2>6
  <2>10. last = [rules |-> p, at |-> o, status |-> "SUCCESS"]
    BY <2>3
  <2>11. o \in DOMAIN buf /\ o # TotalSize(rs)
    BY <2>4, <2>7
  <2> HIDE DEF p, q, o, o2, buf, last
  <2>12. ReadNext(buf, TotalSize(rs), last) = [rules |-> q, at |-> o2, status |-> "SUCCESS"]
    BY <2>9, <2>10, <2>11 DEF ReadNext
  <2> QED
    BY <2>8, <2>12 DEF buf, last
<1> QED
  BY <1>1, <1>2, <1>3

\* A buffer has as many records as there are rules in it.
LEMMA ImageSize ==
    ASSUME NEW rs \in Seq(RuleType)
    PROVE  Cardinality(DOMAIN Image(rs)) = Len(rs)
<1> DEFINE L == Len(rs)
           D == DOMAIN Image(rs)
           f == [i \in 1 .. L |-> Offsets(rs)[i]]
<1>1. L \in Nat
  OBVIOUS
<1>2. D = {Offsets(rs)[i] : i \in 1 .. L}
      /\ \A i, j \in 1 .. L : Offsets(rs)[i] = Offsets(rs)[j] => i = j
  BY ImageIs
<1>3. f \in [1 .. L -> D] /\ \A t \in D : \E i \in 1 .. L : f[i] = t
  BY <1>2
<1>4. \A i, j \in DOMAIN f : f[i] = f[j] => i = j
  BY <1>2
<1> HIDE DEF D, f, L
<1>5. f \in Bijection(1 .. L, D)
  BY <1>3, <1>4 DEF Bijection, Injection, Surjection, IsInjective
<1>6. ExistsBijection(1 .. L, D)
  BY <1>5 DEF ExistsBijection
<1>7. IsFiniteSet(1 .. L) /\ Cardinality(1 .. L) = L
  BY <1>1, FS_Interval
<1>8. Cardinality(D) = Cardinality(1 .. L)
  BY <1>6, <1>7, FS_Bijection
<1> QED
  BY <1>7, <1>8 DEF D, L

\* ResolveRulesBuffer stays in the buffer and finds the rules in it.
LEMMA ResolveIs ==
    ASSUME NEW rs \in Seq(RuleType)
    PROVE  /\ ResolveRulesBuffer(Image(rs), TotalSize(rs)).status = "SUCCESS"
           /\ ResolveRulesBuffer(Image(rs), TotalSize(rs)).rules = rs
<1> DEFINE buf == Image(rs)
           n == TotalSize(rs)
           steps == Cardinality(DOMAIN buf) + 1
           First == [rules |-> <<>>, at |-> 0, status |-> "SUCCESS"]
           g == [i \in 0 .. steps |-> ReadTo(rs, i)]
           after == CHOOSE f : f = [i \in 0 .. steps |->
                                      IF i = 0 THEN First ELSE ReadNext(buf, n, f[i - 1])]
<1>1. Len(rs) \in Nat /\ steps = Len(rs) + 1 /\ steps \in Nat
  BY ImageSize
<1>2. ReadTo(rs, 0) = First
  <2>1. Reached(rs, 0) = 0 /\ SubSeq(rs, 1, 0) = <<>> /\ Offsets(rs)[0 + 1] = 0
    BY <1>1, SubSeqEmpty, OffsetsRise DEF Reached
  <2> QED
    BY <2>1 DEF ReadTo
<1>3. ResolveRulesBuffer(buf, n) = after[steps]
  BY Zenon DEF ResolveRulesBuffer, ReadNext
<1> HIDE DEF First, steps
<1>4. g = [i \in 0 .. steps |-> IF i = 0 THEN First ELSE ReadNext(buf, n, g[i - 1])]
  <2>1. ASSUME NEW i \in 0 .. steps
        PROVE  g[i] = IF i = 0 THEN First ELSE ReadNext(buf, n, g[i - 1])
    <3>1. CASE i = 0
      BY <1>2, <3>1
    <3>2. CASE i # 0
      <4>1. i - 1 \in 0 .. steps /\ i - 1 \in Nat /\ (i - 1) + 1 = i
        BY <1>1, <3>2
      <4>2. g[i - 1] = ReadTo(rs, i - 1) /\ g[i] = ReadTo(rs, (i - 1) + 1)
        BY <4>1
      <4> QED
        BY <3>2, <4>1, <4>2, ReadAdvances
    <3> QED
      BY <3>1, <3>2
  <2> QED
    BY <2>1
<1> HIDE DEF g
<1>5. \E f : f = [i \in 0 .. steps |-> IF i = 0 THEN First ELSE ReadNext(buf, n, f[i - 1])]
  BY <1>4
<1>6. after = [i \in 0 .. steps |-> IF i = 0 THEN First ELSE ReadNext(buf, n, after[i - 1])]
  BY <1>5, Zenon
<1> HIDE DEF after, buf, n
<1> DEFINE T == {k \in Nat : after[k] = ReadTo(rs, k)}
<1>7. 0 \in T
  BY <1>1, <1>2, <1>6
<1>8. \A k \in 1 .. steps : k - 1 \in T => k \in T
  <2> SUFFICES ASSUME NEW k \in 1 .. steps, after[k - 1] = ReadTo(rs, k - 1)
               PROVE  after[k] = ReadTo(rs, k)
    BY <1>1
  <2>1. k \in 0 .. steps /\ k # 0 /\ k - 1 \in Nat /\ (k - 1) + 1 = k
    BY <1>1
  <2>2. after[k] = ReadNext(buf, n, after[k - 1])
    BY <1>6, <2>1
  <2>3. ReadNext(buf, n, ReadTo(rs, k - 1)) = ReadTo(rs, (k - 1) + 1)
    BY <2>1, ReadAdvances DEF buf, n
  <2> QED
    BY <2>1, <2>2, <2>3
<1> HIDE DEF T
<1>9. \A k \in 0 .. steps : k \in T
  BY ONLY <1>1, <1>7, <1>8, IntervalInd
<1>10. steps \in T
  BY <1>1, <1>9
<1>11. after[steps] = ReadTo(rs, steps)
  BY <1>10 DEF T
<1>12. ReadTo(rs, steps) = [rules |-> rs, at |-> Offsets(rs)[Len(rs) + 1], status |-> "SUCCESS"]
  <2>1. Reached(rs, steps) = Len(rs)
    BY <1>1, ReachedIs
  <2>2. SubSeq(rs, 1, Len(rs)) = rs
    BY SubSeqFull
  <2> QED
    BY <2>1, <2>2 DEF ReadTo
<1>13. ResolveRulesBuffer(Image(rs), TotalSize(rs)) = ReadTo(rs, steps)
  BY <1>3, <1>11 DEF buf, n
<1> QED
  BY <1>12, <1>13

\* An empty buffer.
LEMMA EmptyImage == Image(<<>>) = <<>>
<1>1. <<>> \in Seq(RuleType) /\ Len(<<>>) = 0
  OBVIOUS
<1>2. DOMAIN <<>> = {}
  OBVIOUS
<1>3. Image(<<>>) = [o \in {} |-> <<>>[CHOOSE i \in {} : Offsets(<<>>)[i] = o]]
  <2>1. {Offsets(<<>>)[i] : i \in {}} = {}
    OBVIOUS
  <2> QED
    BY <1>2, <2>1 DEF Image
<1> QED
  BY <1>3

-----------------------------------------------------------------------------
(* The inductive invariant.                                                *)

CallType ==
    {NoCall} \cup {[op |-> o] : o \in {"add", "remove", "cleanup", "query", "check"}}
        \cup {[op |-> o, bulk |-> b] : o \in {"add", "remove"}, b \in Bulks} \cup Queries

AnswerType == [hr : HResults, amount : Nat, rules : Seq(RuleType)]

\* The list has no rule twice; a thread with the size of a query has the query
\* in call; nothing was accessed out of bounds.
ProtocolInv ==
    /\ connected \in BOOLEAN
    /\ rules \in RuleLists
    /\ pc \in [Threads -> {"idle", "fetch"}]
    /\ call \in [Threads -> CallType]
    /\ \A t \in Threads : pc[t] = "fetch" => call[t] \in Queries
    /\ size \in [Threads -> Nat]
    /\ answer \in [Threads -> AnswerType]
    /\ fault = "none"

-----------------------------------------------------------------------------
(* The answers to a query.                                                 *)

LEMMA HResultIs ==
    /\ HResult("SUCCESS") = "S_OK"
    /\ HResult("BUFFER_TOO_SMALL") = "INSUFFICIENT_BUFFER"
    /\ HResult("NOT_FOUND") = "NOT_FOUND"
    /\ HResult("INSUFFICIENT_RESOURCES") = "NO_SYSTEM_RESOURCES"
    /\ HResult("INVALID_PARAMETER_1") = "INVALID_PARAMETER"
  BY DEF HResult

\* Rules without a byte are no rules.
LEMMA NothingToSend ==
    ASSUME NEW rs \in Seq(RuleType), TotalSize(rs) = 0
    PROVE  rs = <<>>
<1>1. Len(rs) \in Nat
  OBVIOUS
<1>2. CASE Len(rs) = 0
  BY <1>2
<1>3. CASE Len(rs) # 0
  <2>1. Offsets(rs)[1] = 0
    BY OffsetsRise
  <2>2. 1 \in 1 .. (Len(rs) + 1) /\ Len(rs) + 1 \in 1 .. (Len(rs) + 1) /\ 1 < Len(rs) + 1
    BY <1>1, <1>3
  <2>3. Offsets(rs)[1] < Offsets(rs)[Len(rs) + 1]
    BY ONLY <2>2, rs \in Seq(RuleType), OffsetsIncrease
  <2>4. Offsets(rs)[Len(rs) + 1] = 0
    BY DEF TotalSize
  <2> QED
    BY <2>1, <2>3, <2>4
<1> QED
  BY <1>2, <1>3

\* What a message of a query is answered: the size of the rules in force that
\* it asks for, all of them if there is room, and none of them otherwise.
Answers(c, room, reply) ==
    LET exp == Expected(c, rules)
    IN  /\ reply.status \in {"SUCCESS", "BUFFER_TOO_SMALL", "NOT_FOUND"}
        /\ reply.size = TotalSize(exp)
        /\ reply.amount = Len(exp) % UShort
        /\ reply.status = "BUFFER_TOO_SMALL" => TotalSize(exp) > room
        /\ reply.status = "SUCCESS" => /\ ~ (TotalSize(exp) > room)
                                       /\ reply.buffer = Image(exp)

LEMMA ExpectedIs ==
    ASSUME rules \in RuleLists, NEW c \in Queries
    PROVE  Expected(c, rules) \in Seq(RuleType)
<1>1. rules \in Seq(RuleType)
  BY ListIs
<1>2. \A p : Matches(p, rules) \in Seq(RuleType)
  BY <1>1, SelectIs DEF Matches
<1> QED
  BY <1>1, <1>2 DEF Expected

LEMMA ReplyIs ==
    ASSUME rules \in RuleLists, NEW c \in Queries, NEW room \in Nat
    PROVE  Answers(c, room, ReplyTo(c, room))
<1> DEFINE exp == Expected(c, rules)
<1>1. exp \in Seq(RuleType) /\ TotalSize(exp) \in Nat
  BY ExpectedIs, OffsetsRise
<1>2. \A s, b : /\ Reply(s, exp, b).status = s /\ Reply(s, exp, b).size = TotalSize(exp)
                /\ Reply(s, exp, b).amount = Len(exp) % UShort
                /\ Reply(s, exp, b).buffer = b
  BY DEF Reply
<1>3. CASE c.op = "query"
  <2>1. exp = rules
    BY <1>3 DEF Expected
  <2>2. ReplyTo(c, room) = FgcGetRules(room)
    BY <1>3 DEF ReplyTo
  <2>3. CASE TotalSize(exp) > room
    <3>1. ReplyTo(c, room) = Reply("BUFFER_TOO_SMALL", exp, <<>>)
      BY <2>1, <2>2, <2>3 DEF FgcGetRules
    <3> HIDE DEF exp
    <3>2. ReplyTo(c, room).status = "BUFFER_TOO_SMALL"
      BY <1>2, <3>1
    <3> QED
      BY <1>2, <2>3, <3>1, <3>2 DEF Answers, exp
  <2>4. CASE ~ (TotalSize(exp) > room)
    <3>1. ReplyTo(c, room) = Reply("SUCCESS", exp, Image(exp))
      <4>1. CASE room = 0
        <5>1. TotalSize(exp) = 0
          BY <1>1, <2>4, <4>1
        <5>2. exp = <<>>
          BY <1>1, <5>1, NothingToSend
        <5>3. Image(exp) = <<>>
          BY <5>2, EmptyImage
        <5> QED
          BY <2>1, <2>2, <2>4, <4>1, <5>3 DEF FgcGetRules
      <4>2. CASE room # 0
        <5>1. Copied(exp, room) = exp
          BY <1>1, <2>4, CopiedAll
        <5> QED
          BY <2>1, <2>2, <2>4, <4>2, <5>1 DEF FgcGetRules
      <4> QED
        BY <4>1, <4>2
    <3> HIDE DEF exp
    <3>2. ReplyTo(c, room).status = "SUCCESS"
      BY <1>2, <3>1
    <3> QED
      BY <1>2, <2>4, <3>1, <3>2 DEF Answers, exp
  <2> QED
    BY <2>3, <2>4
<1>4. CASE c.op # "query"
  <2>1. PICK p \in Paths : c = [op |-> "check", path |-> p]
    BY <1>4 DEF Queries
  <2>2. p \in Strings /\ p.len * WCHAR < UShort
    BY PathsAssumption DEF WCHAR
  <2>3. Cut(p) = p
    BY <2>2, CutIs
  <2>4. exp = Matches(p, rules)
    BY <1>4, <2>1 DEF Expected
  <2>5. ReplyTo(c, room) = FgcMatchRulesEx(p, room)
    BY <1>4, <2>1, <2>3 DEF ReplyTo
  <2> HIDE DEF exp
  <2>6. CASE TotalSize(exp) > room
    <3>1. ReplyTo(c, room) = Reply("BUFFER_TOO_SMALL", exp, <<>>)
      BY <2>4, <2>5, <2>6 DEF FgcMatchRulesEx
    <3>2. ReplyTo(c, room).status = "BUFFER_TOO_SMALL"
      BY <1>2, <3>1
    <3> QED
      BY <1>2, <2>6, <3>1, <3>2 DEF Answers, exp
  <2>7. CASE ~ (TotalSize(exp) > room) /\ Len(exp) % UShort = 0
    <3>1. ReplyTo(c, room) = Reply("NOT_FOUND", exp, Image(exp))
      BY <2>4, <2>5, <2>7 DEF FgcMatchRulesEx
    <3>2. ReplyTo(c, room).status = "NOT_FOUND"
      BY <1>2, <3>1
    <3> QED
      BY <1>2, <3>1, <3>2 DEF Answers, exp
  <2>8. CASE ~ (TotalSize(exp) > room) /\ Len(exp) % UShort # 0
    <3>1. ReplyTo(c, room) = Reply("SUCCESS", exp, Image(exp))
      BY <2>4, <2>5, <2>8 DEF FgcMatchRulesEx
    <3>2. ReplyTo(c, room).status = "SUCCESS"
      BY <1>2, <3>1
    <3> QED
      BY <1>2, <2>8, <3>1, <3>2 DEF Answers, exp
  <2> QED
    BY <2>6, <2>7, <2>8
<1> QED
  BY <1>3, <1>4

-----------------------------------------------------------------------------
(* The steps: each keeps the invariant and does what the action properties *)
(* say of it.                                                              *)

Honest(t) == SnapshotTaken(t) /\ AddHonoured(t) /\ RemoveHonoured(t)

LEMMA FailureIs ==
    ASSUME NEW hr \in HResults
    PROVE  Failure(hr) \in AnswerType /\ Failure(hr).hr = hr
<1>1. Failure(hr) = [hr |-> hr, amount |-> 0, rules |-> <<>>]
  BY DEF Failure, NoAnswer
<1> QED
  BY <1>1 DEF AnswerType

LEMMA ReturnIs ==
    ASSUME ProtocolInv, NEW t \in Threads, NEW c \in CallType, NEW a \in AnswerType,
           Return(t, c, a)
    PROVE  /\ pc' \in [Threads -> {"idle", "fetch"}]
           /\ call' \in [Threads -> CallType]
           /\ \A u \in Threads : pc'[u] = "fetch" => call'[u] \in Queries
           /\ size' \in [Threads -> Nat]
           /\ answer' \in [Threads -> AnswerType]
           /\ pc'[t] = "idle" /\ call'[t] = c /\ answer'[t] = a
           /\ \A u \in Threads \ {t} : pc'[u] = pc[u] /\ call'[u] = call[u]
<1> USE DEF ProtocolInv, Return
<1>1. /\ pc' \in [Threads -> {"idle", "fetch"}]
      /\ size' \in [Threads -> Nat]
  OBVIOUS
<1>2. call' \in [Threads -> CallType] /\ answer' \in [Threads -> AnswerType]
  OBVIOUS
<1>3. pc'[t] = "idle" /\ call'[t] = c /\ answer'[t] = a
  OBVIOUS
<1>4. \A u \in Threads \ {t} : pc'[u] = pc[u] /\ call'[u] = call[u]
  OBVIOUS
<1>5. \A u \in Threads : pc'[u] = "fetch" => call'[u] \in Queries
  BY <1>3, <1>4
<1> QED
  BY <1>1, <1>2, <1>3, <1>4, <1>5

\* A thread that does not move has got nothing.
LEMMA RestingHonest ==
    ASSUME NEW u, pc'[u] = pc[u], call'[u] = call[u]
    PROVE  Honest(u)
  BY DEF Honest, SnapshotTaken, Fetched, AddHonoured, RemoveHonoured, Returned

\* Nor has one whose call has failed, unless for the size of its buffer.
LEMMA FailedHonest ==
    ASSUME NEW u, answer'[u].hr \notin {"S_OK", "INSUFFICIENT_BUFFER"}
    PROVE  Honest(u)
  BY DEF Honest, SnapshotTaken, AddHonoured, RemoveHonoured, Returned

LEMMA FailedCall ==
    ASSUME ProtocolInv, NEW t \in Threads, NEW c \in CallType, NEW hr \in HResults,
           hr \notin {"S_OK", "INSUFFICIENT_BUFFER"}, Return(t, c, Failure(hr)),
           connected' = connected, rules' \in RuleLists, fault' = fault
    PROVE  ProtocolInv' /\ \A u \in Threads : Honest(u)
<1>1. Failure(hr) \in AnswerType /\ Failure(hr).hr = hr
  BY FailureIs
<1>2. /\ pc' \in [Threads -> {"idle", "fetch"}]
      /\ call' \in [Threads -> CallType]
      /\ \A u \in Threads : pc'[u] = "fetch" => call'[u] \in Queries
      /\ size' \in [Threads -> Nat]
      /\ answer' \in [Threads -> AnswerType]
      /\ answer'[t] = Failure(hr)
      /\ \A u \in Threads \ {t} : pc'[u] = pc[u] /\ call'[u] = call[u]
  BY <1>1, ReturnIs
<1>3. ProtocolInv'
  BY <1>2 DEF ProtocolInv
<1>4. Honest(t)
  BY <1>1, <1>2, FailedHonest
<1>5. \A u \in Threads \ {t} : Honest(u)
  BY <1>2, RestingHonest
<1> QED
  BY <1>3, <1>4, <1>5

LEMMA SendFailsStep ==
    ASSUME ProtocolInv, NEW t \in Threads, SendFails(t)
    PROVE  ProtocolInv' /\ \A u \in Threads : Honest(u)
<1>1. PICK c \in Calls(t) : Return(t, c, Failure("INVALID_HANDLE"))
                            \/ Return(t, c, Failure("E_OUTOFMEMORY"))
  BY DEF SendFails
<1>2. c \in CallType
  <2>1. call[t] \in CallType
    BY DEF ProtocolInv
  <2> QED
    BY <2>1 DEF Calls, CallType
<1>3. connected' = connected /\ rules' \in RuleLists /\ fault' = fault
  BY DEF SendFails, ProtocolInv
<1>4. "INVALID_HANDLE" \in HResults /\ "E_OUTOFMEMORY" \in HResults
  BY DEF HResults
<1> QED
  BY <1>1, <1>2, <1>3, <1>4, FailedCall

LEMMA RefuseBulkStep ==
    ASSUME ProtocolInv, NEW t \in Threads, RefuseBulk(t)
    PROVE  ProtocolInv' /\ \A u \in Threads : Honest(u)
<1>1. PICK bulk \in Bulks, o \in {"add", "remove"} :
          Return(t, [op |-> o, bulk |-> bulk], Failure("E_INVALIDARG"))
  BY DEF RefuseBulk
<1>2. [op |-> o, bulk |-> bulk] \in CallType
  BY DEF CallType
<1>3. connected' = connected /\ rules' \in RuleLists /\ fault' = fault
  BY DEF RefuseBulk, ProtocolInv
<1>4. "E_INVALIDARG" \in HResults
  BY DEF HResults
<1> QED
  BY <1>1, <1>2, <1>3, <1>4, FailedCall

LEMMA ConnectionStep ==
    ASSUME ProtocolInv, FglConnectCore \/ FglDisconnectCore
    PROVE  ProtocolInv' /\ \A u \in Threads : Honest(u)
<1>1. /\ connected' \in BOOLEAN
      /\ rules' = rules /\ pc' = pc /\ call' = call /\ size' = size
      /\ answer' = answer /\ fault' = fault
  BY DEF FglConnectCore, FglDisconnectCore
<1>2. ProtocolInv'
  BY <1>1 DEF ProtocolInv
<1> QED
  BY <1>1, <1>2, RestingHonest

LEMMA StutterStep ==
    ASSUME ProtocolInv, UNCHANGED vars
    PROVE  ProtocolInv' /\ \A u \in Threads : Honest(u)
<1>1. /\ connected' = connected /\ rules' = rules /\ pc' = pc /\ call' = call
      /\ size' = size /\ answer' = answer /\ fault' = fault
  BY DEF vars
<1>2. ProtocolInv'
  BY <1>1 DEF ProtocolInv
<1> QED
  BY <1>1, <1>2, RestingHonest

\* A call that returns a success and leaves the list in order.
LEMMA SucceededCall ==
    ASSUME ProtocolInv, NEW t \in Threads, NEW c \in CallType, NEW a \in AnswerType,
           Return(t, c, a), connected' = connected, rules' \in RuleLists, fault' = fault,
           pc[t] = "idle"
    PROVE  /\ ProtocolInv'
           /\ call'[t] = c /\ answer'[t] = a /\ SnapshotTaken(t)
           /\ \A u \in Threads \ {t} : Honest(u)
<1>1. /\ pc' \in [Threads -> {"idle", "fetch"}]
      /\ call' \in [Threads -> CallType]
      /\ \A u \in Threads : pc'[u] = "fetch" => call'[u] \in Queries
      /\ size' \in [Threads -> Nat]
      /\ answer' \in [Threads -> AnswerType]
      /\ call'[t] = c /\ answer'[t] = a
      /\ \A u \in Threads \ {t} : pc'[u] = pc[u] /\ call'[u] = call[u]
  BY ReturnIs
<1>2. ProtocolInv'
  BY <1>1 DEF ProtocolInv
<1>3. \A u \in Threads \ {t} : Honest(u)
  BY <1>1, RestingHonest
<1>4. SnapshotTaken(t)
  BY DEF SnapshotTaken, Fetched
<1> QED
  BY <1>1, <1>2, <1>3, <1>4

LEMMA CleanupStep ==
    ASSUME ProtocolInv, NEW t \in Threads, FglCleanupRules(t)
    PROVE  ProtocolInv' /\ \A u \in Threads : Honest(u)
<1> DEFINE c == [op |-> "cleanup"]
           a == [hr |-> "S_OK", amount |-> Len(rules), rules |-> <<>>]
<1>1. c \in CallType
  BY DEF CallType
<1>2. a \in AnswerType
  <2>1. Len(rules) \in Nat
    BY ListIs DEF ProtocolInv
  <2> QED
    BY <2>1 DEF AnswerType, HResults
<1>3. rules' \in RuleLists
  <2>1. <<>> \in Seq(Whole) /\ DOMAIN <<>> = {}
    OBVIOUS
  <2>2. Distinct(<<>>)
    BY <2>1 DEF Distinct
  <2> QED
    BY <2>1, <2>2 DEF RuleLists, FglCleanupRules
<1>4. Return(t, c, a) /\ connected' = connected /\ fault' = fault /\ pc[t] = "idle"
  BY DEF FglCleanupRules
<1> HIDE DEF a
<1>5. /\ ProtocolInv' /\ call'[t] = c /\ SnapshotTaken(t)
      /\ \A u \in Threads \ {t} : Honest(u)
  BY <1>1, <1>2, <1>3, <1>4, SucceededCall
<1>6. AddHonoured(t) /\ RemoveHonoured(t)
  BY <1>5 DEF AddHonoured, RemoveHonoured, Returned
<1> QED
  BY <1>5, <1>6 DEF Honest

\* What the handler of a bulk leaves and answers.
LEMMA BulkReturnsIs ==
    ASSUME ProtocolInv, NEW t \in Threads, NEW c \in CallType, NEW reply \in Progress,
           reply.status # "OVERRUN", BulkReturns(t, c, reply), pc[t] = "idle"
    PROVE  /\ ProtocolInv' /\ SnapshotTaken(t) /\ rules' = reply.rules
           /\ \A u \in Threads \ {t} : Honest(u)
           /\ \/ answer'[t].hr # "S_OK"
              \/ /\ reply.status = "SUCCESS" /\ call'[t] = c
                 /\ answer'[t].amount = reply.amount
<1>1. /\ reply.rules \in RuleLists /\ reply.amount \in Nat
      /\ reply.status \in Statuses \ {"OVERRUN"}
  BY DEF Progress
<1>2. rules' = reply.rules /\ connected' = connected /\ fault' = fault
  BY DEF BulkReturns
<1>3. CASE reply.status = "SUCCESS"
  <2> DEFINE a == [hr |-> "S_OK", amount |-> reply.amount, rules |-> <<>>]
  <2>1. Return(t, c, a)
    BY <1>3, HResultIs DEF BulkReturns
  <2>2. a \in AnswerType /\ a.amount = reply.amount
    BY <1>1 DEF AnswerType, HResults
  <2> HIDE DEF a
  <2>3. /\ ProtocolInv' /\ call'[t] = c /\ answer'[t] = a /\ SnapshotTaken(t)
        /\ \A u \in Threads \ {t} : Honest(u)
    BY <1>1, <1>2, <2>1, <2>2, SucceededCall
  <2> QED
    BY <1>2, <1>3, <2>2, <2>3
<1>4. CASE reply.status # "SUCCESS"
  <2> DEFINE hr == HResult(reply.status)
  <2>1. hr \in {"NO_SYSTEM_RESOURCES", "INVALID_PARAMETER"}
    BY <1>1, <1>4, HResultIs DEF Statuses
  <2>2. hr \in HResults /\ hr \notin {"S_OK", "INSUFFICIENT_BUFFER"}
    BY <2>1 DEF HResults
  <2>3. Return(t, c, Failure(hr))
    BY <2>2 DEF BulkReturns
  <2> HIDE DEF hr
  <2>4. ProtocolInv' /\ \A u \in Threads : Honest(u)
    BY <1>1, <1>2, <2>2, <2>3, FailedCall
  <2>5. Failure(hr) \in AnswerType /\ Failure(hr).hr = hr
    BY <2>2, FailureIs
  <2>6. answer'[t] = Failure(hr)
    BY <2>3, <2>5, ReturnIs
  <2> QED
    BY <1>2, <2>2, <2>4, <2>5, <2>6 DEF Honest
<1> QED
  BY <1>3, <1>4

LEMMA AddBulkStep ==
    ASSUME ProtocolInv, NEW t \in Threads, FglAddBulkRules(t)
    PROVE  ProtocolInv' /\ \A u \in Threads : Honest(u)
<1>1. PICK bulk \in Bulks : \E fails \in 1 .. (Len(bulk) + 1) :
          /\ Sendable(bulk)
          /\ BulkReturns(t, [op |-> "add", bulk |-> bulk],
                FgcAddRules(FglCreateRulesMessage(bulk), Len(bulk), fails))
  BY DEF FglAddBulkRules
<1>2. PICK fails \in 1 .. (Len(bulk) + 1) :
          BulkReturns(t, [op |-> "add", bulk |-> bulk],
             FgcAddRules(FglCreateRulesMessage(bulk), Len(bulk), fails))
  BY <1>1
<1> DEFINE w == FgcAddRules(FglCreateRulesMessage(bulk), Len(bulk), fails)
           c == [op |-> "add", bulk |-> bulk]
           cs == CutBulk(bulk)
<1>3. w \in Progress /\ w.status # "OVERRUN"
      /\ (w.status = "SUCCESS" => AddedTo(cs, Len(bulk), w))
  BY AddRulesIs DEF ProtocolInv
<1>4. c \in CallType /\ c.op = "add" /\ c.bulk = bulk
  BY DEF CallType
<1>5. BulkReturns(t, c, w) /\ pc[t] = "idle"
  BY <1>2 DEF FglAddBulkRules
<1> HIDE DEF w, c
<1>6. /\ ProtocolInv' /\ SnapshotTaken(t) /\ rules' = w.rules
      /\ \A u \in Threads \ {t} : Honest(u)
      /\ \/ answer'[t].hr # "S_OK"
         \/ w.status = "SUCCESS" /\ call'[t] = c /\ answer'[t].amount = w.amount
  BY <1>3, <1>4, <1>5, BulkReturnsIs
<1>7. CASE answer'[t].hr # "S_OK"
  BY <1>6, <1>7 DEF Honest, AddHonoured, RemoveHonoured, Returned
<1>8. CASE w.status = "SUCCESS" /\ call'[t] = c /\ answer'[t].amount = w.amount
  <2>1. RemoveHonoured(t)
    BY <1>4, <1>8 DEF RemoveHonoured, Returned
  <2>2. AddedTo(cs, Len(bulk), w)
    BY <1>3, <1>8
  <2>3. ASSUME Returned(t, "add")
        PROVE  \A i \in DOMAIN bulk : Known(bulk[i], rules')
    <3>1. \A i \in DOMAIN bulk : Countable(bulk[i])
      BY <1>4, <1>8, <2>3 DEF Returned
    <3>2. \A i \in DOMAIN bulk : i \in 1 .. Len(bulk) /\ cs[i] = bulk[i]
      BY <3>1, MessageIs
    <3>3. \A i \in DOMAIN bulk : VALID_RULE_CODE(bulk[i])
      BY <1>1 DEF Sendable
    <3>4. \A i \in 1 .. Len(bulk) : VALID_RULE_CODE(cs[i]) => Known(cs[i], w.rules)
      BY <2>2 DEF AddedTo
    <3> HIDE DEF cs
    <3> QED
      BY <1>6, <3>2, <3>3, <3>4
  <2>4. Range(rules) \subseteq Range(rules') /\ answer'[t].amount = Len(rules') - Len(rules)
    BY <1>6, <1>8, <2>2 DEF AddedTo
  <2>5. AddHonoured(t)
    BY <1>4, <1>8, <2>3, <2>4 DEF AddHonoured
  <2> QED
    BY <1>6, <2>1, <2>5 DEF Honest
<1> QED
  BY <1>6, <1>7, <1>8

LEMMA RemoveBulkStep ==
    ASSUME ProtocolInv, NEW t \in Threads, FglRemoveBulkRules(t)
    PROVE  ProtocolInv' /\ \A u \in Threads : Honest(u)
<1>1. PICK bulk \in Bulks :
          BulkReturns(t, [op |-> "remove", bulk |-> bulk],
             FgcFindAndRemoveRule(FglCreateRulesMessage(bulk), Len(bulk)))
  BY DEF FglRemoveBulkRules
<1> DEFINE w == FgcFindAndRemoveRule(FglCreateRulesMessage(bulk), Len(bulk))
           c == [op |-> "remove", bulk |-> bulk]
           cs == CutBulk(bulk)
<1>2. w \in Progress /\ w.status = "SUCCESS" /\ RemovedTo(cs, Len(bulk), w)
  BY RemoveRulesIs DEF ProtocolInv
<1>3. c \in CallType /\ c.op = "remove" /\ c.bulk = bulk
  BY DEF CallType
<1>4. BulkReturns(t, c, w) /\ pc[t] = "idle"
  BY <1>1 DEF FglRemoveBulkRules
<1> HIDE DEF w, c
<1>5. /\ ProtocolInv' /\ SnapshotTaken(t) /\ rules' = w.rules
      /\ \A u \in Threads \ {t} : Honest(u)
      /\ answer'[t].hr = "S_OK" => call'[t] = c /\ answer'[t].amount = w.amount
  BY <1>2, <1>3, <1>4, BulkReturnsIs
<1>6. CASE answer'[t].hr # "S_OK"
  BY <1>5, <1>6 DEF Honest, AddHonoured, RemoveHonoured, Returned
<1>7. CASE answer'[t].hr = "S_OK"
  <2>1. call'[t] = c /\ answer'[t].amount = w.amount
    BY <1>5, <1>7
  <2>2. AddHonoured(t)
    BY <1>3, <2>1 DEF AddHonoured, Returned
  <2>3. ASSUME Returned(t, "remove")
        PROVE  Range(rules') = {r \in Range(rules) : ~ Known(r, bulk)}
    <3>1. \A i \in DOMAIN bulk : Countable(bulk[i])
      BY <1>3, <2>1, <2>3 DEF Returned
    <3>2. DOMAIN bulk = 1 .. Len(bulk) /\ \A i \in 1 .. Len(bulk) : cs[i] = bulk[i]
      BY <3>1, MessageIs
    <3>3. Range(w.rules)
            = {r \in Range(rules) : \A i \in 1 .. Len(bulk) : ~ SameRule(cs[i], r)}
      BY <1>2 DEF RemovedTo
    <3>4. \A r, m : SameRule(m, r) <=> SameRule(r, m)
      BY DEF SameRule
    <3> HIDE DEF cs
    <3>5. \A r : (\A i \in 1 .. Len(bulk) : ~ SameRule(cs[i], r)) <=> ~ Known(r, bulk)
      BY <3>2, <3>4 DEF Known
    <3> QED
      BY <1>5, <3>3, <3>5
  <2>4. answer'[t].amount = Len(rules) - Len(rules')
    BY <1>2, <1>5, <2>1 DEF RemovedTo
  <2>5. RemoveHonoured(t)
    BY <1>3, <2>1, <2>3, <2>4 DEF RemoveHonoured
  <2> QED
    BY <1>5, <2>2, <2>5 DEF Honest
<1> QED
  BY <1>6, <1>7

LEMMA QuerySizeStep ==
    ASSUME ProtocolInv, NEW t \in Threads, QuerySize(t)
    PROVE  ProtocolInv' /\ \A u \in Threads : Honest(u)
<1>1. PICK c \in Queries :
         LET reply == ReplyTo(c, 0)
         IN  IF HResult(reply.status) \in {"S_OK", "INSUFFICIENT_BUFFER"}
             THEN /\ pc' = [pc EXCEPT ![t] = "fetch"]
                  /\ call' = [call EXCEPT ![t] = c]
                  /\ size' = [size EXCEPT ![t] = reply.size]
                  /\ answer' = [answer EXCEPT ![t] = NoAnswer]
             ELSE Return(t, c, Failure(HResult(reply.status)))
  BY DEF QuerySize
<1> DEFINE reply == ReplyTo(c, 0)
           hr == HResult(reply.status)
<1>2. c \in CallType
  BY DEF CallType
<1>3. connected' = connected /\ rules' = rules /\ fault' = fault /\ pc[t] = "idle"
  BY DEF QuerySize
<1>4. Answers(c, 0, reply)
  BY ReplyIs DEF ProtocolInv
<1>5. reply.size \in Nat
  <2>1. Expected(c, rules) \in Seq(RuleType)
    BY ExpectedIs DEF ProtocolInv
  <2> QED
    BY <1>4, <2>1, OffsetsRise DEF Answers
<1>6. hr \in {"S_OK", "INSUFFICIENT_BUFFER", "NOT_FOUND"}
  BY <1>4, HResultIs DEF Answers
<1> HIDE DEF hr, reply
<1>7. CASE hr \in {"S_OK", "INSUFFICIENT_BUFFER"}
  <2>1. /\ pc' = [pc EXCEPT ![t] = "fetch"]
        /\ call' = [call EXCEPT ![t] = c]
        /\ size' = [size EXCEPT ![t] = reply.size]
        /\ answer' = [answer EXCEPT ![t] = NoAnswer]
    BY <1>1, <1>7 DEF hr, reply
  <2>2. NoAnswer \in AnswerType /\ NoAnswer.hr = "none"
    BY DEF NoAnswer, AnswerType, HResults
  <2>3. /\ pc' \in [Threads -> {"idle", "fetch"}] /\ call' \in [Threads -> CallType]
        /\ size' \in [Threads -> Nat]
    BY <1>2, <1>5, <2>1 DEF ProtocolInv
  <2>4. answer' \in [Threads -> AnswerType]
    BY <2>1, <2>2 DEF ProtocolInv
  <2>5. call'[t] = c /\ answer'[t] = NoAnswer
    BY <2>1 DEF ProtocolInv
  <2>6. \A u \in Threads \ {t} : pc'[u] = pc[u] /\ call'[u] = call[u]
    BY <2>1 DEF ProtocolInv
  <2>7. \A u \in Threads : pc'[u] = "fetch" => call'[u] \in Queries
    BY <2>5, <2>6 DEF ProtocolInv
  <2>8. ProtocolInv'
    BY <1>3, <2>3, <2>4, <2>7 DEF ProtocolInv
  <2>9. Honest(t)
    BY <2>2, <2>5, FailedHonest
  <2> QED
    BY <2>6, <2>8, <2>9, RestingHonest
<1>8. CASE hr = "NOT_FOUND"
  <2>1. Return(t, c, Failure(hr))
    BY <1>1, <1>8 DEF hr, reply
  <2>2. hr \in HResults /\ hr \notin {"S_OK", "INSUFFICIENT_BUFFER"}
    BY <1>8 DEF HResults
  <2>3. rules' \in RuleLists
    BY <1>3 DEF ProtocolInv
  <2> QED
    BY <1>2, <1>3, <2>1, <2>2, <2>3, FailedCall
<1> QED
  BY <1>6, <1>7, <1>8

LEMMA QueryFetchStep ==
    ASSUME ProtocolInv, NEW t \in Threads, QueryFetch(t)
    PROVE  ProtocolInv' /\ \A u \in Threads : Honest(u)
<1> DEFINE c == call[t]
           exp == Expected(c, rules)
           reply == ReplyTo(c, size[t])
           hr == HResult(reply.status)
           read == ResolveRulesBuffer(reply.buffer, reply.size)
<1>1. c \in CallType /\ c \in Queries /\ size[t] \in Nat /\ pc[t] = "fetch"
  BY DEF ProtocolInv, QueryFetch
<1>2. exp \in Seq(RuleType) /\ TotalSize(exp) \in Nat /\ Len(exp) \in Nat
  BY <1>1, ExpectedIs, OffsetsRise DEF ProtocolInv
<1>3. Answers(c, size[t], reply)
  BY <1>1, ReplyIs DEF ProtocolInv
<1>4. /\ connected' = connected /\ rules' = rules
      /\ CASE hr # "S_OK" -> Return(t, c, Failure(hr)) /\ UNCHANGED fault
           [] hr = "S_OK" /\ reply.size > size[t] ->
                fault' = "overflow" /\ UNCHANGED <<pc, call, size, answer>>
           [] OTHER ->
                IF read.status = "OVERRUN"
                THEN fault' = "overrun" /\ UNCHANGED <<pc, call, size, answer>>
                ELSE /\ Return(t, c, [hr |-> "S_OK", amount |-> reply.amount,
                                      rules |-> read.rules])
                     /\ UNCHANGED fault
  BY DEF QueryFetch, ResolvedSize
<1>5. hr \in {"S_OK", "INSUFFICIENT_BUFFER", "NOT_FOUND"}
      /\ (hr = "S_OK" => reply.status = "SUCCESS")
      /\ (hr = "INSUFFICIENT_BUFFER" => reply.status = "BUFFER_TOO_SMALL")
  BY <1>3, HResultIs DEF Answers
<1>6. rules' \in RuleLists
  BY <1>4 DEF ProtocolInv
<1>7. /\ reply.size = TotalSize(exp) /\ reply.amount = Len(exp) % UShort
      /\ reply.status = "BUFFER_TOO_SMALL" => TotalSize(exp) > size[t]
      /\ reply.status = "SUCCESS" => ~ (TotalSize(exp) > size[t]) /\ reply.buffer = Image(exp)
  BY <1>3 DEF Answers
<1> HIDE DEF hr, reply, exp, c, read
<1>8. CASE hr = "S_OK"
  <2>1. read.status = "SUCCESS" /\ read.rules = exp
    BY <1>2, <1>5, <1>7, <1>8, ResolveIs DEF read
  <2>2. ~ (reply.size > size[t])
    BY <1>5, <1>7, <1>8
  <2> DEFINE a == [hr |-> "S_OK", amount |-> reply.amount, rules |-> exp]
  <2>3. Return(t, c, a) /\ fault' = fault
    BY <1>4, <1>8, <2>1, <2>2
  <2>4. reply.amount \in Nat /\ (Len(exp) < UShort => reply.amount = Len(exp))
    <3>1. Len(exp) % UShort \in Nat /\ (Len(exp) \in 0 .. UShort - 1 => Len(exp) % UShort = Len(exp))
      BY <1>2, CountStays
    <3> QED
      BY <1>2, <1>7, <3>1, UShortAssumption
  <2>5. a \in AnswerType /\ a.hr = "S_OK" /\ a.amount = reply.amount /\ a.rules = exp
    BY <1>2, <2>4 DEF AnswerType, HResults
  <2> HIDE DEF a
  <2>6. /\ pc' \in [Threads -> {"idle", "fetch"}]
        /\ call' \in [Threads -> CallType]
        /\ \A u \in Threads : pc'[u] = "fetch" => call'[u] \in Queries
        /\ size' \in [Threads -> Nat]
        /\ answer' \in [Threads -> AnswerType]
        /\ call'[t] = c /\ answer'[t] = a
        /\ \A u \in Threads \ {t} : pc'[u] = pc[u] /\ call'[u] = call[u]
    BY <1>1, <2>3, <2>5, ReturnIs
  <2>7. ProtocolInv'
    BY <1>4, <1>6, <2>3, <2>6 DEF ProtocolInv
  <2>8. SnapshotTaken(t)
    BY <2>4, <2>5, <2>6 DEF SnapshotTaken, exp, c
  <2>9. AddHonoured(t) /\ RemoveHonoured(t)
    BY <2>6 DEF AddHonoured, RemoveHonoured, Returned, c
  <2> QED
    BY <2>6, <2>7, <2>8, <2>9, RestingHonest DEF Honest
<1>9. CASE hr # "S_OK"
  <2>1. Return(t, c, Failure(hr)) /\ fault' = fault
    BY <1>4, <1>9
  <2>2. hr \in HResults
    BY <1>5 DEF HResults
  <2>3. Failure(hr) \in AnswerType /\ Failure(hr).hr = hr
    BY <2>2, FailureIs
  <2>4. /\ pc' \in [Threads -> {"idle", "fetch"}]
        /\ call' \in [Threads -> CallType]
        /\ \A u \in Threads : pc'[u] = "fetch" => call'[u] \in Queries
        /\ size' \in [Threads -> Nat]
        /\ answer' \in [Threads -> AnswerType]
        /\ answer'[t] = Failure(hr)
        /\ \A u \in Threads \ {t} : pc'[u] = pc[u] /\ call'[u] = call[u]
    BY <1>1, <2>1, <2>3, ReturnIs
  <2>5. ProtocolInv'
    BY <1>4, <1>6, <2>1, <2>4 DEF ProtocolInv
  <2>6. SnapshotTaken(t)
    BY <1>5, <1>7, <1>9, <2>3, <2>4 DEF SnapshotTaken, exp, c
  <2>7. AddHonoured(t) /\ RemoveHonoured(t)
    BY <1>9, <2>3, <2>4 DEF AddHonoured, RemoveHonoured, Returned
  <2> QED
    BY <2>4, <2>5, <2>6, <2>7, RestingHonest DEF Honest
<1> QED
  BY <1>8, <1>9

LEMMA ProtocolStep ==
    ASSUME ProtocolInv, [Next]_vars
    PROVE  ProtocolInv' /\ \A u \in Threads : Honest(u)
<1>1. CASE FglConnectCore \/ FglDisconnectCore
  BY <1>1, ConnectionStep
<1>2. ASSUME NEW t \in Threads,
             \/ SendFails(t) \/ RefuseBulk(t) \/ FglAddBulkRules(t) \/ FglRemoveBulkRules(t)
             \/ FglCleanupRules(t) \/ QuerySize(t) \/ QueryFetch(t)
      PROVE  ProtocolInv' /\ \A u \in Threads : Honest(u)
  <2>1. CASE SendFails(t)
    BY <2>1, SendFailsStep
  <2>2. CASE RefuseBulk(t)
    BY <2>2, RefuseBulkStep
  <2>3. CASE FglAddBulkRules(t)
    BY <2>3, AddBulkStep
  <2>4. CASE FglRemoveBulkRules(t)
    BY <2>4, RemoveBulkStep
  <2>5. CASE FglCleanupRules(t)
    BY <2>5, CleanupStep
  <2>6. CASE QuerySize(t)
    BY <2>6, QuerySizeStep
  <2>7. CASE QueryFetch(t)
    BY <2>7, QueryFetchStep
  <2> QED
    BY <1>2, <2>1, <2>2, <2>3, <2>4, <2>5, <2>6, <2>7
<1>3. CASE UNCHANGED vars
  BY <1>3, StutterStep
<1> QED
  BY <1>1, <1>2, <1>3 DEF Next

LEMMA ProtocolInit ==
    ASSUME Init
    PROVE  ProtocolInv
<1>1. <<>> \in RuleLists
  <2>1. <<>> \in Seq(Whole) /\ DOMAIN <<>> = {}
    OBVIOUS
  <2> QED
    BY <2>1 DEF RuleLists, Distinct
<1>2. NoAnswer \in AnswerType
  BY DEF NoAnswer, AnswerType, HResults
<1>3. NoCall \in CallType
  BY DEF CallType
<1> QED
  BY <1>1, <1>2, <1>3 DEF Init, ProtocolInv

-----------------------------------------------------------------------------
(* The theorems.                                                           *)

\* The list holds every rule once, as a client sent it or cut by a USHORT; a
\* query between its two messages is one the library knows; no walk over a
\* buffer has left it (FgcAddRules, FgcFindAndRemoveRule, FgcGetRules,
\* FgcMatchRulesEx and ResolveRulesBuffer).
THEOREM ProtocolInvariant == Spec => []ProtocolInv
<1>1. Init => ProtocolInv
  BY ProtocolInit
<1>2. ProtocolInv /\ [Next]_vars => ProtocolInv'
  BY ProtocolStep
<1> QED
  BY <1>1, <1>2, PTL DEF Spec

\* Types: every status of the driver's routines reaches the caller as one of
\* the HRESULTs of the library (HRESULT_FROM_WIN32 in FileGuardLib.c).
THEOREM ProtocolTypeCorrect == Spec => []TypeOK
<1>1. ProtocolInv => TypeOK
  <2> SUFFICES ASSUME ProtocolInv
               PROVE  TypeOK
    OBVIOUS
  <2>1. rules \in Seq(RuleType)
    BY ListIs DEF ProtocolInv
  <2>2. \A c \in CallType : c.op \in {"none", "add", "remove", "cleanup", "query", "check"}
    BY DEF CallType, NoCall, Queries
  <2>3. \A a \in AnswerType : a.hr \in HResults /\ a.amount \in Nat
    BY DEF AnswerType
  <2> QED
    BY <2>1, <2>2, <2>3 DEF ProtocolInv, TypeOK
<1> QED
  BY <1>1, ProtocolInvariant, PTL

\* However many rules a message has, however long their expressions are, and
\* whatever other threads do between the two messages of a query: the loops of
\* FgcAddRules and FgcFindAndRemoveRule stay inside the message, the driver
\* copies no more than the client's buffer holds, and ResolveRulesBuffer stops
\* at the end of what was copied.
THEOREM BuffersRespectedAlways == Spec => []BuffersRespected
<1>1. ProtocolInv => BuffersRespected
  BY DEF ProtocolInv, BuffersRespected
<1> QED
  BY <1>1, ProtocolInvariant, PTL

\* The rules in force are the ones clients sent, upper-cased by FgcCreateRule;
\* only an expression whose bytes FglCreateRulesMessage cannot count in a
\* USHORT is cut.
THEOREM ExpressionsWholeAlways == Spec => []ExpressionsWhole
<1>1. ProtocolInv => ExpressionsWhole
  <2> SUFFICES ASSUME ProtocolInv, NEW i \in DOMAIN rules
               PROVE  \E u \in UserRules :
                         \/ rules[i] = NewRule(u)
                         \/ /\ ~ Countable(u)
                            /\ rules[i].expr.text = Upcase[u.expr].text
                            /\ rules[i].expr.len < u.expr.len
    BY DEF ExpressionsWhole
  <2>1. rules[i] \in Whole
    BY ListIs DEF ProtocolInv
  <2> QED
    BY <2>1 DEF Whole, WholeRule
<1> QED
  BY <1>1, ProtocolInvariant, PTL

\* QueryRules and CheckMatchedRules of CoreClient: what the second message
\* brings back is the list (or its matching part) at the moment the driver
\* handled it, whole and in order, and a refusal for the buffer means that it
\* has outgrown the size the first message gave.
THEOREM QueryIsSnapshotAlways == Spec => QueryIsSnapshot
<1>1. ProtocolInv /\ [Next]_vars => [\A t \in Threads : SnapshotTaken(t)]_vars
  BY ProtocolStep DEF Honest
<1> QED
  BY <1>1, ProtocolInvariant, PTL DEF Spec, QueryIsSnapshot

\* FglAddBulkRules and FglRemoveBulkRules: a success means that the loops of
\* FgcAddRules and FgcFindAndRemoveRule came to the end of the bulk, with
\* nothing else touched, and that the number returned is the difference.
THEOREM BulkHonouredAlways == Spec => BulkHonoured
<1>1. ProtocolInv /\ [Next]_vars
        => [\A t \in Threads : AddHonoured(t) /\ RemoveHonoured(t)]_vars
  BY ProtocolStep DEF Honest
<1> QED
  BY <1>1, ProtocolInvariant, PTL DEF Spec, BulkHonoured
=============================================================================
