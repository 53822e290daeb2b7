--------------------------- MODULE ReceiverProofs ---------------------------
(***************************************************************************)
(* Proofs about Receiver, for every set of callers, every choice of record *)
(* sizes, of the buffer's size and of the array's first length.            *)
(***************************************************************************)
EXTENDS Receiver, TLAPS, SequenceTheorems, NaturalsInduction, WellFoundedInduction

Rec == [id : Nat, size : Sizes]

\* A message has records, and fewer than half as many as a USHORT counts.
Small(m) == m \in Seq(Rec) /\ 2 * Len(m) < UShort

MessagesSmall ==
    /\ Small(pending)
    /\ \A c \in Callers : Small(body[c])
    /\ body \in [Callers -> Seq(Rec)] /\ parsed \in [Callers -> Seq(Rec)]
    /\ fetched \in [Callers -> Seq(Rec)] /\ delivered \in [Callers -> Seq(Rec)]

\* What a caller has been called back with, and what is still to come: all of
\* the message until it is parsed, then what the loop has not come to.
ProgressOf(c) ==
    /\ pc[c] \in {"allocate", "test", "get"} => delivered[c] = fetched[c]
    /\ pc[c] \in {"parse", "grow"} => fetched[c] = delivered[c] \o body[c]
    /\ pc[c] = "grow" => length[c] < Len(body[c])
    /\ pc[c] = "callback" =>
          /\ parsed[c] = body[c] /\ next[c] \in 0 .. Len(body[c])
          /\ fetched[c] = delivered[c] \o SubSeq(body[c], next[c] + 1, Len(body[c]))
    /\ owner = None => delivered[c] = fetched[c]
    /\ IsPrefix(delivered[c], fetched[c])

ReceiverInv ==
    /\ TypeOK
    /\ MessagesSmall
    /\ \A c \in Callers : ProgressOf(c)

-----------------------------------------------------------------------------
(* Induction over the natural numbers, for sets.                           *)

\* A set of natural numbers that is not empty has a least element.
LEMMA NatMin ==
    ASSUME NEW T, T \subseteq Nat, T # {}
    PROVE  \E x \in T : \A y \in T : x <= y
<1> DEFINE R == OpToRel(<, Nat)
<1>1. IsWellFoundedOn(R, Nat)
  BY NatLessThanWellFounded
<1>2. R = {p \in Nat \X Nat : p[1] < p[2]}
  BY DEF OpToRel
<1> HIDE DEF R
<1>3. PICK x \in T : \A y \in T : ~ (<<y, x>> \in R)
  BY <1>1, WFMin
<1>4. \A y \in T : ~ (y < x)
  BY <1>2, <1>3
<1> QED
  BY <1>4

\* A set that has 0, and with a number the next one, has them all.
LEMMA NatInd ==
    ASSUME NEW T, 0 \in T, \A n \in Nat : n \in T => n + 1 \in T
    PROVE  Nat \subseteq T
<1> DEFINE U == Nat \ T
<1> SUFFICES ASSUME U # {} PROVE FALSE
  OBVIOUS
<1>1. PICK x \in U : \A y \in U : x <= y
  BY NatMin
<1>2. x # 0 /\ x - 1 \in Nat /\ (x - 1) + 1 = x
  BY <1>1
<1>3. x - 1 \notin U
  BY <1>1, <1>2
<1> QED
  BY <1>2, <1>3

\* g adds up the first k of the increments d.
Sums(d, k, g) ==
    /\ g \in [0 .. k -> Nat] /\ g[0] = 0
    /\ \A i \in 1 .. k : g[i] = g[i - 1] + d[i]

HasSums(d, k) == \E g : Sums(d, k, g)

\* There are sums, however many increments there are.
LEMMA SumsExist ==
    ASSUME NEW n \in Nat, NEW d \in [1 .. n -> Nat]
    PROVE  HasSums(d, n)
<1> DEFINE T == {k \in Nat : k <= n => HasSums(d, k)}
<1>1. 0 \in T
  <2> DEFINE z == [i \in 0 .. 0 |-> 0]
  <2>1. z \in [0 .. 0 -> Nat] /\ z[0] = 0 /\ \A i \in 1 .. 0 : FALSE
    OBVIOUS
  <2> HIDE DEF z
  <2>2. Sums(d, 0, z)
    BY <2>1 DEF Sums
  <2> QED
    BY <2>2 DEF HasSums
<1>2. ASSUME NEW k \in Nat, HasSums(d, k), k + 1 <= n PROVE HasSums(d, k + 1)
  <2>1. PICK g : Sums(d, k, g)
    BY <1>2 DEF HasSums
  <2>2. /\ g \in [0 .. k -> Nat] /\ g[0] = 0
        /\ \A i \in 1 .. k : g[i] = g[i - 1] + d[i]
    BY <2>1 DEF Sums
  <2>3. d[k + 1] \in Nat /\ g[k] \in Nat
    BY <1>2, <2>2
  <2> DEFINE h == [i \in 0 .. k + 1 |-> IF i = k + 1 THEN g[k] + d[k + 1] ELSE g[i]]
  <2>4. h \in [0 .. k + 1 -> Nat] /\ h[0] = 0
    BY <2>2, <2>3
  <2>5. ASSUME NEW i \in 1 .. k + 1 PROVE h[i] = h[i - 1] + d[i]
    <3>1. CASE i = k + 1
      BY <3>1
    <3>2. CASE i # k + 1
      <4>1. i \in 1 .. k /\ i - 1 \in 0 .. k /\ i - 1 # k + 1
        BY <3>2
      <4> QED
        BY <2>2, <3>2, <4>1
    <3> QED
      BY <3>1, <3>2
  <2> HIDE DEF h
  <2>6. Sums(d, k + 1, h)
    BY <2>4, <2>5 DEF Sums
  <2> QED
    BY <2>6 DEF HasSums
<1>3. \A k \in Nat : k \in T => k + 1 \in T
  BY <1>2
<1> HIDE DEF T
<1>4. Nat \subseteq T
  BY ONLY <1>1, <1>3, NatInd
<1> QED
  BY <1>4 DEF T

-----------------------------------------------------------------------------
(* Where the records of a message begin.                                   *)

\* A record has two bytes at least.
LEMMA RecordSize ==
    ASSUME NEW r \in Rec
    PROVE  r.size \in Nat /\ r.size >= 2
<1>1. r.size \in Sizes
  BY DEF Rec
<1> QED
  BY <1>1, SizesAssumption

LEMMA BodySizes ==
    ASSUME NEW b \in Seq(Rec)
    PROVE  /\ Len(b) \in Nat /\ DOMAIN b = 1 .. Len(b)
           /\ \A i \in 1 .. Len(b) : b[i] \in Rec /\ b[i].size \in Nat /\ b[i].size >= 2
<1>1. Len(b) \in Nat /\ DOMAIN b = 1 .. Len(b) /\ \A i \in 1 .. Len(b) : b[i] \in Rec
  OBVIOUS
<1> QED
  BY <1>1, RecordSize

\* The equation that defines Offsets.
LEMMA OffsetsEquation ==
    ASSUME NEW b \in Seq(Rec)
    PROVE  Offsets(b) = [i \in 1 .. (Len(b) + 1) |->
                            IF i = 1 THEN 0 ELSE Offsets(b)[i - 1] + b[i - 1].size]
<1> DEFINE L == Len(b)
           d == [i \in 1 .. L |-> b[i].size]
<1>1. L \in Nat /\ \A i \in 1 .. L : b[i].size \in Nat
  BY BodySizes
<1>2. d \in [1 .. L -> Nat] /\ \A i \in 1 .. L : d[i] = b[i].size
  BY <1>1
<1> HIDE DEF L, d
<1>3. PICK g : Sums(d, L, g)
  <2>1. HasSums(d, L)
    BY ONLY <1>1, <1>2, SumsExist
  <2> QED
    BY <2>1 DEF HasSums
<1>4. /\ g \in [0 .. L -> Nat] /\ g[0] = 0
      /\ \A i \in 1 .. L : g[i] = g[i - 1] + d[i]
  BY <1>3 DEF Sums
<1> DEFINE h == [i \in 1 .. (L + 1) |-> g[i - 1]]
<1>5. h = [i \in 1 .. (L + 1) |-> IF i = 1 THEN 0 ELSE h[i - 1] + b[i - 1].size]
  <2>1. ASSUME NEW i \in 1 .. (L + 1)
        PROVE  h[i] = IF i = 1 THEN 0 ELSE h[i - 1] + b[i - 1].size
    <3>1. CASE i = 1
      BY <1>4, <3>1
    <3>2. CASE i # 1
      <4>1. i - 1 \in 1 .. L /\ i - 1 \in 1 .. (L + 1)
        BY <1>1, <3>2
      <4>2. h[i] = g[i - 1] /\ h[i - 1] = g[(i - 1) - 1]
        BY <4>1
      <4> QED
        BY <1>2, <1>4, <3>2, <4>1, <4>2
    <3> QED
      BY <3>1, <3>2
  <2> QED
    BY <2>1
<1> HIDE DEF h
<1>6. \E f : f = [i \in 1 .. (L + 1) |-> IF i = 1 THEN 0 ELSE f[i - 1] + b[i - 1].size]
  BY <1>5
<1>7. Offsets(b) = CHOOSE f : f = [i \in 1 .. (L + 1) |->
                                     IF i = 1 THEN 0 ELSE f[i - 1] + b[i - 1].size]
  BY Zenon DEF Offsets, L
<1> QED
  BY <1>6, <1>7, Zenon DEF L

\* The offsets rise with the sizes of the records.
LEMMA OffsetsRise ==
    ASSUME NEW b \in Seq(Rec)
    PROVE  /\ Offsets(b) \in [1 .. (Len(b) + 1) -> Nat] /\ Offsets(b)[1] = 0
           /\ \A i \in 1 .. Len(b) : Offsets(b)[i + 1] = Offsets(b)[i] + b[i].size
           /\ \A i \in 0 .. Len(b) : Offsets(b)[i + 1] >= 2 * i
<1> DEFINE L == Len(b)
           at == Offsets(b)
<1>1. at = [i \in 1 .. (L + 1) |-> IF i = 1 THEN 0 ELSE at[i - 1] + b[i - 1].size]
  BY OffsetsEquation
<1>2. L \in Nat /\ \A i \in 1 .. L : b[i].size \in Nat /\ b[i].size >= 2
  BY BodySizes
<1> HIDE DEF at, L
<1>3. at[1] = 0 /\ DOMAIN at = 1 .. (L + 1)
  <2>1. 1 \in 1 .. (L + 1)
    BY <1>2
  <2> QED
    BY <1>1, <2>1
<1>4. \A i \in 1 .. L : at[i + 1] = at[i] + b[i].size
  <2> SUFFICES ASSUME NEW i \in 1 .. L PROVE at[i + 1] = at[i] + b[i].size
    OBVIOUS
  <2>1. i + 1 \in 1 .. (L + 1) /\ i + 1 # 1 /\ (i + 1) - 1 = i
    BY <1>2
  <2> QED
    BY <1>1, <2>1
<1> DEFINE T == {k \in Nat : k <= L => at[k + 1] \in Nat /\ at[k + 1] >= 2 * k}
<1>5. 0 \in T
  BY <1>3
<1>6. \A k \in Nat : k \in T => k + 1 \in T
  <2> SUFFICES ASSUME NEW k \in Nat, at[k + 1] \in Nat /\ at[k + 1] >= 2 * k, k + 1 <= L
               PROVE  at[(k + 1) + 1] \in Nat /\ at[(k + 1) + 1] >= 2 * (k + 1)
    BY <1>2
  <2>1. k + 1 \in 1 .. L
    BY <1>2
  <2>2. at[(k + 1) + 1] = at[k + 1] + b[k + 1].size
    BY <1>4, <2>1
  <2> QED
    BY <1>2, <2>1, <2>2
<1> HIDE DEF T
<1>7. Nat \subseteq T
  BY ONLY <1>5, <1>6, NatInd
<1>8. \A i \in 0 .. L : at[i + 1] \in Nat /\ at[i + 1] >= 2 * i
  BY <1>2, <1>7 DEF T
<1>9. \A i \in 1 .. (L + 1) : at[i] \in Nat
  <2> SUFFICES ASSUME NEW i \in 1 .. (L + 1) PROVE at[i] \in Nat
    OBVIOUS
  <2>1. i - 1 \in 0 .. L /\ (i - 1) + 1 = i
    BY <1>2
  <2> QED
    BY <1>8, <2>1
<1>10. at \in [1 .. (L + 1) -> Nat]
  BY <1>1, <1>3, <1>9
<1> QED
  BY <1>3, <1>4, <1>8, <1>10 DEF at, L

\* A record begins behind all those before it.
LEMMA OffsetsIncrease ==
    ASSUME NEW b \in Seq(Rec), NEW i \in 1 .. (Len(b) + 1), NEW j \in 1 .. (Len(b) + 1), i < j
    PROVE  Offsets(b)[i] < Offsets(b)[j]
<1> DEFINE L == Len(b)
           at == Offsets(b)
           T == {k \in Nat : i + 1 + k <= L + 1 => at[i] < at[i + 1 + k]}
<1>1. L \in Nat /\ \A k \in 1 .. L : b[k].size \in Nat /\ b[k].size >= 2
  BY BodySizes
<1>2. at \in [1 .. (L + 1) -> Nat] /\ \A k \in 1 .. L : at[k + 1] = at[k] + b[k].size
  BY OffsetsRise
<1> HIDE DEF L, at
<1>3. i \in 1 .. (L + 1) /\ j \in 1 .. (L + 1)
  BY DEF L
<1>4. 0 \in T
  <2> SUFFICES ASSUME i + 1 <= L + 1 PROVE at[i] < at[i + 1]
    BY <1>1, <1>3
  <2>1. i \in 1 .. L
    BY <1>1, <1>3
  <2>2. at[i + 1] = at[i] + b[i].size
    BY <1>2, <2>1
  <2>3. at[i] \in Nat /\ b[i].size \in Nat /\ b[i].size >= 2
    BY <1>1, <1>2, <1>3, <2>1
  <2> QED
    BY <2>2, <2>3
<1>5. \A k \in Nat : k \in T => k + 1 \in T
  <2> SUFFICES ASSUME NEW k \in Nat, at[i] < at[i + 1 + k], (i + 1 + k) + 1 <= L + 1
               PROVE  at[i] < at[(i + 1 + k) + 1]
    <3>1. \A k \in Nat : i + 1 + (k + 1) = (i + 1 + k) + 1
      BY <1>3
    <3>2. \A k \in Nat : (i + 1 + k) + 1 <= L + 1 => i + 1 + k <= L + 1
      BY <1>1, <1>3
    <3> QED
      BY <3>1, <3>2
  <2>1. i + 1 + k \in 1 .. L /\ i \in 1 .. (L + 1) /\ i + 1 + k \in 1 .. (L + 1)
    BY <1>1, <1>3
  <2>2. at[(i + 1 + k) + 1] = at[i + 1 + k] + b[i + 1 + k].size
    BY <1>2, <2>1
  <2>3. at[i] \in Nat /\ at[i + 1 + k] \in Nat /\ b[i + 1 + k].size \in Nat
        /\ b[i + 1 + k].size >= 2
    BY <1>1, <1>2, <2>1
  <2> QED
    BY <2>2, <2>3
<1> HIDE DEF T
<1>6. Nat \subseteq T
  BY ONLY <1>4, <1>5, NatInd
<1>7. j - (i + 1) \in Nat /\ i + 1 + (j - (i + 1)) = j /\ j <= L + 1
  BY <1>1, <1>3
<1>8. at[i] < at[j]
  BY <1>6, <1>7 DEF T
<1> QED
  BY <1>8 DEF at

\* So the record at an offset is the one that begins there.
LEMMA RecordAtOffset ==
    ASSUME NEW b \in Seq(Rec), NEW i \in 1 .. Len(b)
    PROVE  /\ RecordAt(b, Offsets(b)[i]) = b[i]
           /\ Offsets(b)[i] < DataSize(b)
<1> DEFINE at == Offsets(b)
<1>1. Len(b) \in Nat /\ DOMAIN b = 1 .. Len(b)
  BY BodySizes
<1>2. ASSUME NEW j \in 1 .. Len(b), at[j] = at[i] PROVE j = i
  <2>2. i \in 1 .. (Len(b) + 1) /\ j \in 1 .. (Len(b) + 1)
    BY <1>1
  <2>a. at \in [1 .. (Len(b) + 1) -> Nat]
    BY OffsetsRise
  <2>1. at[i] \in Nat /\ at[j] \in Nat
    BY <2>2, <2>a
  <2> HIDE DEF at
  <2>3. ASSUME i < j PROVE FALSE
    <3>1. at[i] < at[j]
      BY <2>2, <2>3, OffsetsIncrease DEF at
    <3> QED
      BY <1>2, <2>1, <3>1
  <2>4. ASSUME j < i PROVE FALSE
    <3>1. at[j] < at[i]
      BY <2>2, <2>4, OffsetsIncrease DEF at
    <3> QED
      BY <1>2, <2>1, <3>1
  <2> QED
    BY <2>2, <2>3, <2>4
<1>3. (CHOOSE j \in DOMAIN b : at[j] = at[i]) = i
  BY <1>1, <1>2
<1>4. at[i] < at[Len(b) + 1]
  BY <1>1, OffsetsIncrease
<1> QED
  BY <1>3, <1>4 DEF RecordAt, DataSize

-----------------------------------------------------------------------------
(* What FglParseMonitorRecords returns.                                    *)

\* The walk after one round.
Walk(b, last) ==
    IF last.offset >= DataSize(b) THEN last
    ELSE [records |-> Append(last.records, RecordAt(b, last.offset)),
          offset |-> last.offset + RecordAt(b, last.offset).size]

\* Where the walk is after i rounds: behind the first i records, or the last.
Reached(b, i) == IF i <= Len(b) THEN i ELSE Len(b)
WalkedTo(b, i) ==
    [records |-> SubSeq(b, 1, Reached(b, i)), offset |-> Offsets(b)[Reached(b, i) + 1]]

LEMMA ReachedIs ==
    ASSUME NEW b, NEW l \in Nat, l = Len(b), NEW i \in Nat
    PROVE  /\ i <= l => Reached(b, i) = i
           /\ i >= l => Reached(b, i) = l
<1>1. i <= Len(b) <=> i <= l
  OBVIOUS
<1>2. Reached(b, i) = IF i <= l THEN i ELSE l
  BY <1>1 DEF Reached
<1> QED
  BY <1>2

\* A round takes the walk one record on.
LEMMA WalkAdvances ==
    ASSUME NEW b \in Seq(Rec), NEW i \in Nat
    PROVE  Walk(b, WalkedTo(b, i)) = WalkedTo(b, i + 1)
<1> DEFINE L == Len(b)
           at == Offsets(b)
           last == WalkedTo(b, i)
<1>1. L \in Nat /\ DOMAIN b = 1 .. L
  BY BodySizes
<1>2. CASE i >= L
  <2>1. Reached(b, i) = L /\ Reached(b, i + 1) = L
    BY <1>1, <1>2, ReachedIs
  <2>2. last.offset = at[L + 1] /\ WalkedTo(b, i + 1) = last
    BY <2>1 DEF WalkedTo
  <2>3. at[L + 1] \in Nat /\ DataSize(b) = at[L + 1]
    <3>1. L + 1 \in 1 .. (Len(b) + 1)
      BY <1>1
    <3> QED
      BY <3>1, OffsetsRise DEF DataSize
  <2> QED
    BY <2>2, <2>3 DEF Walk
<1>3. CASE i < L
  <2>1. Reached(b, i) = i /\ Reached(b, i + 1) = i + 1
    BY <1>1, <1>3, ReachedIs
  <2>2. i + 1 \in 1 .. L
    BY <1>1, <1>3
  <2>3. last.offset = at[i + 1] /\ last.records = SubSeq(b, 1, i)
    BY <2>1 DEF WalkedTo
  <2>4. RecordAt(b, at[i + 1]) = b[i + 1] /\ at[i + 1] < DataSize(b)
    BY <2>2, RecordAtOffset
  <2>5. at[(i + 1) + 1] = at[i + 1] + b[i + 1].size
    BY <2>2, OffsetsRise
  <2>6. Append(SubSeq(b, 1, i), b[i + 1]) = SubSeq(b, 1, i + 1)
    <3>1. SubSeq(b, 1, i + 1) = SubSeq(b, 1, (i + 1) - 1) \o <<b[i + 1]>>
      BY <1>1, <2>2, SubSeqRecursiveSecond
    <3>2. SubSeq(b, 1, i) \in Seq(Rec) /\ b[i + 1] \in Rec
      BY <1>1, <2>2, SubSeqProperties, ElementOfSeq
    <3>3. Append(SubSeq(b, 1, i), b[i + 1]) = SubSeq(b, 1, i) \o <<b[i + 1]>>
      BY <3>2, AppendIsConcat
    <3> QED
      BY <3>1, <3>3
  <2>7. at[i + 1] \in Nat /\ DataSize(b) \in Nat
    <3>1. i + 1 \in 1 .. (Len(b) + 1) /\ L + 1 \in 1 .. (Len(b) + 1)
      BY <1>1, <2>2
    <3> QED
      BY <3>1, OffsetsRise DEF DataSize
  <2>8. ~ (last.offset >= DataSize(b))
    BY <2>3, <2>4, <2>7
  <2>9. Walk(b, last) = [records |-> SubSeq(b, 1, i + 1), offset |-> at[(i + 1) + 1]]
    BY <2>3, <2>4, <2>5, <2>6, <2>8 DEF Walk
  <2> QED
    BY <2>1, <2>9 DEF WalkedTo
<1> QED
  BY <1>1, <1>2, <1>3

\* With n places, it returns the first n records of the message, and says so
\* when there are more.
LEMMA ParsedRecords ==
    ASSUME NEW b \in Seq(Rec), NEW n \in Nat
    PROVE  /\ FglParseMonitorRecords(b, n).records = SubSeq(b, 1, Reached(b, n))
           /\ FglParseMonitorRecords(b, n).hr =
                 IF n < Len(b) THEN "INSUFFICIENT_BUFFER" ELSE "S_OK"
<1> DEFINE Begin == [records |-> <<>>, offset |-> 0]
           g == [i \in 0 .. n |-> WalkedTo(b, i)]
           after == CHOOSE f : f = [i \in 0 .. n |-> IF i = 0 THEN Begin ELSE Walk(b, f[i - 1])]
<1>1. Len(b) \in Nat /\ DOMAIN b = 1 .. Len(b)
  BY BodySizes
<1>2. WalkedTo(b, 0) = Begin
  <2>1. Reached(b, 0) = 0 /\ SubSeq(b, 1, 0) = <<>> /\ Offsets(b)[0 + 1] = 0
    BY <1>1, SubSeqEmpty, OffsetsRise DEF Reached
  <2> QED
    BY <2>1 DEF WalkedTo
<1> HIDE DEF Begin
<1>3. g = [i \in 0 .. n |-> IF i = 0 THEN Begin ELSE Walk(b, g[i - 1])]
  <2>1. ASSUME NEW i \in 0 .. n PROVE g[i] = IF i = 0 THEN Begin ELSE Walk(b, g[i - 1])
    <3>1. CASE i = 0
      BY <1>2, <3>1
    <3>2. CASE i # 0
      <4>1. i - 1 \in 0 .. n /\ i - 1 \in Nat /\ (i - 1) + 1 = i
        BY <3>2
      <4>2. g[i - 1] = WalkedTo(b, i - 1) /\ g[i] = WalkedTo(b, (i - 1) + 1)
        BY <4>1
      <4> QED
        BY <3>2, <4>1, <4>2, WalkAdvances
    <3> QED
      BY <3>1, <3>2
  <2> QED
    BY <2>1
<1> HIDE DEF g
<1>4. \E f : f = [i \in 0 .. n |-> IF i = 0 THEN Begin ELSE Walk(b, f[i - 1])]
  BY <1>3
<1>5. after = [i \in 0 .. n |-> IF i = 0 THEN Begin ELSE Walk(b, after[i - 1])]
  BY <1>4, Zenon
<1>6. FglParseMonitorRecords(b, n) =
         [records |-> after[n].records,
          hr |-> IF after[n].offset < DataSize(b) THEN "INSUFFICIENT_BUFFER" ELSE "S_OK"]
  BY Zenon DEF FglParseMonitorRecords, Begin, Walk
<1> HIDE DEF after
<1> DEFINE T == {k \in Nat : k <= n => after[k] = WalkedTo(b, k)}
<1>7. 0 \in T
  BY <1>2, <1>5
<1>8. \A k \in Nat : k \in T => k + 1 \in T
  <2> SUFFICES ASSUME NEW k \in Nat, after[k] = WalkedTo(b, k), k + 1 <= n
               PROVE  after[k + 1] = WalkedTo(b, k + 1)
    OBVIOUS
  <2>1. k + 1 \in 0 .. n /\ k + 1 # 0 /\ (k + 1) - 1 = k
    OBVIOUS
  <2>2. after[k + 1] = Walk(b, after[k])
    BY <1>5, <2>1
  <2> QED
    BY <2>2, WalkAdvances
<1> HIDE DEF T
<1>9. Nat \subseteq T
  BY ONLY <1>7, <1>8, NatInd
<1>10. after[n] = WalkedTo(b, n)
  BY <1>9 DEF T
<1>11. after[n].records = SubSeq(b, 1, Reached(b, n))
       /\ after[n].offset = Offsets(b)[Reached(b, n) + 1]
  <2>1. /\ WalkedTo(b, n).records = SubSeq(b, 1, Reached(b, n))
        /\ WalkedTo(b, n).offset = Offsets(b)[Reached(b, n) + 1]
    BY DEF WalkedTo
  <2> QED
    BY <1>10, <2>1, Zenon
<1>12. after[n].offset < DataSize(b) <=> n < Len(b)
  <2>1. CASE n < Len(b)
    <3>1. Reached(b, n) = n /\ n + 1 \in 1 .. Len(b)
      BY <1>1, <2>1, ReachedIs
    <3> QED
      BY <1>11, <2>1, <3>1, RecordAtOffset
  <2>2. CASE ~ (n < Len(b))
    <3>1. Reached(b, n) = Len(b) /\ Len(b) + 1 \in 1 .. (Len(b) + 1)
      BY <1>1, <2>2, ReachedIs
    <3>2. DataSize(b) \in Nat /\ after[n].offset = DataSize(b)
      BY <1>11, <3>1, OffsetsRise DEF DataSize
    <3> QED
      BY <2>2, <3>2
  <2> QED
    BY <2>1, <2>2
<1>13. /\ FglParseMonitorRecords(b, n).records = after[n].records
       /\ FglParseMonitorRecords(b, n).hr =
             IF after[n].offset < DataSize(b) THEN "INSUFFICIENT_BUFFER" ELSE "S_OK"
  BY <1>6
<1> QED
  BY <1>11, <1>12, <1>13, Zenon

-----------------------------------------------------------------------------
(* The steps.                                                              *)

\* A number below the modulus is its own remainder.
LEMMA SmallRemainder ==
    ASSUME NEW m \in Nat, NEW x \in Nat, x < m
    PROVE  x % m = x
OBVIOUS

\* A sequence is a prefix of what it is continued to.
LEMMA ContinuedIsPrefix ==
    ASSUME NEW s \in Seq(Rec), NEW r \in Seq(Rec)
    PROVE  IsPrefix(s, s \o r)
<1> DEFINE t == s \o r
<1>1. /\ t \in Seq(Rec) /\ Len(t) = Len(s) + Len(r) /\ Len(s) \in Nat /\ Len(r) \in Nat
      /\ \A i \in 1 .. Len(s) + Len(r) : t[i] = IF i <= Len(s) THEN s[i] ELSE r[i - Len(s)]
  BY ConcatProperties
<1> HIDE DEF t
<1> DEFINE n == Len(s)
           a == SubSeq(s, 1, n)
           b == SubSeq(t, 1, n)
<1>2. \A i \in 1 .. n : t[i] = s[i] /\ s[i] \in Rec /\ t[i] \in Rec
  BY <1>1
<1>3. n \in Int /\ n \in Nat
  BY <1>1
<1>4. a = s
  BY SubSeqFull
<1> HIDE DEF n
<1>5. b \in Seq(Rec) /\ Len(b) = n /\ \A i \in 1 .. n : b[i] = t[i]
  BY <1>2, <1>3, SubSeqProperties
<1> HIDE DEF b, a
<1>6. b = s
  <2>1. Len(b) = Len(s) /\ \A i \in 1 .. Len(b) : b[i] = s[i]
    BY <1>2, <1>5 DEF n
  <2> QED
    BY <1>5, <2>1, SeqEqual
<1> QED
  BY <1>1, <1>4, <1>6 DEF IsPrefix, t, a, b, n

LEMMA SameIsPrefix ==
    ASSUME NEW s \in Seq(Rec)
    PROVE  IsPrefix(s, s)
BY DEF IsPrefix

\* What a step does not touch stays as it is.
LEMMA ProgressKept ==
    ASSUME NEW c \in Callers, ProgressOf(c),
           pc'[c] = pc[c] /\ length'[c] = length[c] /\ body'[c] = body[c],
           parsed'[c] = parsed[c] /\ next'[c] = next[c],
           fetched'[c] = fetched[c] /\ delivered'[c] = delivered[c],
           owner' = None => owner = None
    PROVE  ProgressOf(c)'
BY DEF ProgressOf

\* The steps that neither fetch, parse nor deliver anything.
LEMMA QuietReceiver ==
    ASSUME ReceiverInv, NEW c \in Callers,
           \/ Connect(c) \/ Allocate(c) \/ NoMemory(c) \/ TestEnd(c)
           \/ GetMessageFails(c) \/ SetEnd(c)
    PROVE  ReceiverInv'
<1>1. /\ TypeOK /\ MessagesSmall /\ \A d \in Callers : ProgressOf(d)
  BY DEF ReceiverInv
<1>2. UNCHANGED <<pending, sent, body, parsed, next, fetched, delivered, closing>>
  BY DEF Connect, Allocate, NoMemory, TestEnd, GetMessageFails, SetEnd, Return, callVars
<1>3. InitialLength \in 1 .. (UShort - 1)
  BY LengthAssumption, UShortAssumption
<1>4. TypeOK'
  <2>1. CASE Connect(c)
    <3>1. calls' \in [Callers -> 0 .. MaxCalls]
      <4>1. calls[c] + 1 \in 0 .. MaxCalls
        BY <1>1, <2>1, BoundsAssumption DEF Connect, TypeOK
      <4> QED
        BY <1>1, <2>1, <4>1 DEF Connect, TypeOK
    <3>2. /\ end' = [end EXCEPT ![c] = FALSE] /\ length' = [length EXCEPT ![c] = InitialLength]
          /\ owner' = c \/ owner' = owner
          /\ \E p \in {"idle", "allocate"} : pc' = [pc EXCEPT ![c] = p]
          /\ \E h \in {"S_OK", "REFUSED"} : hr' = [hr EXCEPT ![c] = h]
      BY <2>1 DEF Connect, Return
    <3> QED
      BY <1>1, <1>2, <1>3, <3>1, <3>2 DEF TypeOK
  <2>2. CASE SetEnd(c)
    BY <1>1, <2>2 DEF SetEnd, TypeOK, callVars
  <2>3. CASE Allocate(c)
    BY <1>1, <2>3 DEF Allocate, TypeOK, callVars
  <2>4. CASE NoMemory(c)
    BY <1>1, <2>4 DEF NoMemory, Return, TypeOK, callVars
  <2>5. CASE TestEnd(c)
    BY <1>1, <2>5 DEF TestEnd, Return, TypeOK, callVars
  <2>6. CASE GetMessageFails(c)
    BY <1>1, <2>6 DEF GetMessageFails, Return, TypeOK, callVars
  <2> QED
    BY <2>1, <2>2, <2>3, <2>4, <2>5, <2>6
<1>5. MessagesSmall'
  BY <1>1, <1>2 DEF MessagesSmall, Small
<1>6. ASSUME NEW d \in Callers PROVE ProgressOf(d)'
  <2>1. owner' = None => owner = None
    BY CallersAssumption DEF Connect, Allocate, NoMemory, TestEnd, GetMessageFails, SetEnd
  <2>2. CASE d # c
    <3>1. pc'[d] = pc[d] /\ length'[d] = length[d]
      BY <1>1, <2>2 DEF Connect, Allocate, NoMemory, TestEnd, GetMessageFails, SetEnd, Return,
         TypeOK, callVars
    <3> QED
      BY <1>1, <1>2, <2>1, <3>1, ProgressKept
  <2>3. CASE d = c
    <3>1. CASE SetEnd(c)
      BY <1>1, <1>2, <2>1, <2>3, <3>1, ProgressKept DEF SetEnd, callVars
    <3>2. CASE Connect(c)
      <4>1. pc'[c] = "idle" \/ (pc'[c] = "allocate" /\ owner = None)
        BY <1>1, <3>2 DEF Connect, Return, TypeOK
      <4> QED
        BY <1>1, <1>2, <2>1, <2>3, <4>1 DEF ProgressOf
    <3>3. CASE Allocate(c) \/ TestEnd(c) \/ GetMessageFails(c) \/ NoMemory(c)
      <4>1. /\ pc[c] \in {"allocate", "test", "get"} \/ pc'[c] = "idle"
            /\ pc'[c] \in {"test", "get", "idle"}
        BY <1>1, <3>3 DEF Allocate, TestEnd, GetMessageFails, NoMemory, Return, TypeOK
      <4> QED
        BY <1>1, <1>2, <2>1, <2>3, <4>1 DEF ProgressOf
    <3> QED
      BY <3>1, <3>2, <3>3
  <2> QED
    BY <2>2, <2>3
<1> QED
  BY <1>4, <1>5, <1>6 DEF ReceiverInv

\* The message that is fetched is what is still to be passed on.
LEMMA GetMessageReceiver ==
    ASSUME ReceiverInv, NEW c \in Callers, GetMessage(c)
    PROVE  ReceiverInv'
<1>1. /\ TypeOK /\ MessagesSmall /\ \A d \in Callers : ProgressOf(d)
  BY DEF ReceiverInv
<1>2. /\ pc[c] = "get" /\ pc' = [pc EXCEPT ![c] = "parse"]
      /\ body' = [body EXCEPT ![c] = pending] /\ pending' = <<>>
      /\ fetched' = [fetched EXCEPT ![c] = fetched[c] \o pending]
      /\ hr' = [hr EXCEPT ![c] = "S_OK"]
      /\ UNCHANGED <<owner, closing, sent, end, length, parsed, next, calls, delivered>>
  BY DEF GetMessage, NoMessage
<1>3. /\ Small(pending) /\ fetched[c] \in Seq(Rec) /\ delivered[c] \in Seq(Rec)
      /\ delivered[c] = fetched[c]
  BY <1>1, <1>2 DEF MessagesSmall, ProgressOf
<1>4. pending \in Seq(Rec) /\ fetched[c] \o pending \in Seq(Rec)
  BY <1>3, ConcatProperties DEF Small
<1>5. TypeOK'
  BY <1>1, <1>2 DEF TypeOK
<1>6. MessagesSmall'
  <2>1. Small(<<>>)
    BY UShortAssumption DEF Small
  <2>2. body' \in [Callers -> Seq(Rec)] /\ fetched' \in [Callers -> Seq(Rec)]
    BY <1>1, <1>2, <1>4 DEF MessagesSmall
  <2>3. \A d \in Callers : Small(body'[d])
    BY <1>1, <1>2, <1>3 DEF MessagesSmall
  <2>4. parsed' \in [Callers -> Seq(Rec)] /\ delivered' \in [Callers -> Seq(Rec)] /\ Small(pending')
    BY <1>1, <1>2, <2>1 DEF MessagesSmall
  <2> QED
    BY <2>2, <2>3, <2>4 DEF MessagesSmall, Small
<1>7. ASSUME NEW d \in Callers PROVE ProgressOf(d)'
  <2>1. CASE d # c
    <3>1. pc'[d] = pc[d] /\ body'[d] = body[d] /\ fetched'[d] = fetched[d]
      BY <1>1, <1>2, <2>1 DEF TypeOK, MessagesSmall
    <3> QED
      BY <1>1, <1>2, <3>1, ProgressKept
  <2>2. CASE d = c
    <3>1. pc'[c] = "parse" /\ body'[c] = pending /\ fetched'[c] = fetched[c] \o pending
      BY <1>1, <1>2 DEF TypeOK, MessagesSmall
    <3>2. fetched'[c] = delivered[c] \o body'[c]
      BY <1>3, <3>1
    <3>3. IsPrefix(delivered[c], fetched'[c])
      BY <1>3, <1>4, <3>1, ContinuedIsPrefix
    <3>4. owner' # None
      BY <1>2, CallersAssumption DEF GetMessage
    <3> QED
      BY <1>2, <2>2, <3>1, <3>2, <3>3, <3>4 DEF ProgressOf
  <2> QED
    BY <2>1, <2>2
<1> QED
  BY <1>5, <1>6, <1>7 DEF ReceiverInv

\* A walk that reached the end of the data has found all the records of the
\* message; one that did not had fewer places than there are records.
LEMMA ParseReceiver ==
    ASSUME ReceiverInv, NEW c \in Callers, Parse(c)
    PROVE  ReceiverInv'
<1> DEFINE b == body[c]
           n == length[c]
           result == FglParseMonitorRecords(b, n)
<1>1. /\ TypeOK /\ MessagesSmall /\ \A d \in Callers : ProgressOf(d)
  BY DEF ReceiverInv
<1>2. /\ pc[c] = "parse"
      /\ parsed' = [parsed EXCEPT ![c] = result.records]
      /\ pc' = [pc EXCEPT ![c] = IF result.hr = "INSUFFICIENT_BUFFER" THEN "grow" ELSE "callback"]
      /\ next' = [next EXCEPT ![c] = 0]
      /\ UNCHANGED <<owner, closing, pending, sent, end, length, body, hr, calls, fetched, delivered>>
  BY DEF Parse
<1>3. b \in Seq(Rec) /\ n \in Nat /\ Len(b) \in Nat
  <2>1. b \in Seq(Rec)
    BY <1>1 DEF MessagesSmall
  <2>2. length[c] \in 1 .. (UShort - 1)
    BY <1>1 DEF TypeOK
  <2> QED
    BY <2>1, <2>2, UShortAssumption
<1> HIDE DEF b, n
<1>4. /\ result.records = SubSeq(b, 1, Reached(b, n))
      /\ result.hr = IF n < Len(b) THEN "INSUFFICIENT_BUFFER" ELSE "S_OK"
  BY <1>3, ParsedRecords
<1> HIDE DEF result
<1>5. n >= Len(b) => result.records = b
  <2>1. n >= Len(b) => Reached(b, n) = Len(b)
    BY <1>3, ReachedIs
  <2>2. SubSeq(b, 1, Len(b)) = b
    BY <1>3, SubSeqFull
  <2> QED
    BY <1>4, <2>1, <2>2
<1>6. result.records \in Seq(Rec)
  <2>1. CASE n < Len(b)
    <3>1. Reached(b, n) = n /\ result.records = SubSeq(b, 1, n)
      BY <1>3, <1>4, <2>1, ReachedIs
    <3>2. \A i \in 1 .. n : b[i] \in Rec
      BY <1>3, <2>1
    <3> QED
      BY <1>3, <2>1, <3>1, <3>2, SubSeqProperties
  <2>2. CASE ~ (n < Len(b))
    BY <1>3, <1>5, <2>2
  <2> QED
    BY <2>1, <2>2
<1>7. \/ pc' = [pc EXCEPT ![c] = "grow"] /\ n < Len(b)
      \/ pc' = [pc EXCEPT ![c] = "callback"] /\ n >= Len(b)
  <2>1. CASE n < Len(b)
    <3>1. result.hr = "INSUFFICIENT_BUFFER"
      BY <1>4, <2>1
    <3> QED
      BY <1>2, <2>1, <3>1
  <2>2. CASE ~ (n < Len(b))
    <3>1. result.hr = "S_OK"
      BY <1>4, <2>2
    <3>2. n >= Len(b)
      BY <1>3, <2>2
    <3>3. pc' = [pc EXCEPT ![c] = "callback"]
      BY <1>2, <3>1
    <3> QED
      BY <3>2, <3>3
  <2> QED
    BY <2>1, <2>2
<1>8. TypeOK'
  BY <1>1, <1>2, <1>7 DEF TypeOK
<1>9. MessagesSmall'
  BY <1>1, <1>2, <1>6 DEF MessagesSmall, Small
<1>10. ASSUME NEW d \in Callers PROVE ProgressOf(d)'
  <2>1. CASE d # c
    <3>1. pc'[d] = pc[d] /\ parsed'[d] = parsed[d] /\ next'[d] = next[d]
      BY <1>1, <1>2, <1>7, <2>1 DEF TypeOK, MessagesSmall
    <3> QED
      BY <1>1, <1>2, <3>1, ProgressKept
  <2>2. CASE d = c
    <3>1. /\ parsed'[c] = result.records /\ next'[c] = 0
          /\ \/ pc'[c] = "grow" /\ n < Len(b)
             \/ pc'[c] = "callback" /\ n >= Len(b)
      BY <1>1, <1>2, <1>7 DEF TypeOK, MessagesSmall
    <3>2. /\ fetched[c] = delivered[c] \o b
          /\ owner = None => delivered[c] = fetched[c]
          /\ IsPrefix(delivered[c], fetched[c])
      BY <1>1, <1>2 DEF ProgressOf, b
    <3>3. body'[c] = b /\ length'[c] = n
      BY <1>2 DEF b, n
    <3>4. SubSeq(b, 0 + 1, Len(b)) = b
      BY <1>3, SubSeqFull
    <3>5. 0 \in 0 .. Len(b)
      BY <1>3
    <3>6. CASE pc'[c] = "grow" /\ n < Len(b)
      BY <1>2, <2>2, <3>2, <3>3, <3>6 DEF ProgressOf
    <3>7. CASE pc'[c] = "callback" /\ n >= Len(b)
      <4>1. parsed'[c] = b
        BY <1>5, <3>1, <3>7
      <4>2. SubSeq(body'[c], next'[c] + 1, Len(body'[c])) = b /\ next'[c] \in 0 .. Len(body'[c])
        BY <3>1, <3>3, <3>4, <3>5
      <4> QED
        BY <1>2, <2>2, <3>2, <3>3, <3>7, <4>1, <4>2 DEF ProgressOf
    <3> QED
      BY <3>1, <3>6, <3>7
  <2> QED
    BY <2>1, <2>2
<1> QED
  BY <1>8, <1>9, <1>10 DEF ReceiverInv

\* A length below that of a message can be doubled.
LEMMA GrowReceiver ==
    ASSUME ReceiverInv, NEW c \in Callers, Grow(c)
    PROVE  ReceiverInv'
<1>1. /\ TypeOK /\ MessagesSmall /\ \A d \in Callers : ProgressOf(d)
  BY DEF ReceiverInv
<1>2. /\ pc[c] = "grow" /\ pc' = [pc EXCEPT ![c] = "parse"]
      /\ length' = [length EXCEPT ![c] = Doubled(length[c])]
      /\ UNCHANGED <<owner, closing, pending, sent, end, body, parsed, next, hr, calls, fetched,
                     delivered>>
  BY DEF Grow
<1>3. Doubled(length[c]) \in 1 .. (UShort - 1)
  <2>1. length[c] \in Nat /\ length[c] >= 1
    <3>1. length[c] \in 1 .. (UShort - 1)
      BY <1>1 DEF TypeOK
    <3> QED
      BY <3>1, UShortAssumption
  <2>2. length[c] < Len(body[c]) /\ 2 * Len(body[c]) < UShort /\ Len(body[c]) \in Nat
    BY <1>1, <1>2 DEF MessagesSmall, Small, ProgressOf
  <2>3. length[c] * 2 \in Nat /\ length[c] * 2 < UShort /\ length[c] * 2 >= 1
    BY <2>1, <2>2, UShortAssumption
  <2>4. (length[c] * 2) % UShort = length[c] * 2
    BY <2>3, UShortAssumption, SmallRemainder
  <2> QED
    BY <2>3, <2>4, UShortAssumption DEF Doubled
<1>4. TypeOK'
  BY <1>1, <1>2, <1>3 DEF TypeOK
<1>5. MessagesSmall'
  BY <1>1, <1>2 DEF MessagesSmall, Small
<1>6. ASSUME NEW d \in Callers PROVE ProgressOf(d)'
  <2>1. CASE d # c
    <3>1. pc'[d] = pc[d] /\ length'[d] = length[d]
      BY <1>1, <1>2, <2>1 DEF TypeOK
    <3> QED
      BY <1>1, <1>2, <3>1, ProgressKept
  <2>2. CASE d = c
    <3>1. pc'[c] = "parse"
      BY <1>1, <1>2 DEF TypeOK
    <3> QED
      BY <1>1, <1>2, <2>2, <3>1 DEF ProgressOf
  <2> QED
    BY <2>1, <2>2
<1> QED
  BY <1>4, <1>5, <1>6 DEF ReceiverInv

\* A round of the loop passes on the first of the records that are left.
LEMMA LoopAdvances ==
    ASSUME NEW b \in Seq(Rec), NEW s \in Seq(Rec), NEW i \in Nat, i < Len(b)
    PROVE  s \o SubSeq(b, i + 1, Len(b))
              = Append(s, b[i + 1]) \o SubSeq(b, (i + 1) + 1, Len(b))
<1> DEFINE r == SubSeq(b, (i + 1) + 1, Len(b))
<1>1. Len(b) \in Nat /\ i + 1 \in 1 .. Len(b) /\ b[i + 1] \in Rec
  OBVIOUS
<1>2. SubSeq(b, i + 1, Len(b)) = <<b[i + 1]>> \o r
  BY <1>1, SubSeqRecursiveFirst
<1>3. r \in Seq(Rec)
  <2>1. \A j \in (i + 1) + 1 .. Len(b) : b[j] \in Rec
    BY <1>1
  <2> QED
    BY <1>1, <2>1, SubSeqProperties
<1> HIDE DEF r
<1>4. <<b[i + 1]>> \in Seq(Rec)
  BY <1>1
<1>5. s \o (<<b[i + 1]>> \o r) = (s \o <<b[i + 1]>>) \o r
  BY <1>3, <1>4, ConcatAssociative
<1>6. Append(s, b[i + 1]) = s \o <<b[i + 1]>>
  BY <1>1, AppendIsConcat
<1> QED
  BY <1>2, <1>5, <1>6 DEF r

LEMMA CallbackReceiver ==
    ASSUME ReceiverInv, NEW c \in Callers, Callback(c)
    PROVE  ReceiverInv'
<1> DEFINE b == body[c]
           i == next[c]
           rest == SubSeq(b, i + 1, Len(b))
<1>1. /\ TypeOK /\ MessagesSmall /\ \A d \in Callers : ProgressOf(d)
  BY DEF ReceiverInv
<1>2. /\ pc[c] = "callback"
      /\ UNCHANGED <<owner, closing, pending, sent, end, length, body, parsed, hr, calls, fetched>>
  BY DEF Callback
<1>3. /\ parsed[c] = b /\ i \in 0 .. Len(b)
      /\ fetched[c] = delivered[c] \o rest
      /\ owner = None => delivered[c] = fetched[c]
      /\ IsPrefix(delivered[c], fetched[c])
  BY <1>1, <1>2 DEF ProgressOf
<1>4. /\ b \in Seq(Rec) /\ Len(b) \in Nat /\ i \in Nat /\ delivered[c] \in Seq(Rec)
      /\ fetched[c] \in Seq(Rec)
  <2>1. i \in Nat
    BY <1>1 DEF TypeOK
  <2>2. /\ body \in [Callers -> Seq(Rec)] /\ fetched \in [Callers -> Seq(Rec)]
        /\ delivered \in [Callers -> Seq(Rec)]
    BY <1>1 DEF MessagesSmall
  <2>3. b \in Seq(Rec) /\ delivered[c] \in Seq(Rec) /\ fetched[c] \in Seq(Rec)
    BY ONLY <2>2, c \in Callers
  <2>4. Len(b) \in Nat
    BY ONLY <2>3
  <2> QED
    BY <2>1, <2>3, <2>4
<1>5. CASE i < Len(b)
  <2> DEFINE more == Append(delivered[c], b[i + 1])
             left == SubSeq(b, (i + 1) + 1, Len(b))
  <2>1. /\ delivered' = [delivered EXCEPT ![c] = more]
        /\ next' = [next EXCEPT ![c] = i + 1] /\ pc' = pc
    BY <1>3, <1>5 DEF Callback
  <2>2. fetched[c] = more \o left
    BY <1>3, <1>4, <1>5, LoopAdvances
  <2>3. b[i + 1] \in Rec /\ more \in Seq(Rec)
    BY <1>4, <1>5
  <2>4. left \in Seq(Rec)
    <3>1. \A j \in (i + 1) + 1 .. Len(b) : b[j] \in Rec
      BY <1>4
    <3> QED
      BY <1>4, <3>1, SubSeqProperties
  <2>5. i + 1 \in 0 .. Len(b) /\ i + 1 \in Nat
    BY <1>4, <1>5
  <2>6. body'[c] = b /\ parsed'[c] = b
    BY <1>2, <1>3
  <2> HIDE DEF more, b, i
  <2>7. TypeOK'
    BY <1>1, <1>2, <2>1, <2>5 DEF TypeOK
  <2>8. MessagesSmall'
    BY <1>1, <1>2, <2>1, <2>3 DEF MessagesSmall, Small
  <2>9. ASSUME NEW d \in Callers PROVE ProgressOf(d)'
    <3>1. CASE d # c
      <4>1. delivered'[d] = delivered[d] /\ next'[d] = next[d]
        BY <1>1, <2>1, <3>1 DEF TypeOK, MessagesSmall
      <4> QED
        BY <1>1, <1>2, <2>1, <4>1, ProgressKept
    <3>2. CASE d = c
      <4>1. delivered'[c] = more /\ next'[c] = i + 1 /\ pc'[c] = "callback"
        BY <1>1, <1>2, <2>1 DEF TypeOK, MessagesSmall
      <4>2. IsPrefix(more, fetched[c])
        BY <2>2, <2>3, <2>4, ContinuedIsPrefix
      <4>3. SubSeq(body'[c], next'[c] + 1, Len(body'[c])) = left
        BY <2>6, <4>1
      <4>4. owner # None
        <5> SUFFICES ASSUME owner = None PROVE FALSE
          OBVIOUS
        <5>1. delivered[c] = delivered[c] \o rest
          BY <1>3
        <5>2. Len(rest) = Len(b) - i
          BY <1>4, <1>5, SubSeqProperties DEF b, i
        <5>3. rest \in Seq(Rec)
          <6>1. \A j \in i + 1 .. Len(b) : b[j] \in Rec
            BY <1>4
          <6> QED
            BY <1>4, <6>1, SubSeqProperties
        <5> HIDE DEF rest
        <5>4. Len(delivered[c] \o rest) = Len(delivered[c]) + Len(rest) /\ Len(delivered[c]) \in Nat
          BY <1>4, <5>3, ConcatProperties
        <5> QED
          BY <1>4, <1>5, <5>1, <5>2, <5>4
      <4> QED
        BY <1>2, <2>2, <2>5, <2>6, <3>2, <4>1, <4>2, <4>3, <4>4 DEF ProgressOf
    <3> QED
      BY <3>1, <3>2
  <2> QED
    BY <2>7, <2>8, <2>9 DEF ReceiverInv
<1>6. CASE ~ (i < Len(b))
  <2>1. pc' = [pc EXCEPT ![c] = "test"] /\ UNCHANGED <<delivered, next>>
    BY <1>3, <1>6 DEF Callback
  <2>2. delivered[c] = fetched[c]
    <3>1. i = Len(b)
      BY <1>3, <1>4, <1>6
    <3>2. rest = <<>>
      BY <1>4, <3>1, SubSeqEmpty
    <3>3. delivered[c] \o <<>> = delivered[c]
      BY <1>4, ConcatEmptySeq
    <3> HIDE DEF rest
    <3> QED
      BY <1>3, <3>2, <3>3
  <2>3. TypeOK'
    BY <1>1, <1>2, <2>1 DEF TypeOK
  <2>4. MessagesSmall'
    BY <1>1, <1>2, <2>1 DEF MessagesSmall, Small
  <2>5. ASSUME NEW d \in Callers PROVE ProgressOf(d)'
    <3>1. CASE d # c
      <4>1. pc'[d] = pc[d]
        BY <1>1, <2>1, <3>1 DEF TypeOK
      <4> QED
        BY <1>1, <1>2, <2>1, <4>1, ProgressKept
    <3>2. CASE d = c
      <4>1. pc'[c] = "test"
        BY <1>1, <2>1 DEF TypeOK
      <4> QED
        BY <1>2, <1>3, <2>1, <2>2, <3>2, <4>1 DEF ProgressOf
    <3> QED
      BY <3>1, <3>2
  <2> QED
    BY <2>3, <2>4, <2>5 DEF ReceiverInv
<1> QED
  BY <1>5, <1>6

\* A message that fits the buffer has fewer than half as many records as a
\* USHORT counts.
LEMMA DriverSendsReceiver ==
    ASSUME ReceiverInv, DriverSends
    PROVE  ReceiverInv'
<1>1. /\ TypeOK /\ MessagesSmall /\ \A d \in Callers : ProgressOf(d)
  BY DEF ReceiverInv
<1>2. UNCHANGED <<owner, closing, pc, end, length, body, parsed, next, hr, calls, fetched, delivered>>
  BY DEF DriverSends, callVars
<1>3. PICK n \in 1 .. (MaxRecords - sent) : \E size \in [1 .. n -> Sizes] :
         /\ DataSize([i \in 1 .. n |-> [id |-> sent + i, size |-> size[i]]]) <= BufferSize
         /\ pending' = [i \in 1 .. n |-> [id |-> sent + i, size |-> size[i]]]
         /\ sent' = sent + n
  BY DEF DriverSends
<1>s. PICK size \in [1 .. n -> Sizes] :
         /\ DataSize([i \in 1 .. n |-> [id |-> sent + i, size |-> size[i]]]) <= BufferSize
         /\ pending' = [i \in 1 .. n |-> [id |-> sent + i, size |-> size[i]]]
         /\ sent' = sent + n
  BY <1>3
<1> DEFINE message == [i \in 1 .. n |-> [id |-> sent + i, size |-> size[i]]]
<1>4. sent \in Nat /\ MaxRecords \in Nat /\ sent <= MaxRecords /\ n \in Nat
      /\ sent + n \in 0 .. MaxRecords
  BY <1>1, <1>3, BoundsAssumption DEF TypeOK
<1>5. ASSUME NEW i \in 1 .. n PROVE [id |-> sent + i, size |-> size[i]] \in Rec
  <2>1. sent + i \in Nat /\ size[i] \in Sizes
    BY <1>4
  <2> QED
    BY <2>1 DEF Rec
<1>6. message \in Seq(Rec) /\ Len(message) = n
  BY <1>4, <1>5
<1>7. DataSize(message) <= BufferSize /\ pending' = message /\ sent' = sent + n
  BY <1>s
<1> HIDE DEF message
<1>8. Small(message)
  <2>1. /\ Offsets(message) \in [1 .. (Len(message) + 1) -> Nat]
        /\ \A i \in 0 .. Len(message) : Offsets(message)[i + 1] >= 2 * i
    BY <1>6, OffsetsRise
  <2>2. DataSize(message) \in Nat /\ DataSize(message) >= 2 * n
    <3>1. Len(message) \in 0 .. Len(message) /\ Len(message) + 1 \in 1 .. (Len(message) + 1)
      BY <1>4, <1>6
    <3>2. Offsets(message)[Len(message) + 1] >= 2 * Len(message)
      BY <2>1, <3>1
    <3>3. Offsets(message)[Len(message) + 1] \in Nat
      BY <2>1, <3>1
    <3> QED
      BY <1>6, <3>2, <3>3 DEF DataSize
  <2>3. 2 * n < UShort
    BY <1>4, <1>7, <2>2, UShortAssumption
  <2> QED
    BY <1>6, <2>3 DEF Small
<1>9. TypeOK'
  BY <1>1, <1>2, <1>4, <1>7 DEF TypeOK
<1>10. MessagesSmall'
  BY <1>1, <1>2, <1>7, <1>8 DEF MessagesSmall, Small
<1>11. ASSUME NEW d \in Callers PROVE ProgressOf(d)'
  BY <1>1, <1>2, ProgressKept
<1> QED
  BY <1>9, <1>10, <1>11 DEF ReceiverInv

LEMMA StillReceiver ==
    ASSUME ReceiverInv, DriverCloses \/ UNCHANGED vars
    PROVE  ReceiverInv'
<1>1. /\ TypeOK /\ MessagesSmall /\ \A d \in Callers : ProgressOf(d)
  BY DEF ReceiverInv
<1>2. UNCHANGED <<owner, pending, sent, pc, end, length, body, parsed, next, hr, calls, fetched,
                  delivered>>
  BY DEF DriverCloses, vars, callVars
<1>3. TypeOK'
  BY <1>1, <1>2 DEF TypeOK, DriverCloses, vars
<1>4. MessagesSmall'
  BY <1>1, <1>2 DEF MessagesSmall, Small
<1>5. ASSUME NEW d \in Callers PROVE ProgressOf(d)'
  BY <1>1, <1>2, ProgressKept
<1> QED
  BY <1>3, <1>4, <1>5 DEF ReceiverInv

LEMMA InitReceiver ==
    ASSUME Init
    PROVE  ReceiverInv
<1>1. InitialLength \in 1 .. (UShort - 1)
  BY LengthAssumption, UShortAssumption
<1>2. TypeOK
  <2>1. end \in [Callers -> BOOLEAN] /\ closing \in BOOLEAN /\ owner \in Callers \cup {None}
    BY Zenon DEF Init
  <2>2. length \in [Callers -> 1 .. (UShort - 1)] /\ next \in [Callers -> Nat]
    BY <1>1 DEF Init
  <2>3. calls \in [Callers -> 0 .. MaxCalls] /\ sent \in 0 .. MaxRecords
    BY BoundsAssumption DEF Init
  <2>4. /\ pc \in [Callers -> {"idle", "allocate", "test", "get", "parse", "grow", "callback"}]
        /\ hr \in [Callers -> {"S_OK", "REFUSED", "NO_MEMORY", "PORT_CLOSED"}]
    BY DEF Init
  <2> QED
    BY <2>1, <2>2, <2>3, <2>4 DEF TypeOK
<1>3. <<>> \in Seq(Rec) /\ Small(<<>>)
  BY UShortAssumption DEF Small
<1>4. MessagesSmall
  BY <1>3 DEF Init, MessagesSmall, NoMessage
<1>5. ASSUME NEW c \in Callers PROVE ProgressOf(c)
  <2>1. pc[c] = "idle" /\ fetched[c] = <<>> /\ delivered[c] = <<>>
    BY DEF Init
  <2> QED
    BY <1>3, <2>1, SameIsPrefix DEF ProgressOf
<1> QED
  BY <1>2, <1>4, <1>5 DEF ReceiverInv

LEMMA NextReceiver ==
    ASSUME ReceiverInv, [Next]_vars
    PROVE  ReceiverInv'
<1>1. ASSUME NEW c \in Callers, Connect(c) \/ NoMemory(c) \/ CallerStep(c) \/ SetEnd(c)
      PROVE  ReceiverInv'
  <2>1. CASE GetMessage(c)
    BY <2>1, GetMessageReceiver
  <2>2. CASE Parse(c)
    BY <2>2, ParseReceiver
  <2>3. CASE Grow(c)
    BY <2>3, GrowReceiver
  <2>4. CASE Callback(c)
    BY <2>4, CallbackReceiver
  <2>5. CASE \/ Connect(c) \/ Allocate(c) \/ NoMemory(c) \/ TestEnd(c)
             \/ GetMessageFails(c) \/ SetEnd(c)
    BY <2>5, QuietReceiver
  <2> QED
    BY <1>1, <2>1, <2>2, <2>3, <2>4, <2>5 DEF CallerStep
<1>2. CASE DriverSends
  BY <1>2, DriverSendsReceiver
<1>3. CASE DriverCloses \/ Finished \/ UNCHANGED vars
  BY <1>3, StillReceiver DEF Finished
<1> QED
  BY <1>1, <1>2, <1>3 DEF Next

-----------------------------------------------------------------------------
(* The theorems.                                                           *)

\* The inductive invariant of FglReceiveMonitorRecords: besides the types, a
\* message is small enough for the length of the array to be doubled, and
\* what a caller has been called back with, followed by what it has yet to
\* pass on of the message it holds, is what it has fetched.
THEOREM ReceiverInvariant == Spec => []ReceiverInv
<1>1. Init => ReceiverInv
  BY InitReceiver
<1>2. ReceiverInv /\ [Next]_vars => ReceiverInv'
  BY NextReceiver
<1> QED
  BY <1>1, <1>2, PTL DEF Spec

\* The types; parsedRecordsArrayLength, doubled in USHORT arithmetic each time
\* a message has more records than the array has places, never wraps round.
THEOREM ReceiverTypeCorrect == Spec => []TypeOK
<1>1. ReceiverInv => TypeOK
  BY DEF ReceiverInv
<1> QED
  BY <1>1, ReceiverInvariant, PTL

\* MonitorRecordCallback gets the records of the messages in the order in which
\* they came and each once, however often FglParseMonitorRecords walks over one
\* message, and a message is left only when all of its records are passed on.
THEOREM EachRecordOnceAlways == Spec => []EachRecordOnce
<1>1. ReceiverInv => EachRecordOnce
  BY DEF ReceiverInv, ProgressOf, EachRecordOnce
<1> QED
  BY <1>1, ReceiverInvariant, PTL
=============================================================================
