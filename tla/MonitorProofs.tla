--------------------------- MODULE MonitorProofs ---------------------------
(***************************************************************************)
(* Proofs about Monitor, for every set of producers, every choice of sizes,*)
(* limits and bounds.                                                      *)
(***************************************************************************)
EXTENDS Monitor, TLAPS, FiniteSetTheorems, SequenceTheorems

Checked == {p \in Producers : prod[p] = "checked"}

\* A record is in the monitor's hands exactly between its removal from the
\* queue and its copy, and it was seen to fit.
TakenWhileCopying ==
    /\ taken # None <=> mon = "copy"
    /\ mon = "copy" => taken.size <= room

\* Threads that have tested the limit and not yet counted their record are
\* as many records to come.
LimitReserved ==
    allocated + Cardinality(Checked) <= MaxAllocated + Cardinality(Producers) - 1

\* A record that a producer has filled in has one of the sizes.
FilledHasSize == \A p \in InHand : size[p] \in Sizes

\* The inductive invariant behind the counter of allocated records.
CountInv ==
    /\ TypeOK
    /\ AllocationExact
    /\ TakenWhileCopying
    /\ LimitReserved
    /\ FilledHasSize

-----------------------------------------------------------------------------
(* Cardinalities of the sets of producers at one location.                 *)

\* One producer joins a set it was not in, or leaves a set it was in: the
\* cardinality changes by one.
LEMMA JoinSet ==
    ASSUME NEW S, NEW x, IsFiniteSet(S), x \notin S
    PROVE  /\ IsFiniteSet(S \cup {x})
           /\ Cardinality(S \cup {x}) = Cardinality(S) + 1
BY FS_AddElement

LEMMA LeaveSet ==
    ASSUME NEW S, NEW x, IsFiniteSet(S), x \in S
    PROVE  /\ IsFiniteSet(S \ {x})
           /\ Cardinality(S \ {x}) = Cardinality(S) - 1
BY FS_RemoveElement

\* Any set of producers is finite and no larger than all of them.
LEMMA ProducerSubset ==
    ASSUME NEW S \in SUBSET Producers
    PROVE  /\ IsFiniteSet(S)
           /\ Cardinality(S) \in Nat
           /\ Cardinality(Producers) \in Nat
           /\ Cardinality(S) <= Cardinality(Producers)
BY ProducersAssumption, FS_Subset, FS_CardinalityType

\* The counts that occur in the invariant are natural numbers.
LEMMA HandCounts ==
    /\ IsFiniteSet(InHand) /\ Cardinality(InHand) \in Nat
    /\ IsFiniteSet(Checked) /\ Cardinality(Checked) \in Nat
    /\ Cardinality(Checked) <= Cardinality(Producers)
    /\ Cardinality(Producers) \in Nat
BY ProducerSubset, InHand \in SUBSET Producers, Checked \in SUBSET Producers
   DEF InHand, Checked

\* The ids of a sequence of records are a sequence of numbers.
LEMMA IdsType ==
    ASSUME NEW s \in Seq(Record)
    PROVE  /\ Ids(s) \in Seq(Nat)
           /\ Len(Ids(s)) = Len(s)
           /\ \A i \in 1 .. Len(s) : Ids(s)[i] = s[i].id
           /\ Range(Ids(s)) \subseteq Nat
<1>1. DOMAIN s = 1 .. Len(s) /\ Len(s) \in Nat
  OBVIOUS
<1>2. \A i \in 1 .. Len(s) : s[i] \in Record
  OBVIOUS
<1>3. \A i \in 1 .. Len(s) : s[i].id \in Nat
  BY <1>2 DEF Record
<1>4. Ids(s) = [i \in 1 .. Len(s) |-> s[i].id]
  BY <1>1 DEF Ids
<1>5. Ids(s) \in Seq(Nat) /\ Len(Ids(s)) = Len(s)
  BY <1>1, <1>3, <1>4
<1> QED
  BY <1>1, <1>3, <1>4, <1>5 DEF Range

\* What a step preserves that leaves the records and the producers alone.
LEMMA CountKept ==
    ASSUME AllocationExact, LimitReserved, FilledHasSize,
           UNCHANGED <<allocated, queue, prod, size, taken>>
    PROVE  AllocationExact' /\ LimitReserved' /\ FilledHasSize'
BY DEF AllocationExact, LimitReserved, FilledHasSize, InHand, Checked

-----------------------------------------------------------------------------
\* Initially nothing is allocated and no producer is under way.
LEMMA CountInvInit == Init => CountInv
<1> SUFFICES ASSUME Init PROVE CountInv
  OBVIOUS
<1>1. InHand = {} /\ Checked = {}
  BY DEF Init, InHand, Checked
<1>2. Cardinality({}) = 0
  BY FS_EmptySet
<1>3. Cardinality(Producers) \in Nat /\ Cardinality(Producers) # 0
  BY ProducersAssumption, FS_CardinalityType, FS_EmptySet
<1>4. TypeOK
  <2>1. <<>> \in Seq(Record) /\ <<>> \in Seq(Nat)
    OBVIOUS
  <2>2. room \in 0 .. BufferSize /\ allocated \in Nat /\ appended \in Nat
    BY BufferSizeAssumption DEF Init
  <2> QED
    BY <2>1, <2>2, Zenon DEF Init, TypeOK
<1>5. AllocationExact
  BY <1>1, <1>2 DEF Init, AllocationExact
<1>6. LimitReserved
  BY <1>1, <1>2, <1>3, MaxAllocatedAssumption DEF Init, LimitReserved
<1>7. TakenWhileCopying /\ FilledHasSize
  BY <1>1 DEF Init, TakenWhileCopying, FilledHasSize
<1> QED
  BY <1>4, <1>5, <1>6, <1>7 DEF CountInv

\* The steps of FgcRecordRuleMatched keep the counter exact.
LEMMA CountInvProducer ==
    ASSUME CountInv, NEW p \in Producers, CheckLimit(p) \/ ProducerStep(p)
    PROVE  CountInv'
<1>0. TypeOK /\ AllocationExact /\ TakenWhileCopying /\ LimitReserved /\ FilledHasSize
  BY DEF CountInv
<1>a. allocated \in Nat /\ Len(queue) \in Nat /\ MaxAllocated \in Nat
  BY <1>0, MaxAllocatedAssumption DEF TypeOK
<1>1. CASE CheckLimit(p)
  <2>1. TypeOK' /\ TakenWhileCopying'
    BY <1>0, <1>1 DEF CheckLimit, TypeOK, TakenWhileCopying, recordVars,
       monitorVars, eventVars, portVars, unloadVars, outVars
  <2>2. InHand' = InHand
    BY <1>0, <1>1 DEF CheckLimit, TypeOK, InHand
  <2>3. UNCHANGED <<allocated, queue, size, taken>>
    BY <1>1 DEF CheckLimit, recordVars, monitorVars
  <2>4. AllocationExact' /\ FilledHasSize'
    BY <1>0, <2>2, <2>3 DEF AllocationExact, FilledHasSize
  <2>5. LimitReserved'
    <3>1. CASE BelowLimit
      <4>1. Cardinality(Checked') \in Nat /\ Cardinality(Checked') <= Cardinality(Producers)
        BY ProducerSubset, Checked' \in SUBSET Producers DEF Checked
      <4>2. allocated < MaxAllocated
        BY <3>1 DEF BelowLimit
      <4> QED
        BY <4>1, <4>2, <2>3, <1>a, HandCounts DEF LimitReserved
    <3>2. CASE ~ BelowLimit
      <4>1. Checked' = Checked
        BY <1>0, <1>1, <3>2 DEF CheckLimit, TypeOK, Checked
      <4> QED
        BY <1>0, <2>3, <4>1 DEF LimitReserved
    <3> QED
      BY <3>1, <3>2
  <2> QED
    BY <2>1, <2>4, <2>5 DEF CountInv
<1>2. CASE AllocateRecord(p)
  <2>1. TypeOK' /\ TakenWhileCopying'
    BY <1>0, <1>2 DEF AllocateRecord, TypeOK, TakenWhileCopying, monitorVars,
       eventVars, portVars, unloadVars, outVars
  <2>2. InHand' = InHand \cup {p} /\ p \notin InHand
    BY <1>0, <1>2 DEF AllocateRecord, TypeOK, InHand
  <2>3. Checked' = Checked \ {p} /\ p \in Checked
    BY <1>0, <1>2 DEF AllocateRecord, TypeOK, Checked
  <2>4. /\ Cardinality(InHand') = Cardinality(InHand) + 1
        /\ Cardinality(Checked') = Cardinality(Checked) - 1
    BY <2>2, <2>3, HandCounts, JoinSet, LeaveSet
  <2>5. allocated' = allocated + 1 /\ UNCHANGED <<queue, taken>>
    BY <1>2 DEF AllocateRecord, monitorVars
  <2>6. AllocationExact'
    BY <1>0, <1>a, <2>4, <2>5, HandCounts DEF AllocationExact
  <2>7. LimitReserved'
    BY <1>0, <1>a, <2>4, <2>5, HandCounts DEF LimitReserved
  <2>8. FilledHasSize'
    BY <1>0, <1>2, <2>2 DEF AllocateRecord, FilledHasSize, TypeOK
  <2> QED
    BY <2>1, <2>6, <2>7, <2>8 DEF CountInv
<1>3. CASE ReturnError(p)
  <2>1. TypeOK' /\ TakenWhileCopying'
    BY <1>0, <1>3 DEF ReturnError, TypeOK, TakenWhileCopying, recordVars,
       monitorVars, eventVars, portVars, unloadVars, outVars
  <2>2. InHand' = InHand
    BY <1>0, <1>3 DEF ReturnError, TypeOK, InHand
  <2>3. Checked' = Checked \ {p}
    BY <1>0, <1>3 DEF ReturnError, TypeOK, Checked
  <2>4. Cardinality(Checked') <= Cardinality(Checked) /\ Cardinality(Checked') \in Nat
    <3>1. CASE p \in Checked
      <4>1. IsFiniteSet(Checked') /\ Cardinality(Checked') = Cardinality(Checked) - 1
        BY <3>1, <2>3, HandCounts, LeaveSet
      <4>2. Cardinality(Checked') \in Nat
        BY <4>1, FS_CardinalityType
      <4> QED
        BY <4>1, <4>2, HandCounts
    <3>2. CASE p \notin Checked
      <4>1. Checked' = Checked
        BY <2>3, <3>2
      <4> QED
        BY <4>1, HandCounts
    <3> QED
      BY <3>1, <3>2
  <2>5. UNCHANGED <<allocated, queue, size, taken>>
    BY <1>3 DEF ReturnError, recordVars, monitorVars
  <2>6. AllocationExact' /\ FilledHasSize'
    BY <1>0, <2>2, <2>5 DEF AllocationExact, FilledHasSize
  <2>7. LimitReserved'
    BY <1>0, <1>a, <2>4, <2>5, HandCounts DEF LimitReserved
  <2> QED
    BY <2>1, <2>6, <2>7 DEF CountInv
<1>4. CASE InsertRecord(p)
  <2>1. InHand' = InHand \ {p} /\ p \in InHand
    BY <1>0, <1>4 DEF InsertRecord, TypeOK, InHand
  <2>2. Checked' = Checked
    BY <1>0, <1>4 DEF InsertRecord, TypeOK, Checked
  <2>3. [id |-> appended + 1, size |-> size[p]] \in Record
    BY <1>0, <2>1 DEF FilledHasSize, TypeOK, Record
  <2>4. queue' \in Seq(Record) /\ Len(queue') = Len(queue) + 1
    BY <1>0, <1>4, <2>3 DEF InsertRecord, TypeOK
  <2>5. UNCHANGED <<allocated, taken, mon, room>>
    BY <1>4 DEF InsertRecord, monitorVars
  <2>6. TypeOK' /\ TakenWhileCopying'
    BY <1>0, <1>4, <2>4 DEF InsertRecord, TypeOK, TakenWhileCopying,
       monitorVars, eventVars, portVars, unloadVars, outVars
  <2>7. Cardinality(InHand') = Cardinality(InHand) - 1
    BY <2>1, HandCounts, LeaveSet
  <2>8. AllocationExact'
    BY <1>0, <1>a, <2>4, <2>5, <2>7, HandCounts DEF AllocationExact
  <2>9. LimitReserved'
    BY <1>0, <2>2, <2>5 DEF LimitReserved
  <2>10. FilledHasSize'
    BY <1>0, <1>4, <2>1 DEF InsertRecord, FilledHasSize, InHand, TypeOK
  <2> QED
    BY <2>6, <2>8, <2>9, <2>10 DEF CountInv
<1>5. CASE WakeMonitor(p)
  <2>1. TypeOK' /\ TakenWhileCopying'
    BY <1>0, <1>5 DEF WakeMonitor, TypeOK, TakenWhileCopying, recordVars,
       monitorVars, portVars, unloadVars, outVars
  <2>2. InHand' = InHand /\ Checked' = Checked
    BY <1>0, <1>5 DEF WakeMonitor, TypeOK, InHand, Checked
  <2>3. UNCHANGED <<allocated, queue, size, taken>>
    BY <1>5 DEF WakeMonitor, recordVars, monitorVars
  <2>4. AllocationExact' /\ LimitReserved' /\ FilledHasSize'
    BY <1>0, <2>2, <2>3 DEF AllocationExact, LimitReserved, FilledHasSize
  <2> QED
    BY <2>1, <2>4 DEF CountInv
<1> QED
  BY <1>1, <1>2, <1>3, <1>4, <1>5 DEF ProducerStep

\* The steps of the monitor thread keep it exact: a record is discounted when
\* it has left both the queue and the monitor's hands.
LEMMA CountInvMonitor ==
    ASSUME CountInv, MonitorStep \/ SendError
    PROVE  CountInv'
<1>0. TypeOK /\ AllocationExact /\ TakenWhileCopying /\ LimitReserved /\ FilledHasSize
  BY DEF CountInv
<1>a. allocated \in Nat /\ Len(queue) \in Nat /\ MaxAllocated \in Nat
  BY <1>0, MaxAllocatedAssumption DEF TypeOK
<1>1. CASE TakeRecord
  <2>1. queue # <<>> /\ Head(queue).size <= room
    BY <1>1 DEF TakeRecord, HeadFits
  <2>2. /\ Head(queue) \in Record
        /\ Tail(queue) \in Seq(Record)
        /\ Len(Tail(queue)) = Len(queue) - 1
    BY <1>0, <2>1 DEF TypeOK
  <2>3. taken = None /\ taken' \in Record /\ taken' # None
    BY <1>0, <1>1, <2>2, NoRecordAssumption DEF TakeRecord, TakenWhileCopying
  <2>4. UNCHANGED <<allocated, prod, size, room>> /\ queue' = Tail(queue)
    BY <1>1 DEF TakeRecord, producerVars
  <2>5. TypeOK'
    BY <1>0, <1>1, <2>2, <2>3 DEF TakeRecord, TypeOK, producerVars, eventVars,
       portVars, unloadVars, outVars
  <2>6. TakenWhileCopying'
    BY <1>1, <2>1, <2>3, <2>4 DEF TakeRecord, TakenWhileCopying
  <2>7. InHand' = InHand /\ Checked' = Checked
    BY <2>4 DEF InHand, Checked
  <2>8. AllocationExact'
    BY <1>0, <1>a, <2>2, <2>3, <2>4, <2>7, HandCounts DEF AllocationExact
  <2>9. LimitReserved' /\ FilledHasSize'
    BY <1>0, <2>4, <2>7 DEF LimitReserved, FilledHasSize
  <2> QED
    BY <2>5, <2>6, <2>8, <2>9 DEF CountInv
<1>2. CASE CopyRecord
  <2>1. mon = "copy" /\ taken # None /\ taken \in Record /\ taken.size <= room
    BY <1>0, <1>2 DEF CopyRecord, TakenWhileCopying, TypeOK
  <2>2. taken.size \in Nat
    BY <2>1, SizesAssumption DEF Record
  <2>3. room' \in 0 .. BufferSize
    BY <1>0, <1>2, <2>1, <2>2, BufferSizeAssumption DEF CopyRecord, TypeOK
  <2>4. UNCHANGED <<queue, prod, size>> /\ taken' = None /\ allocated' = allocated - 1
    BY <1>2 DEF CopyRecord, producerVars
  <2>5. InHand' = InHand /\ Checked' = Checked
    BY <2>4 DEF InHand, Checked
  <2>6. allocated - 1 = Len(queue) + Cardinality(InHand)
    BY <1>0, <1>a, <2>1, HandCounts DEF AllocationExact
  <2>7. allocated' \in Nat /\ AllocationExact'
    BY <1>a, <2>4, <2>5, <2>6, HandCounts DEF AllocationExact
  <2>8. body' \in Seq(Record)
    BY <1>0, <1>2, <2>1 DEF CopyRecord, TypeOK
  <2>9. TypeOK' /\ TakenWhileCopying'
    BY <1>0, <1>2, <2>3, <2>7, <2>8 DEF CopyRecord, TypeOK, TakenWhileCopying,
       producerVars, eventVars, portVars, unloadVars, outVars
  <2>10. LimitReserved' /\ FilledHasSize'
    BY <1>0, <1>a, <2>4, <2>5, HandCounts DEF LimitReserved, FilledHasSize
  <2> QED
    BY <2>7, <2>9, <2>10 DEF CountInv
<1>3. CASE TestEndFlag
  <2>1. TypeOK' /\ TakenWhileCopying'
    BY <1>0, <1>3 DEF TestEndFlag, TypeOK, TakenWhileCopying, recordVars,
       producerVars, monitorVars, eventVars, portVars, unloadVars, outVars
  <2>2. UNCHANGED <<allocated, queue, prod, size, taken>>
    BY <1>3 DEF TestEndFlag, recordVars, producerVars, monitorVars
  <2> QED
    BY <1>0, <2>1, <2>2, CountKept DEF CountInv
<1>4. CASE WaitWake
  <2>1. TypeOK' /\ TakenWhileCopying'
    BY <1>0, <1>4 DEF WaitWake, TypeOK, TakenWhileCopying, recordVars,
       producerVars, monitorVars, eventVars, portVars, unloadVars, outVars
  <2>2. UNCHANGED <<allocated, queue, prod, size, taken>>
    BY <1>4 DEF WaitWake, recordVars, producerVars, monitorVars
  <2> QED
    BY <1>0, <2>1, <2>2, CountKept DEF CountInv
<1>5. CASE WaitConnected
  <2>1. TypeOK' /\ TakenWhileCopying'
    BY <1>0, <1>5 DEF WaitConnected, TypeOK, TakenWhileCopying, recordVars,
       producerVars, monitorVars, eventVars, portVars, unloadVars, outVars
  <2>2. UNCHANGED <<allocated, queue, prod, size, taken>>
    BY <1>5 DEF WaitConnected, recordVars, producerVars, monitorVars
  <2> QED
    BY <1>0, <2>1, <2>2, CountKept DEF CountInv
<1>6. CASE TestClientPort
  <2>1. TypeOK' /\ TakenWhileCopying'
    BY <1>0, <1>6, BufferSizeAssumption DEF TestClientPort, TypeOK,
       TakenWhileCopying, recordVars, producerVars, monitorVars, eventVars,
       portVars, unloadVars, outVars
  <2>2. UNCHANGED <<allocated, queue, prod, size, taken>>
    BY <1>6 DEF TestClientPort, recordVars, producerVars, monitorVars
  <2> QED
    BY <1>0, <2>1, <2>2, CountKept DEF CountInv
<1>7. CASE GetRecordsEnd
  <2>1. TypeOK' /\ TakenWhileCopying'
    BY <1>0, <1>7 DEF GetRecordsEnd, TypeOK, TakenWhileCopying, recordVars,
       producerVars, monitorVars, eventVars, portVars, unloadVars, outVars
  <2>2. UNCHANGED <<allocated, queue, prod, size, taken>>
    BY <1>7 DEF GetRecordsEnd, recordVars, producerVars, monitorVars
  <2> QED
    BY <1>0, <2>1, <2>2, CountKept DEF CountInv
<1>8. CASE EnterSend
  <2>1. TypeOK' /\ TakenWhileCopying'
    BY <1>0, <1>8 DEF EnterSend, TypeOK, TakenWhileCopying, recordVars,
       producerVars, monitorVars, eventVars, portVars, unloadVars, outVars
  <2>2. UNCHANGED <<allocated, queue, prod, size, taken>>
    BY <1>8 DEF EnterSend, recordVars, producerVars, monitorVars
  <2> QED
    BY <1>0, <2>1, <2>2, CountKept DEF CountInv
<1>9. CASE EnterSendStale
  <2>1. TypeOK' /\ TakenWhileCopying'
    BY <1>0, <1>9 DEF EnterSendStale, TypeOK, TakenWhileCopying, recordVars,
       producerVars, monitorVars, eventVars, portVars, unloadVars, outVars
  <2>2. UNCHANGED <<allocated, queue, prod, size, taken>>
    BY <1>9 DEF EnterSendStale, recordVars, producerVars, monitorVars
  <2> QED
    BY <1>0, <2>1, <2>2, CountKept DEF CountInv
<1>10. CASE SendReceived
  <2>1. Ids(body) \in Seq(Nat) /\ Range(Ids(body)) \subseteq Nat
    BY <1>0, IdsType DEF TypeOK
  <2>2. received' \in Seq(Nat) /\ lost' \subseteq Nat
    BY <1>0, <1>10, <2>1 DEF SendReceived, TypeOK
  <2>3. body' \in Seq(Record)
    BY <1>10 DEF SendReceived
  <2>4. TypeOK' /\ TakenWhileCopying'
    BY <1>0, <1>10, <2>2, <2>3 DEF SendReceived, TypeOK, TakenWhileCopying,
       recordVars, producerVars, eventVars, portVars, unloadVars
  <2>5. UNCHANGED <<allocated, queue, prod, size, taken>>
    BY <1>10 DEF SendReceived, recordVars, producerVars
  <2> QED
    BY <1>0, <2>4, <2>5, CountKept DEF CountInv
<1>11. CASE SendDisconnected
  <2>1. Ids(body) \in Seq(Nat) /\ Range(Ids(body)) \subseteq Nat
    BY <1>0, IdsType DEF TypeOK
  <2>2. received' \in Seq(Nat) /\ lost' \subseteq Nat
    BY <1>0, <1>11, <2>1 DEF SendDisconnected, TypeOK
  <2>3. body' \in Seq(Record)
    BY <1>11 DEF SendDisconnected
  <2>4. TypeOK' /\ TakenWhileCopying'
    BY <1>0, <1>11, <2>2, <2>3 DEF SendDisconnected, TypeOK,
       TakenWhileCopying, recordVars, producerVars, eventVars, portVars,
       unloadVars
  <2>5. UNCHANGED <<allocated, queue, prod, size, taken>>
    BY <1>11 DEF SendDisconnected, recordVars, producerVars
  <2> QED
    BY <1>0, <2>4, <2>5, CountKept DEF CountInv
<1>12. CASE SendError
  <2>1. Ids(body) \in Seq(Nat) /\ Range(Ids(body)) \subseteq Nat
    BY <1>0, IdsType DEF TypeOK
  <2>2. received' \in Seq(Nat) /\ lost' \subseteq Nat
    BY <1>0, <1>12, <2>1 DEF SendError, TypeOK
  <2>3. body' \in Seq(Record)
    BY <1>12 DEF SendError
  <2>4. TypeOK' /\ TakenWhileCopying'
    BY <1>0, <1>12, <2>2, <2>3 DEF SendError, TypeOK, TakenWhileCopying,
       recordVars, producerVars, eventVars, portVars, unloadVars
  <2>5. UNCHANGED <<allocated, queue, prod, size, taken>>
    BY <1>12 DEF SendError, recordVars, producerVars
  <2> QED
    BY <1>0, <2>4, <2>5, CountKept DEF CountInv
<1>13. CASE TestQueue
  <2>1. TypeOK' /\ TakenWhileCopying'
    BY <1>0, <1>13 DEF TestQueue, TypeOK, TakenWhileCopying, recordVars,
       producerVars, monitorVars, eventVars, portVars, unloadVars, outVars
  <2>2. UNCHANGED <<allocated, queue, prod, size, taken>>
    BY <1>13 DEF TestQueue, recordVars, producerVars, monitorVars
  <2> QED
    BY <1>0, <2>1, <2>2, CountKept DEF CountInv
<1>14. CASE ClearWake
  <2>a. wake' \in BOOLEAN
    BY <1>14, Zenon DEF ClearWake
  <2>b. /\ mon = "clear" /\ mon' = "loop"
        /\ UNCHANGED <<recordVars, producerVars, status, body, room, taken, connected,
                       portVars, unloadVars, outVars, fault>>
    BY <1>14 DEF ClearWake, monitorVars, unloadVars
  <2>1. TypeOK' /\ TakenWhileCopying'
    BY <1>0, <2>a, <2>b DEF TypeOK, TakenWhileCopying, recordVars,
       producerVars, monitorVars, eventVars, portVars, unloadVars, outVars
  <2>2. UNCHANGED <<allocated, queue, prod, size, taken>>
    BY <1>14 DEF ClearWake, recordVars, producerVars, monitorVars
  <2> QED
    BY <1>0, <2>1, <2>2, CountKept DEF CountInv
<1>15. CASE UseFreedContext
  <2>1. TypeOK' /\ TakenWhileCopying'
    BY <1>0, <1>15 DEF UseFreedContext, TypeOK, TakenWhileCopying, recordVars,
       producerVars, monitorVars, eventVars, portVars, unloadVars, outVars
  <2>2. UNCHANGED <<allocated, queue, prod, size, taken>>
    BY <1>15 DEF UseFreedContext, recordVars, producerVars, monitorVars
  <2> QED
    BY <1>0, <2>1, <2>2, CountKept DEF CountInv
<1> QED
  BY <1>1, <1>2, <1>3, <1>4, <1>5, <1>6, <1>7, <1>8, <1>9, <1>10, <1>11,
     <1>12, <1>13, <1>14, <1>15 DEF MonitorStep

\* The steps of the client, of the filter manager and of FgcUnload do too.
LEMMA CountInvOthers ==
    ASSUME CountInv,
           \/ FgcMonitorPortConnectCallback \/ ClientCloses \/ DisconnectStep
           \/ ClosePorts \/ UnloadStep \/ WaitTimesOut
    PROVE  CountInv'
<1>0. TypeOK /\ AllocationExact /\ TakenWhileCopying /\ LimitReserved /\ FilledHasSize
  BY DEF CountInv
<1>a. allocated \in Nat /\ Len(queue) \in Nat /\ MaxAllocated \in Nat
  BY <1>0, MaxAllocatedAssumption DEF TypeOK
<1>1. CASE CleanupMonitorRecord
  <2>1. queue # <<>>
    BY <1>1 DEF CleanupMonitorRecord
  <2>2. /\ Head(queue) \in Record
        /\ Tail(queue) \in Seq(Record)
        /\ Len(Tail(queue)) = Len(queue) - 1
    BY <1>0, <2>1 DEF TypeOK
  <2>3. Head(queue).id \in Nat
    BY <2>2 DEF Record
  <2>4. UNCHANGED <<prod, size, taken, mon, room>>
    BY <1>1 DEF CleanupMonitorRecord, producerVars, monitorVars
  <2>5. queue' = Tail(queue) /\ allocated' = allocated - 1
    BY <1>1 DEF CleanupMonitorRecord
  <2>6. InHand' = InHand /\ Checked' = Checked
    BY <2>4 DEF InHand, Checked
  <2>7. Len(Tail(queue)) \in Nat
    BY <2>2
  <2>8. allocated' \in Nat /\ AllocationExact'
    BY <1>0, <1>a, <2>2, <2>4, <2>5, <2>6, <2>7, HandCounts DEF AllocationExact
  <2>9. lost' \subseteq Nat
    BY <1>0, <1>1, <2>3 DEF CleanupMonitorRecord, TypeOK
  <2>10. TypeOK' /\ TakenWhileCopying'
    BY <1>0, <1>1, <2>2, <2>8, <2>9 DEF CleanupMonitorRecord, TypeOK,
       TakenWhileCopying, producerVars, monitorVars, eventVars, portVars,
       unloadVars
  <2>11. LimitReserved' /\ FilledHasSize'
    BY <1>0, <1>a, <2>4, <2>5, <2>6, HandCounts DEF LimitReserved, FilledHasSize
  <2> QED
    BY <2>8, <2>10, <2>11 DEF CountInv
<1>2. CASE FgcMonitorPortConnectCallback
  <2>1. TypeOK' /\ TakenWhileCopying'
    BY <1>0, <1>2 DEF FgcMonitorPortConnectCallback, TypeOK,
       TakenWhileCopying, recordVars, producerVars, monitorVars, eventVars,
       portVars, unloadVars, outVars
  <2>2. UNCHANGED <<allocated, queue, prod, size, taken>>
    BY <1>2 DEF FgcMonitorPortConnectCallback, recordVars, producerVars, monitorVars
  <2> QED
    BY <1>0, <2>1, <2>2, CountKept DEF CountInv
<1>3. CASE ClientCloses
  <2>1. TypeOK' /\ TakenWhileCopying'
    BY <1>0, <1>3 DEF ClientCloses, TypeOK, TakenWhileCopying, recordVars,
       producerVars, monitorVars, eventVars, portVars, unloadVars, outVars
  <2>2. UNCHANGED <<allocated, queue, prod, size, taken>>
    BY <1>3 DEF ClientCloses, recordVars, producerVars, monitorVars
  <2> QED
    BY <1>0, <2>1, <2>2, CountKept DEF CountInv
<1>4. CASE ClearConnected
  <2>a. connected' \in BOOLEAN
    BY <1>4, Zenon DEF ClearConnected
  <2>b. /\ client' = "cleared"
        /\ UNCHANGED <<recordVars, producerVars, monitorVars, wake, port, unloadVars,
                       outVars, fault>>
    BY <1>4 DEF ClearConnected, monitorVars, unloadVars
  <2>1. TypeOK' /\ TakenWhileCopying'
    BY <1>0, <2>a, <2>b DEF TypeOK, TakenWhileCopying, recordVars,
       producerVars, monitorVars, eventVars, portVars, unloadVars, outVars
  <2>2. UNCHANGED <<allocated, queue, prod, size, taken>>
    BY <1>4 DEF ClearConnected, recordVars, producerVars, monitorVars
  <2> QED
    BY <1>0, <2>1, <2>2, CountKept DEF CountInv
<1>5. CASE CloseClientPort
  <2>1. TypeOK' /\ TakenWhileCopying'
    BY <1>0, <1>5 DEF CloseClientPort, TypeOK, TakenWhileCopying, recordVars,
       producerVars, monitorVars, eventVars, portVars, unloadVars, outVars
  <2>2. UNCHANGED <<allocated, queue, prod, size, taken>>
    BY <1>5 DEF CloseClientPort, recordVars, producerVars, monitorVars
  <2> QED
    BY <1>0, <2>1, <2>2, CountKept DEF CountInv
<1>6. CASE ForgetClientPort
  <2>1. TypeOK' /\ TakenWhileCopying'
    BY <1>0, <1>6 DEF ForgetClientPort, TypeOK, TakenWhileCopying, recordVars,
       producerVars, monitorVars, eventVars, portVars, unloadVars, outVars
  <2>2. UNCHANGED <<allocated, queue, prod, size, taken>>
    BY <1>6 DEF ForgetClientPort, recordVars, producerVars, monitorVars
  <2> QED
    BY <1>0, <2>1, <2>2, CountKept DEF CountInv
<1>7. CASE ClosePorts
  <2>1. TypeOK' /\ TakenWhileCopying'
    BY <1>0, <1>7 DEF ClosePorts, TypeOK, TakenWhileCopying, recordVars,
       producerVars, monitorVars, eventVars, portVars, unloadVars, outVars
  <2>2. UNCHANGED <<allocated, queue, prod, size, taken>>
    BY <1>7 DEF ClosePorts, recordVars, producerVars, monitorVars
  <2> QED
    BY <1>0, <2>1, <2>2, CountKept DEF CountInv
<1>8. CASE UnregisterFilter
  <2>1. TypeOK' /\ TakenWhileCopying'
    BY <1>0, <1>8 DEF UnregisterFilter, TypeOK, TakenWhileCopying, recordVars,
       producerVars, monitorVars, eventVars, portVars, unloadVars, outVars
  <2>2. UNCHANGED <<allocated, queue, prod, size, taken>>
    BY <1>8 DEF UnregisterFilter, recordVars, producerVars, monitorVars
  <2> QED
    BY <1>0, <2>1, <2>2, CountKept DEF CountInv
<1>9. CASE SetEndFlag
  <2>1. TypeOK' /\ TakenWhileCopying'
    BY <1>0, <1>9 DEF SetEndFlag, TypeOK, TakenWhileCopying, recordVars,
       producerVars, monitorVars, eventVars, portVars, unloadVars, outVars
  <2>2. UNCHANGED <<allocated, queue, prod, size, taken>>
    BY <1>9 DEF SetEndFlag, recordVars, producerVars, monitorVars
  <2> QED
    BY <1>0, <2>1, <2>2, CountKept DEF CountInv
<1>10. CASE SetConnected
  <2>1. TypeOK' /\ TakenWhileCopying'
    BY <1>0, <1>10 DEF SetConnected, TypeOK, TakenWhileCopying, recordVars,
       producerVars, monitorVars, eventVars, portVars, unloadVars, outVars
  <2>2. UNCHANGED <<allocated, queue, prod, size, taken>>
    BY <1>10 DEF SetConnected, recordVars, producerVars, monitorVars
  <2> QED
    BY <1>0, <2>1, <2>2, CountKept DEF CountInv
<1>11. CASE SetWake
  <2>1. TypeOK' /\ TakenWhileCopying'
    BY <1>0, <1>11 DEF SetWake, TypeOK, TakenWhileCopying, recordVars,
       producerVars, monitorVars, eventVars, portVars, unloadVars, outVars
  <2>2. UNCHANGED <<allocated, queue, prod, size, taken>>
    BY <1>11 DEF SetWake, recordVars, producerVars, monitorVars
  <2> QED
    BY <1>0, <2>1, <2>2, CountKept DEF CountInv
<1>12. CASE ThreadEnds
  <2>1. TypeOK' /\ TakenWhileCopying'
    BY <1>0, <1>12 DEF ThreadEnds, TypeOK, TakenWhileCopying, recordVars,
       producerVars, monitorVars, eventVars, portVars, unloadVars, outVars
  <2>2. UNCHANGED <<allocated, queue, prod, size, taken>>
    BY <1>12 DEF ThreadEnds, recordVars, producerVars, monitorVars
  <2> QED
    BY <1>0, <2>1, <2>2, CountKept DEF CountInv
<1>13. CASE WaitTimesOut
  <2>1. TypeOK' /\ TakenWhileCopying'
    BY <1>0, <1>13 DEF WaitTimesOut, TypeOK, TakenWhileCopying, recordVars,
       producerVars, monitorVars, eventVars, portVars, unloadVars, outVars
  <2>2. UNCHANGED <<allocated, queue, prod, size, taken>>
    BY <1>13 DEF WaitTimesOut, recordVars, producerVars, monitorVars
  <2> QED
    BY <1>0, <2>1, <2>2, CountKept DEF CountInv
<1>14. CASE FreeMonitorStartContext
  <2>a. context' \in BOOLEAN
    BY <1>14, Zenon DEF FreeMonitorStartContext
  <2>b. /\ unload' = "freed"
        /\ UNCHANGED <<recordVars, producerVars, monitorVars, eventVars, portVars,
                       endFlag, outVars, fault>>
    BY <1>14 DEF FreeMonitorStartContext, monitorVars, unloadVars
  <2>1. TypeOK' /\ TakenWhileCopying'
    BY <1>0, <2>a, <2>b DEF TypeOK, TakenWhileCopying, recordVars,
       producerVars, monitorVars, eventVars, portVars, unloadVars, outVars
  <2>2. UNCHANGED <<allocated, queue, prod, size, taken>>
    BY <1>14 DEF FreeMonitorStartContext, recordVars, producerVars, monitorVars
  <2> QED
    BY <1>0, <2>1, <2>2, CountKept DEF CountInv
<1>15. CASE UnloadReturns
  <2>1. TypeOK' /\ TakenWhileCopying'
    BY <1>0, <1>15 DEF UnloadReturns, TypeOK, TakenWhileCopying, recordVars,
       producerVars, monitorVars, eventVars, portVars, unloadVars, outVars
  <2>2. UNCHANGED <<allocated, queue, prod, size, taken>>
    BY <1>15 DEF UnloadReturns, recordVars, producerVars, monitorVars
  <2> QED
    BY <1>0, <2>1, <2>2, CountKept DEF CountInv
<1> QED
  BY <1>1, <1>2, <1>3, <1>4, <1>5, <1>6, <1>7, <1>8, <1>9, <1>10, <1>11,
     <1>12, <1>13, <1>14, <1>15
     DEF DisconnectStep, UnloadStep

\* A stuttering step changes none of what the invariant mentions.
LEMMA CountInvStutter ==
    ASSUME CountInv, UNCHANGED vars
    PROVE  CountInv'
BY DEF CountInv, TypeOK, AllocationExact, TakenWhileCopying, LimitReserved,
   FilledHasSize, InHand, Checked, vars, recordVars, producerVars,
   monitorVars, eventVars, portVars, unloadVars, outVars

-----------------------------------------------------------------------------
\* The invariant holds in every behaviour of the monitor.
THEOREM CountInvariant == Spec => []CountInv
<1>1. Init => CountInv
  BY CountInvInit
<1>2. CountInv /\ [Next]_vars => CountInv'
  <2> SUFFICES ASSUME CountInv, [Next]_vars PROVE CountInv'
    OBVIOUS
  <2>1. ASSUME NEW p \in Producers, CheckLimit(p) \/ ProducerStep(p)
        PROVE  CountInv'
    BY <2>1, CountInvProducer
  <2>2. CASE MonitorStep \/ SendError
    BY <2>2, CountInvMonitor
  <2>3. CASE \/ FgcMonitorPortConnectCallback \/ ClientCloses \/ DisconnectStep
             \/ ClosePorts \/ UnloadStep \/ WaitTimesOut
    BY <2>3, CountInvOthers
  <2>4. CASE Halted \/ UNCHANGED vars
    BY <2>4, CountInvStutter DEF Halted
  <2> QED
    BY <2>1, <2>2, <2>3, <2>4 DEF Next
<1> QED
  BY <1>1, <1>2, PTL DEF Spec

\* Every variable keeps its type; in particular the room in the message
\* buffer never goes below zero and the counter never below nothing.
THEOREM TypeCorrect == Spec => []TypeOK
BY CountInvariant, PTL DEF CountInv

\* MonitorRecordsAllocated counts exactly the entries that exist, for any
\* number of threads recording matches.
THEOREM AllocationCounted == Spec => []AllocationExact
BY CountInvariant, PTL DEF CountInv

\* The limit tested without a lock is passed by less than the number of
\* threads that can test it at once.
THEOREM LimitNearlyKeptAlways == Spec => []LimitNearlyKept
<1>1. CountInv => LimitNearlyKept
  BY HandCounts, MaxAllocatedAssumption
     DEF CountInv, LimitReserved, LimitNearlyKept, TypeOK
<1> QED
  BY <1>1, CountInvariant, PTL

-----------------------------------------------------------------------------
(* What becomes of the records, and what the unload leaves behind.         *)

\* The message body is in use only from the first copy to the end of the
\* send; the context is freed late in the unload, when no callback can run;
\* and the unload returns with an empty queue.
ShapeInv ==
    /\ body # <<>> => mon \in {"get", "copy", "send", "sending"}
    /\ ~ context <=> unload \in {"freed", "unloaded"}
    /\ unload \notin {"loaded", "closed"} => \A p \in Producers : prod[p] = "idle"
    /\ unload = "unloaded" => queue = <<>>

OrderInv == CountInv /\ ShapeInv /\ RecordsConserved

\* No step brings the context back, and the thread ends only with it there.
LEMMA OrderKept ==
    ASSUME RecordsConserved,
           context' \/ mon' = "done" => context \/ mon = "done",
           UNCHANGED <<queue, taken, body, appended, received, lost>>
    PROVE  RecordsConserved'
BY DEF RecordsConserved, InOrder, Dequeued, Settled

\* ShapeInv is kept by the steps of a producer ...
LEMMA ShapeProducer ==
    ASSUME TypeOK, ShapeInv, NEW p \in Producers, CheckLimit(p) \/ ProducerStep(p)
    PROVE  ShapeInv'
<1>1. CASE CheckLimit(p)
  BY <1>1 DEF CheckLimit, ShapeInv, TypeOK, recordVars, producerVars,
     monitorVars, unloadVars, outVars
<1>2. CASE AllocateRecord(p)
  BY <1>2 DEF AllocateRecord, ShapeInv, TypeOK, recordVars, producerVars,
     monitorVars, unloadVars, outVars
<1>3. CASE ReturnError(p)
  BY <1>3 DEF ReturnError, ShapeInv, TypeOK, recordVars, producerVars,
     monitorVars, unloadVars, outVars
<1>4. CASE InsertRecord(p)
  BY <1>4 DEF InsertRecord, ShapeInv, TypeOK, recordVars, producerVars,
     monitorVars, unloadVars, outVars
<1>5. CASE WakeMonitor(p)
  BY <1>5 DEF WakeMonitor, ShapeInv, TypeOK, recordVars, producerVars,
     monitorVars, unloadVars, outVars
<1> QED
  BY <1>1, <1>2, <1>3, <1>4, <1>5 DEF ProducerStep

\* ... and by every other step.
LEMMA ShapeOthers ==
    ASSUME TypeOK, ShapeInv,
           \/ MonitorStep \/ SendError
           \/ FgcMonitorPortConnectCallback \/ ClientCloses \/ DisconnectStep
           \/ ClosePorts \/ UnloadStep \/ WaitTimesOut
    PROVE  ShapeInv'
<1>1. CASE TestEndFlag
  BY <1>1 DEF TestEndFlag, ShapeInv, TypeOK, recordVars, producerVars,
     monitorVars, unloadVars, outVars
<1>2. CASE WaitWake
  BY <1>2 DEF WaitWake, ShapeInv, TypeOK, recordVars, producerVars,
     monitorVars, unloadVars, outVars
<1>3. CASE WaitConnected
  BY <1>3 DEF WaitConnected, ShapeInv, TypeOK, recordVars, producerVars,
     monitorVars, unloadVars, outVars
<1>4. CASE TestClientPort
  BY <1>4 DEF TestClientPort, ShapeInv, TypeOK, recordVars, producerVars,
     monitorVars, unloadVars, outVars
<1>5. CASE GetRecordsEnd
  BY <1>5 DEF GetRecordsEnd, ShapeInv, TypeOK, recordVars, producerVars,
     monitorVars, unloadVars, outVars
<1>6. CASE EnterSend
  BY <1>6 DEF EnterSend, ShapeInv, TypeOK, recordVars, producerVars,
     monitorVars, unloadVars, outVars
<1>7. CASE EnterSendStale
  BY <1>7 DEF EnterSendStale, ShapeInv, TypeOK, recordVars, producerVars,
     monitorVars, unloadVars, outVars
<1>8. CASE TestQueue
  BY <1>8 DEF TestQueue, ShapeInv, TypeOK, recordVars, producerVars,
     monitorVars, unloadVars, outVars
<1>9. CASE ClearWake
  BY <1>9 DEF ClearWake, ShapeInv, TypeOK, recordVars, producerVars,
     monitorVars, unloadVars, outVars
<1>10. CASE UseFreedContext
  BY <1>10 DEF UseFreedContext, ShapeInv, TypeOK, recordVars, producerVars,
     monitorVars, unloadVars, outVars
<1>11. CASE TakeRecord
  BY <1>11 DEF TakeRecord, ShapeInv, TypeOK, recordVars, producerVars,
     monitorVars, unloadVars, outVars
<1>12. CASE CopyRecord
  BY <1>12 DEF CopyRecord, ShapeInv, TypeOK, recordVars, producerVars,
     monitorVars, unloadVars, outVars
<1>13. CASE SendReceived
  BY <1>13 DEF SendReceived, ShapeInv, TypeOK, recordVars, producerVars,
     monitorVars, unloadVars, outVars
<1>14. CASE SendDisconnected
  BY <1>14 DEF SendDisconnected, ShapeInv, TypeOK, recordVars, producerVars,
     monitorVars, unloadVars, outVars
<1>15. CASE SendError
  BY <1>15 DEF SendError, ShapeInv, TypeOK, recordVars, producerVars,
     monitorVars, unloadVars, outVars
<1>16. CASE FgcMonitorPortConnectCallback
  BY <1>16 DEF FgcMonitorPortConnectCallback, ShapeInv, TypeOK, recordVars,
     producerVars, monitorVars, unloadVars, outVars
<1>17. CASE ClientCloses
  BY <1>17 DEF ClientCloses, ShapeInv, TypeOK, recordVars, producerVars,
     monitorVars, unloadVars, outVars
<1>18. CASE ClearConnected
  BY <1>18 DEF ClearConnected, ShapeInv, TypeOK, recordVars, producerVars,
     monitorVars, unloadVars, outVars
<1>19. CASE CloseClientPort
  BY <1>19 DEF CloseClientPort, ShapeInv, TypeOK, recordVars, producerVars,
     monitorVars, unloadVars, outVars
<1>20. CASE ForgetClientPort
  BY <1>20 DEF ForgetClientPort, ShapeInv, TypeOK, recordVars, producerVars,
     monitorVars, unloadVars, outVars
<1>21. CASE ClosePorts
  BY <1>21 DEF ClosePorts, ShapeInv, TypeOK, recordVars, producerVars,
     monitorVars, unloadVars, outVars
<1>22. CASE UnregisterFilter
  BY <1>22 DEF UnregisterFilter, ShapeInv, TypeOK, recordVars, producerVars,
     monitorVars, unloadVars, outVars
<1>23. CASE SetEndFlag
  BY <1>23 DEF SetEndFlag, ShapeInv, TypeOK, recordVars, producerVars,
     monitorVars, unloadVars, outVars
<1>24. CASE SetConnected
  BY <1>24 DEF SetConnected, ShapeInv, TypeOK, recordVars, producerVars,
     monitorVars, unloadVars, outVars
<1>25. CASE SetWake
  BY <1>25 DEF SetWake, ShapeInv, TypeOK, recordVars, producerVars,
     monitorVars, unloadVars, outVars
<1>26. CASE ThreadEnds
  BY <1>26 DEF ThreadEnds, ShapeInv, TypeOK, recordVars, producerVars,
     monitorVars, unloadVars, outVars
<1>27. CASE WaitTimesOut
  BY <1>27 DEF WaitTimesOut, ShapeInv, TypeOK, recordVars, producerVars,
     monitorVars, unloadVars, outVars
<1>28. CASE FreeMonitorStartContext
  BY <1>28 DEF FreeMonitorStartContext, ShapeInv, TypeOK, recordVars,
     producerVars, monitorVars, unloadVars, outVars
<1>29. CASE UnloadReturns
  BY <1>29 DEF UnloadReturns, ShapeInv, TypeOK, recordVars, producerVars,
     monitorVars, unloadVars, outVars
<1>30. CASE CleanupMonitorRecord
  BY <1>30 DEF CleanupMonitorRecord, ShapeInv, TypeOK, recordVars,
     producerVars, monitorVars, unloadVars, outVars
<1> QED
  BY <1>1, <1>2, <1>3, <1>4, <1>5, <1>6, <1>7, <1>8, <1>9, <1>10, <1>11,
     <1>12, <1>13, <1>14, <1>15, <1>16, <1>17, <1>18, <1>19, <1>20, <1>21,
     <1>22, <1>23, <1>24, <1>25, <1>26, <1>27, <1>28, <1>29, <1>30
     DEF MonitorStep, DisconnectStep, UnloadStep

\* The ids in a message that follows on the settled records are an interval.
LEMMA BodyInterval ==
    ASSUME TypeOK, Settled \in Nat,
           \A i \in 1 .. Len(body) : body[i].id = Settled + i
    PROVE  /\ Range(Ids(body)) = (Settled + 1) .. (Settled + Len(body))
           /\ \A i \in 1 .. Len(body) : Ids(body)[i] = Settled + i
<1>1. /\ Ids(body) \in Seq(Nat) /\ Len(Ids(body)) = Len(body)
      /\ \A i \in 1 .. Len(body) : Ids(body)[i] = body[i].id
  BY IdsType DEF TypeOK
<1>2. \A i \in 1 .. Len(body) : Ids(body)[i] = Settled + i
  BY <1>1
<1>3. Range(Ids(body)) = {Ids(body)[i] : i \in 1 .. Len(body)}
  BY <1>1 DEF Range
<1>4. Len(body) \in Nat
  BY DEF TypeOK
<1>5. ASSUME NEW n \in (Settled + 1) .. (Settled + Len(body))
      PROVE  n \in Range(Ids(body))
  <2>1. n - Settled \in 1 .. Len(body) /\ Settled + (n - Settled) = n
    BY <1>4, <1>5
  <2> QED
    BY <2>1, <1>2, <1>3
<1>6. ASSUME NEW n \in Range(Ids(body))
      PROVE  n \in (Settled + 1) .. (Settled + Len(body))
  <2>1. PICK k \in 1 .. Len(body) : n = Settled + k
    BY <1>2, <1>3, <1>6
  <2> QED
    BY <2>1, <1>4
<1> QED
  BY <1>2, <1>5, <1>6

\* A record joins the queue with the next number.
LEMMA OrderInsert ==
    ASSUME OrderInv, NEW p \in Producers, InsertRecord(p)
    PROVE  RecordsConserved'
<1>1. TypeOK /\ RecordsConserved
  BY DEF OrderInv, CountInv
<1>2. SUFFICES ASSUME context \/ mon = "done" PROVE InOrder'
  BY DEF InsertRecord, monitorVars, unloadVars, RecordsConserved
<1>3. InOrder
  BY <1>1, <1>2 DEF RecordsConserved
<1> DEFINE new == [id |-> appended + 1, size |-> size[p]]
<1>4. /\ queue' = Append(queue, new) /\ appended' = appended + 1
      /\ UNCHANGED <<taken, body, received, lost>>
  BY DEF InsertRecord, monitorVars, outVars
<1>5. /\ Len(queue) \in Nat /\ Len(body) \in Nat /\ appended \in Nat
      /\ Len(queue') = Len(queue) + 1
      /\ \A i \in 1 .. Len(queue) : queue'[i] = queue[i]
      /\ queue'[Len(queue) + 1] = new
  BY <1>1, <1>4 DEF TypeOK
<1>6. Dequeued' = Dequeued /\ Settled' = Settled
  BY <1>4, <1>5 DEF Dequeued, Settled
<1>7. \A i \in 1 .. Len(queue') : queue'[i].id = Dequeued + i
  <2> TAKE i \in 1 .. Len(queue')
  <2>1. CASE i \in 1 .. Len(queue)
    BY <2>1, <1>3, <1>5 DEF InOrder
  <2>2. CASE i = Len(queue) + 1
    BY <2>2, <1>5 DEF Dequeued
  <2> QED
    BY <2>1, <2>2, <1>5
<1> QED
  BY <1>3, <1>4, <1>6, <1>7 DEF InOrder

\* The head of the queue is the next record to be copied.
LEMMA OrderTake ==
    ASSUME OrderInv, TakeRecord
    PROVE  RecordsConserved'
<1>1. TypeOK /\ RecordsConserved /\ context
  BY DEF OrderInv, CountInv, TakeRecord
<1>2. InOrder
  BY <1>1 DEF RecordsConserved
<1>3. /\ queue # <<>> /\ queue' = Tail(queue) /\ taken' = Head(queue)
      /\ UNCHANGED <<body, appended, received, lost>>
  BY DEF TakeRecord, HeadFits, outVars
<1>4. taken = None
  BY DEF OrderInv, CountInv, TakenWhileCopying, TakeRecord
<1>5. /\ Len(queue) \in Nat /\ Len(queue) >= 1 /\ Len(queue') = Len(queue) - 1
      /\ \A i \in 1 .. Len(queue') : queue'[i] = queue[i + 1]
      /\ Head(queue) = queue[1] /\ queue[1] \in Record
      /\ Len(body) \in Nat /\ appended \in Nat
  BY <1>1, <1>3 DEF TypeOK
<1>6. taken' # None
  BY <1>3, <1>5, NoRecordAssumption
<1>7. Dequeued' = Dequeued + 1 /\ Settled' = Settled
  BY <1>3, <1>4, <1>5, <1>6 DEF Dequeued, Settled
<1>8. Dequeued \in Int
  BY <1>5 DEF Dequeued
<1>9. \A i \in 1 .. Len(queue') : queue'[i].id = Dequeued' + i
  <2> TAKE i \in 1 .. Len(queue')
  <2>1. i \in Nat /\ i + 1 \in 1 .. Len(queue) /\ queue'[i] = queue[i + 1]
    BY <1>5
  <2>2. queue[i + 1].id = Dequeued + (i + 1)
    BY <1>2, <2>1 DEF InOrder
  <2> QED
    BY <1>7, <1>8, <2>1, <2>2
<1>10. taken'.id = Dequeued'
  BY <1>2, <1>3, <1>5, <1>7, <1>8 DEF InOrder
<1> QED
  BY <1>2, <1>3, <1>7, <1>9, <1>10 DEF InOrder, RecordsConserved

\* It goes behind the records already in the message.
LEMMA OrderCopy ==
    ASSUME OrderInv, CopyRecord
    PROVE  RecordsConserved'
<1>1. TypeOK /\ RecordsConserved /\ context
  BY DEF OrderInv, CountInv, CopyRecord
<1>2. InOrder
  BY <1>1 DEF RecordsConserved
<1>3. /\ body' = Append(body, taken) /\ taken' = None
      /\ UNCHANGED <<queue, appended, received, lost>>
  BY DEF CopyRecord, outVars
<1>4. taken # None /\ taken \in Record
  BY <1>1 DEF OrderInv, CountInv, TakenWhileCopying, CopyRecord, TypeOK
<1>5. /\ Len(queue) \in Nat /\ appended \in Nat /\ Len(body) \in Nat
      /\ Len(body') = Len(body) + 1
      /\ \A i \in 1 .. Len(body) : body'[i] = body[i]
      /\ body'[Len(body) + 1] = taken
  BY <1>1, <1>3, <1>4 DEF TypeOK
<1>6. /\ Dequeued' = Dequeued /\ Settled' = Settled
      /\ Dequeued \in Int /\ Settled = Dequeued - 1 - Len(body)
  BY <1>3, <1>4, <1>5 DEF Dequeued, Settled
<1>7. \A i \in 1 .. Len(body') : body'[i].id = Settled' + i
  <2> TAKE i \in 1 .. Len(body')
  <2>1. CASE i \in 1 .. Len(body)
    BY <2>1, <1>2, <1>5, <1>6 DEF InOrder
  <2>2. CASE i = Len(body) + 1
    BY <2>2, <1>2, <1>4, <1>5, <1>6 DEF InOrder
  <2> QED
    BY <2>1, <2>2, <1>5
<1> QED
  BY <1>2, <1>3, <1>6, <1>7 DEF InOrder, RecordsConserved

\* What a send starts from: the message holds the records after the settled
\* ones, and there are none in between.
LEMMA SendInterval ==
    ASSUME OrderInv, mon = "sending", context
    PROVE  /\ InOrder /\ TypeOK /\ taken = None
           /\ Settled \in Nat /\ Len(body) \in Nat
           /\ Settled = Dequeued - Len(body) /\ Dequeued \in Int
           /\ Range(Ids(body)) = (Settled + 1) .. (Settled + Len(body))
           /\ \A i \in 1 .. Len(body) : Ids(body)[i] = Settled + i
<1>1. TypeOK /\ InOrder /\ taken = None
  BY DEF OrderInv, CountInv, TakenWhileCopying, RecordsConserved
<1>2. Settled \in Int /\ Len(body) \in Nat /\ Dequeued \in Int
  BY <1>1 DEF Settled, Dequeued, TypeOK
<1>3. Settled = Dequeued - Len(body)
  BY <1>1, <1>2 DEF Settled, Dequeued, TypeOK
<1>4. Settled \in Nat
  BY <1>1 DEF InOrder
<1> QED
  BY <1>1, <1>2, <1>3, <1>4, BodyInterval DEF InOrder

\* The client has received the message: its records come after the ones
\* received before.
LEMMA OrderReceived ==
    ASSUME OrderInv, SendReceived
    PROVE  RecordsConserved'
<1>1. mon = "sending" /\ context
  BY DEF SendReceived
<1>2. /\ InOrder /\ TypeOK /\ taken = None
      /\ Settled \in Nat /\ Len(body) \in Nat
      /\ Settled = Dequeued - Len(body) /\ Dequeued \in Int
      /\ Range(Ids(body)) = (Settled + 1) .. (Settled + Len(body))
      /\ \A i \in 1 .. Len(body) : Ids(body)[i] = Settled + i
  BY <1>1, SendInterval
<1>3. /\ received' = received \o Ids(body) /\ body' = <<>>
      /\ UNCHANGED <<queue, taken, appended, lost>>
  BY DEF SendReceived, recordVars
<1>4. /\ received \in Seq(Nat) /\ Ids(body) \in Seq(Nat)
      /\ Len(Ids(body)) = Len(body)
  BY <1>2, IdsType DEF TypeOK
<1>5. Range(received') = Range(received) \cup Range(Ids(body))
  BY <1>3, <1>4, RangeConcatenation
<1>6. Dequeued' = Dequeued /\ Settled' = Settled + Len(body)
  BY <1>2, <1>3 DEF Dequeued, Settled
<1>7. Range(received') \cup lost' = 1 .. Settled'
  BY <1>2, <1>3, <1>5, <1>6 DEF InOrder
<1>8. Range(received') \cap lost' = {}
  <2>1. lost \subseteq 1 .. Settled
    BY <1>2 DEF InOrder
  <2>2. Range(Ids(body)) \cap lost = {}
    BY <1>2, <2>1
  <2> QED
    BY <1>2, <1>3, <1>5, <2>2 DEF InOrder
<1>9. \A i, j \in 1 .. Len(received') : i < j => received'[i] < received'[j]
  <2>1. Len(received) \in Nat /\ Len(received') = Len(received) + Len(body)
    <3>1. Len(received) \in Nat
      BY <1>4, LenProperties
    <3>2. Len(received \o Ids(body)) = Len(received) + Len(Ids(body))
      BY ONLY <1>4, ConcatProperties
    <3> QED
      BY <1>3, <1>4, <3>1, <3>2
  <2>2. ASSUME NEW i \in 1 .. Len(received)
        PROVE  received'[i] = received[i] /\ received[i] \in 1 .. Settled
    <3>1. received'[i] = received[i]
      BY <1>3, <1>4, <2>1, ConcatProperties
    <3>2. received[i] \in Range(received)
      BY <1>4, <2>1 DEF Range
    <3> QED
      BY <1>2, <3>1, <3>2 DEF InOrder
  <2>3. ASSUME NEW i \in (Len(received) + 1) .. Len(received')
        PROVE  received'[i] = Settled + (i - Len(received))
    <3>1. i - Len(received) \in 1 .. Len(body)
      BY <1>2, <2>1
    <3>2. received'[i] = Ids(body)[i - Len(received)]
      BY <1>3, <1>4, <2>1, <3>1, ConcatProperties
    <3> QED
      BY <1>2, <3>1, <3>2
  <2> SUFFICES ASSUME NEW i \in 1 .. Len(received'), NEW j \in 1 .. Len(received'),
                      i < j
               PROVE  received'[i] < received'[j]
    OBVIOUS
  <2>4. i \in Int /\ j \in Int /\ Settled \in Int /\ Len(received) \in Int
    BY <1>2, <2>1
  <2>5. CASE j <= Len(received)
    <3>1. i \in 1 .. Len(received) /\ j \in 1 .. Len(received)
      BY <2>1, <2>4, <2>5
    <3>2. received[i] < received[j]
      BY <1>2, <3>1 DEF InOrder
    <3> QED
      BY <2>2, <3>1, <3>2
  <2>6. CASE i <= Len(received) /\ ~ (j <= Len(received))
    <3>1. i \in 1 .. Len(received) /\ j \in (Len(received) + 1) .. Len(received')
      BY <2>1, <2>4, <2>6
    <3>2. received'[i] \in 1 .. Settled
      BY <2>2, <3>1
    <3>3. received'[j] = Settled + (j - Len(received))
      BY <2>3, <3>1
    <3> QED
      BY <2>4, <2>6, <3>2, <3>3
  <2>7. CASE ~ (i <= Len(received))
    <3>1. /\ i \in (Len(received) + 1) .. Len(received')
          /\ j \in (Len(received) + 1) .. Len(received')
      BY <2>1, <2>4, <2>7
    <3>2. /\ received'[i] = Settled + (i - Len(received))
          /\ received'[j] = Settled + (j - Len(received))
      BY <2>3, <3>1
    <3> QED
      BY <2>4, <3>2
  <2> QED
    BY <2>5, <2>6, <2>7
<1>10. Settled' \in Nat /\ Len(body') = 0
  BY <1>2, <1>3, <1>6
<1> QED
  BY <1>2, <1>3, <1>6, <1>7, <1>8, <1>9, <1>10 DEF InOrder, RecordsConserved

\* The message was not sent: its records are lost.
LEMMA OrderLost ==
    ASSUME OrderInv, SendDisconnected \/ SendError
    PROVE  RecordsConserved'
<1>1. mon = "sending" /\ context
  BY DEF SendDisconnected, SendError
<1>2. /\ InOrder /\ TypeOK /\ taken = None
      /\ Settled \in Nat /\ Len(body) \in Nat
      /\ Settled = Dequeued - Len(body) /\ Dequeued \in Int
      /\ Range(Ids(body)) = (Settled + 1) .. (Settled + Len(body))
  BY <1>1, SendInterval
<1>3. /\ lost' = lost \cup Range(Ids(body)) /\ body' = <<>>
      /\ UNCHANGED <<queue, taken, appended, received>>
  BY DEF SendDisconnected, SendError, recordVars
<1>4. Dequeued' = Dequeued /\ Settled' = Settled + Len(body)
  BY <1>2, <1>3 DEF Dequeued, Settled
<1>5. Range(received') \cup lost' = 1 .. Settled'
  BY <1>2, <1>3, <1>4 DEF InOrder
<1>6. Range(received') \cap lost' = {}
  <2>1. Range(received) \subseteq 1 .. Settled
    BY <1>2 DEF InOrder
  <2>2. Range(received) \cap Range(Ids(body)) = {}
    BY <1>2, <2>1
  <2> QED
    BY <1>2, <1>3, <2>2 DEF InOrder
<1>7. Settled' \in Nat /\ Len(body') = 0
  BY <1>2, <1>3, <1>4
<1> QED
  BY <1>2, <1>3, <1>4, <1>5, <1>6, <1>7 DEF InOrder, RecordsConserved

\* FgcCleanupMonitorRecords loses the records one by one, from the head.
LEMMA OrderCleanup ==
    ASSUME OrderInv, CleanupMonitorRecord
    PROVE  RecordsConserved'
<1>1. TypeOK /\ RecordsConserved /\ ShapeInv /\ unload = "freed" /\ ~ context
  BY DEF OrderInv, CountInv, ShapeInv, CleanupMonitorRecord
<1>2. UNCHANGED <<context, mon>>
  BY DEF CleanupMonitorRecord, unloadVars, monitorVars
<1>3. SUFFICES ASSUME mon = "done" PROVE InOrder'
  BY <1>1, <1>2 DEF RecordsConserved
<1>4. InOrder /\ taken = None /\ body = <<>>
  BY <1>1, <1>3 DEF RecordsConserved, ShapeInv, OrderInv, CountInv,
     TakenWhileCopying
<1>5. /\ queue # <<>> /\ queue' = Tail(queue) /\ lost' = lost \cup {Head(queue).id}
      /\ UNCHANGED <<taken, body, appended, received>>
  BY DEF CleanupMonitorRecord, monitorVars
<1>6. /\ Len(queue) \in Nat /\ Len(queue) >= 1 /\ Len(queue') = Len(queue) - 1
      /\ \A i \in 1 .. Len(queue') : queue'[i] = queue[i + 1]
      /\ Head(queue) = queue[1] /\ appended \in Nat /\ Len(body) = 0
  BY <1>1, <1>4, <1>5 DEF TypeOK
<1>7. /\ Dequeued \in Int /\ Settled = Dequeued
      /\ Dequeued' = Dequeued + 1 /\ Settled' = Dequeued + 1
  BY <1>4, <1>5, <1>6 DEF Dequeued, Settled
<1>8. Head(queue).id = Dequeued + 1
  BY <1>4, <1>6, <1>7 DEF InOrder
<1>9. \A i \in 1 .. Len(queue') : queue'[i].id = Dequeued' + i
  <2> TAKE i \in 1 .. Len(queue')
  <2>1. i \in Nat /\ i + 1 \in 1 .. Len(queue) /\ queue'[i] = queue[i + 1]
    BY <1>6
  <2>2. queue[i + 1].id = Dequeued + (i + 1)
    BY <1>4, <2>1 DEF InOrder
  <2> QED
    BY <1>7, <2>1, <2>2
<1>10. Settled' \in Nat /\ Range(received') \cup lost' = 1 .. Settled'
  <2>1. Settled \in Nat /\ Range(received) \cup lost = 1 .. Settled
    BY <1>4 DEF InOrder
  <2> QED
    BY <1>5, <1>7, <1>8, <2>1
<1>11. Range(received') \cap lost' = {}
  <2>1. Range(received) \subseteq 1 .. Settled /\ Settled \in Nat
    BY <1>4 DEF InOrder
  <2>2. Head(queue).id \notin Range(received)
    BY <1>7, <1>8, <2>1
  <2> QED
    BY <1>4, <1>5, <2>2 DEF InOrder
<1> QED
  BY <1>4, <1>5, <1>6, <1>9, <1>10, <1>11 DEF InOrder

\* The steps that move no record.
LEMMA OrderQuiet ==
    ASSUME OrderInv,
           \/ TestEndFlag \/ WaitWake \/ WaitConnected \/ TestClientPort
           \/ GetRecordsEnd \/ EnterSend \/ EnterSendStale \/ TestQueue
           \/ ClearWake \/ UseFreedContext \/ FgcMonitorPortConnectCallback
           \/ ClientCloses \/ ClearConnected \/ CloseClientPort
           \/ ForgetClientPort \/ ClosePorts \/ UnregisterFilter
           \/ SetEndFlag \/ SetConnected \/ SetWake \/ ThreadEnds
           \/ WaitTimesOut \/ FreeMonitorStartContext \/ UnloadReturns
    PROVE  RecordsConserved'
<1>1. UNCHANGED <<queue, taken, body, appended, received, lost>>
  BY DEF TestEndFlag, WaitWake, WaitConnected, TestClientPort, GetRecordsEnd,
     EnterSend, EnterSendStale, TestQueue, ClearWake, UseFreedContext,
     FgcMonitorPortConnectCallback, ClientCloses, ClearConnected,
     CloseClientPort, ForgetClientPort, ClosePorts, UnregisterFilter,
     SetEndFlag, SetConnected, SetWake, ThreadEnds, WaitTimesOut,
     FreeMonitorStartContext, UnloadReturns, recordVars, monitorVars, outVars
<1>2. context' \/ mon' = "done" => context \/ mon = "done"
  BY DEF TestEndFlag, WaitWake, WaitConnected, TestClientPort, GetRecordsEnd,
     EnterSend, EnterSendStale, TestQueue, ClearWake, UseFreedContext,
     FgcMonitorPortConnectCallback, ClientCloses, ClearConnected,
     CloseClientPort, ForgetClientPort, ClosePorts, UnregisterFilter,
     SetEndFlag, SetConnected, SetWake, ThreadEnds, WaitTimesOut,
     FreeMonitorStartContext, UnloadReturns, unloadVars, monitorVars
<1> QED
  BY <1>1, <1>2, OrderKept DEF OrderInv

\* The invariant holds in every behaviour of the monitor.
THEOREM OrderInvariant == Spec => []OrderInv
<1>1. Init => ShapeInv /\ RecordsConserved
  <2> SUFFICES ASSUME Init PROVE ShapeInv /\ RecordsConserved
    OBVIOUS
  <2>1. ShapeInv
    BY DEF Init, ShapeInv
  <2>a. Len(queue) = 0 /\ Len(body) = 0 /\ Len(received) = 0
    BY DEF Init
  <2>b. appended = 0 /\ taken = None /\ lost = {} /\ received = <<>>
    BY DEF Init
  <2>2. Len(queue) = 0 /\ Len(body) = 0 /\ Len(received) = 0 /\ Settled = 0
    BY <2>a, <2>b DEF Settled, Dequeued
  <2>3. Range(received) = {} /\ lost = {} /\ taken = None
    BY <2>b DEF Range
  <2> QED
    BY <2>1, <2>2, <2>3 DEF RecordsConserved, InOrder
<1>2. CountInv /\ CountInv' /\ ShapeInv /\ RecordsConserved /\ [Next]_vars
         => ShapeInv' /\ RecordsConserved'
  <2> SUFFICES ASSUME CountInv, ShapeInv, RecordsConserved, [Next]_vars
               PROVE  ShapeInv' /\ RecordsConserved'
    OBVIOUS
  <2>a. TypeOK /\ OrderInv
    BY DEF CountInv, OrderInv
  <2>1. ASSUME NEW p \in Producers, CheckLimit(p) \/ ProducerStep(p)
        PROVE  ShapeInv' /\ RecordsConserved'
    <3>1. ShapeInv'
      BY <2>a, <2>1, ShapeProducer
    <3>2. CASE InsertRecord(p)
      BY <2>a, <3>1, <3>2, OrderInsert
    <3>3. CASE ~ InsertRecord(p)
      <4>1. UNCHANGED <<queue, taken, body, appended, received, lost, context, mon>>
        BY <2>1, <3>3 DEF ProducerStep, CheckLimit, AllocateRecord, ReturnError,
           WakeMonitor, recordVars, monitorVars, unloadVars, outVars
      <4> QED
        BY <3>1, <4>1, OrderKept
    <3> QED
      BY <3>2, <3>3
  <2>2. ASSUME \/ MonitorStep \/ SendError
               \/ FgcMonitorPortConnectCallback \/ ClientCloses \/ DisconnectStep
               \/ ClosePorts \/ UnloadStep \/ WaitTimesOut
        PROVE  ShapeInv' /\ RecordsConserved'
    <3>1. ShapeInv'
      BY <2>a, <2>2, ShapeOthers
    <3>2. RecordsConserved'
      BY <2>a, <2>2, OrderTake, OrderCopy, OrderReceived, OrderLost,
         OrderCleanup, OrderQuiet DEF MonitorStep, DisconnectStep, UnloadStep
    <3> QED
      BY <3>1, <3>2
  <2>3. CASE Halted \/ UNCHANGED vars
    <3>1. UNCHANGED vars
      BY <2>3 DEF Halted
    <3>2. ShapeInv'
      BY <3>1 DEF ShapeInv, vars, recordVars, producerVars, monitorVars,
         unloadVars
    <3>3. UNCHANGED <<queue, taken, body, appended, received, lost, context, mon>>
      BY <3>1 DEF vars, recordVars, monitorVars, unloadVars, outVars
    <3> QED
      BY <3>2, <3>3, OrderKept
  <2> QED
    BY <2>1, <2>2, <2>3 DEF Next
<1> QED
  BY <1>1, <1>2, CountInvariant, PTL DEF Spec, OrderInv

\* No record is duplicated or reordered, and none is lost but by a send that
\* failed or by the unload.
THEOREM RecordsConservedAlways == Spec => []RecordsConserved
BY OrderInvariant, PTL DEF OrderInv

\* An unload that waited for the monitor thread has freed every record.
THEOREM UnloadFreesRecordsAlways == Spec => []UnloadFreesRecords
<1>1. OrderInv => UnloadFreesRecords
  <2> SUFFICES ASSUME OrderInv, unload = "unloaded", mon = "done"
               PROVE  allocated = 0
    BY DEF UnloadFreesRecords
  <2>1. InHand = {} /\ queue = <<>>
    BY DEF OrderInv, ShapeInv, InHand
  <2>2. taken = None
    BY DEF OrderInv, CountInv, TakenWhileCopying
  <2>3. Cardinality(InHand) = 0 /\ Len(queue) = 0
    BY <2>1, FS_EmptySet
  <2> QED
    BY <2>2, <2>3 DEF OrderInv, CountInv, AllocationExact
<1> QED
  BY <1>1, OrderInvariant, PTL
=============================================================================
