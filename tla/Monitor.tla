------------------------------ MODULE Monitor ------------------------------
(***************************************************************************)
(* The monitor of FileGuardCore (FileGuardCore/Monitor.c and Monitor.h, the*)
(* monitor port of Communication.c, FgcUnload of FileGuardCore.c).         *)
(*                                                                         *)
(* Callbacks that match a rule (the producers) append a record to a queue  *)
(* and set an event.  The monitor thread waits for that event and for a    *)
(* connected client, moves as many records as fit into one message, and    *)
(* sends it.  A client connects and disconnects at any time, and the       *)
(* driver may be unloaded.                                                 *)
(*                                                                         *)
(* Each action ends at the next word that another thread reads or writes:  *)
(* the counter of allocated records, the queue, one of the two events, the *)
(* client port, the end flag.                                              *)
(***************************************************************************)
EXTENDS Integers, Sequences, FiniteSets, Functions

CONSTANTS
    Producers,      \* threads inside FgcRecordRuleMatched
    Sizes,          \* the sizes a record can have
    BufferSize,     \* FG_MONITOR_SEND_RECORD_BUFFER_SIZE
    MaxAllocated,   \* Globals.MaxMonitorRecordsAllocated
    MaxRecords,     \* bound: the records appended in a behaviour
    None            \* no record

ASSUME ProducersAssumption == IsFiniteSet(Producers) /\ Producers # {}
ASSUME SizesAssumption == Sizes \subseteq Nat \ {0}
ASSUME BufferSizeAssumption == BufferSize \in Nat \ {0}
ASSUME MaxAllocatedAssumption == MaxAllocated \in Nat \ {0}
ASSUME MaxRecordsAssumption == MaxRecords \in Nat

\* A record is known by the order in which it was appended.
Record == [id : Nat \ {0}, size : Sizes]

ASSUME NoRecordAssumption == None \notin Record

VARIABLES
    allocated,  \* Globals.MonitorRecordsAllocated
    queue,      \* Globals.MonitorRecordsQueue
    appended,   \* how many records were ever appended to it
    prod,       \* where each producer is
    size,       \* the size of the record it has filled in
    mon,        \* where the monitor thread is
    status,     \* its local status
    body,       \* the records copied into the message body
    room,       \* OutputBufferSize: the bytes left in it
    taken,      \* the record removed from the queue and not copied yet
    wake,       \* EventWakeMonitor
    connected,  \* EventPortConnected
    port,       \* what MonitorContext->ClientPort points to
    client,     \* the connection, as the filter manager knows it
    unload,     \* where FgcUnload is
    endFlag,    \* MonitorContext->EndMonitorFlag
    context,    \* MonitorContext is allocated
    received,   \* the ids the client has received, in order
    lost,       \* the ids of records that were freed without being received
    fault       \* the undefined access that ended the behaviour, if any

recordVars == <<allocated, queue, appended>>
producerVars == <<prod, size>>
monitorVars == <<mon, status, body, room, taken>>
eventVars == <<wake, connected>>
portVars == <<port, client>>
unloadVars == <<unload, endFlag, context>>
outVars == <<received, lost>>
vars == <<recordVars, producerVars, monitorVars, eventVars, portVars,
          unloadVars, outVars, fault>>

Init ==
    /\ allocated = 0
    /\ queue = <<>>
    /\ appended = 0
    /\ prod = [p \in Producers |-> "idle"]
    /\ size = [p \in Producers |-> 0]
    /\ mon = "loop"
    /\ status = "success"
    /\ body = <<>>
    /\ room = BufferSize
    /\ taken = None
    /\ wake = FALSE
    /\ connected = FALSE
    /\ port = "null"
    /\ client = "none"
    /\ unload = "loaded"
    /\ endFlag = FALSE
    /\ context = TRUE
    /\ received = <<>>
    /\ lost = {}
    /\ fault = "none"

-----------------------------------------------------------------------------
(* FgcRecordRuleMatched.                                                   *)

\* Mutant: the limit itself is still accepted.
BelowLimitOffByOne == allocated <= MaxAllocated

BelowLimit == allocated < MaxAllocated

\* A callback of the registered filter asks for a record.  At the limit it
\* gets STATUS_NO_MORE_ENTRIES.
CheckLimit(p) ==
    /\ prod[p] = "idle"
    /\ unload \in {"loaded", "closed"}
    /\ appended + Cardinality({q \in Producers : prod[q] \in {"checked", "filled"}})
          < MaxRecords
    /\ prod' = [prod EXCEPT ![p] = IF BelowLimit THEN "checked" ELSE "refused"]
    /\ UNCHANGED <<recordVars, size, monitorVars, eventVars, portVars,
                   unloadVars, outVars, fault>>

\* The entry is allocated, counted and filled in.
AllocateRecord(p) ==
    /\ prod[p] = "checked"
    /\ allocated' = allocated + 1
    /\ \E n \in Sizes : size' = [size EXCEPT ![p] = n]
    /\ prod' = [prod EXCEPT ![p] = "filled"]
    /\ UNCHANGED <<queue, appended, monitorVars, eventVars, portVars,
                   unloadVars, outVars, fault>>

\* The allocation failed, or the limit was reached: the error is returned.
ReturnError(p) ==
    /\ prod[p] \in {"checked", "refused"}
    /\ prod' = [prod EXCEPT ![p] = "idle"]
    /\ UNCHANGED <<recordVars, size, monitorVars, eventVars, portVars,
                   unloadVars, outVars, fault>>

\* ExInterlockedInsertTailList.
InsertRecord(p) ==
    /\ prod[p] = "filled"
    /\ queue' = Append(queue, [id |-> appended + 1, size |-> size[p]])
    /\ appended' = appended + 1
    /\ size' = [size EXCEPT ![p] = 0]
    /\ prod' = [prod EXCEPT ![p] = "inserted"]
    /\ UNCHANGED <<allocated, monitorVars, eventVars, portVars, unloadVars,
                   outVars, fault>>

\* KeSetEvent(&Globals.MonitorContext->EventWakeMonitor).
WakeMonitor(p) ==
    /\ prod[p] = "inserted"
    /\ wake' = TRUE
    /\ prod' = [prod EXCEPT ![p] = "idle"]
    /\ UNCHANGED <<recordVars, size, monitorVars, connected, portVars,
                   unloadVars, outVars, fault>>

-----------------------------------------------------------------------------
(* FgcMonitorThreadRoutine and FgcGetRecords.  All of it works in          *)
(* MonitorContext, so no step is defined once that is freed.               *)

TestEndFlag ==
    /\ mon = "loop" /\ context
    /\ mon' = IF endFlag THEN "done" ELSE "wait_wake"
    /\ UNCHANGED <<recordVars, producerVars, status, body, room, taken, eventVars,
                   portVars, unloadVars, outVars, fault>>

WaitWake ==
    /\ mon = "wait_wake" /\ context
    /\ wake
    /\ mon' = "wait_port"
    /\ UNCHANGED <<recordVars, producerVars, status, body, room, taken, eventVars,
                   portVars, unloadVars, outVars, fault>>

WaitConnected ==
    /\ mon = "wait_port" /\ context
    /\ connected
    /\ mon' = "check_port"
    /\ UNCHANGED <<recordVars, producerVars, status, body, room, taken, eventVars,
                   portVars, unloadVars, outVars, fault>>

TestClientPort ==
    /\ mon = "check_port" /\ context
    /\ IF port = "null"
       THEN mon' = "test" /\ status' = "port_disconnected" /\ UNCHANGED room
       ELSE mon' = "get" /\ room' = BufferSize /\ UNCHANGED status
    /\ UNCHANGED <<recordVars, producerVars, body, taken, eventVars, portVars,
                   unloadVars, outVars, fault>>

\* Mutant: the record is taken while there is any room.
HeadFitsAnyRoom == queue # <<>> /\ room > 0

HeadFits == queue # <<>> /\ room > 0 /\ Head(queue).size <= room

\* Under the spin lock: the head is removed ...
TakeRecord ==
    /\ mon = "get" /\ context
    /\ HeadFits
    /\ taken' = Head(queue)
    /\ queue' = Tail(queue)
    /\ mon' = "copy"
    /\ UNCHANGED <<allocated, appended, producerVars, status, body, room,
                   eventVars, portVars, unloadVars, outVars, fault>>

\* Mutant: the entry is put back at the tail.
GetRecordsEndRequeue ==
    /\ mon = "get" /\ context
    /\ ~ HeadFits
    /\ queue' = IF queue = <<>> THEN queue ELSE Append(Tail(queue), Head(queue))
    /\ status' = IF body # <<>> THEN "success"
                 ELSE IF queue # <<>> THEN "buffer_too_small"
                 ELSE "unsuccessful"
    /\ mon' = IF status' = "buffer_too_small" THEN "test" ELSE "send"
    /\ UNCHANGED <<allocated, appended, producerVars, body, room, taken, eventVars,
                   portVars, unloadVars, outVars, fault>>

\* ... or put back at once, and the loop ends.  A record that does not fit
\* into an empty buffer is STATUS_BUFFER_TOO_SMALL and skips the send.
GetRecordsEnd ==
    /\ mon = "get" /\ context
    /\ ~ HeadFits
    /\ status' = IF body # <<>> THEN "success"
                 ELSE IF queue # <<>> THEN "buffer_too_small"
                 ELSE "unsuccessful"
    /\ mon' = IF status' = "buffer_too_small" THEN "test" ELSE "send"
    /\ UNCHANGED <<recordVars, producerVars, body, room, taken, eventVars, portVars,
                   unloadVars, outVars, fault>>

\* Mutant: the entry is freed without being discounted.
CopyRecordLeaks ==
    /\ mon = "copy" /\ context
    /\ body' = Append(body, taken)
    /\ room' = room - taken.size
    /\ taken' = None
    /\ mon' = "get"
    /\ UNCHANGED <<recordVars, producerVars, status, eventVars, portVars,
                   unloadVars, outVars, fault>>

\* Outside the lock the record is copied, then freed and discounted.
CopyRecord ==
    /\ mon = "copy" /\ context
    /\ body' = Append(body, taken)
    /\ room' = room - taken.size
    /\ taken' = None
    /\ allocated' = allocated - 1
    /\ mon' = "get"
    /\ UNCHANGED <<queue, appended, producerVars, status, eventVars, portVars,
                   unloadVars, outVars, fault>>

\* FltSendMessage takes hold of the port; a NULL one is not an error of the
\* caller.
EnterSend ==
    /\ mon = "send" /\ context
    /\ port # "closed" /\ unload \in {"loaded", "closed"}
    /\ mon' = "sending"
    /\ UNCHANGED <<recordVars, producerVars, status, body, room, taken, eventVars,
                   portVars, unloadVars, outVars, fault>>

\* It has no defined result for a port that was closed through the other
\* copy of the pointer, or for a filter that is no longer registered.
EnterSendStale ==
    /\ mon = "send" /\ context
    /\ port = "closed" \/ unload \notin {"loaded", "closed"}
    /\ fault' = "stale_port"
    /\ UNCHANGED <<recordVars, producerVars, monitorVars, eventVars, portVars,
                   unloadVars, outVars>>

Ids(s) == [i \in DOMAIN s |-> s[i].id]

\* The client takes the message.
SendReceived ==
    /\ mon = "sending" /\ context
    /\ port = "open" /\ client = "connected"
    /\ received' = received \o Ids(body)
    /\ body' = <<>>
    /\ status' = "success"
    /\ mon' = "test"
    /\ UNCHANGED <<recordVars, producerVars, room, taken, eventVars, portVars,
                   unloadVars, lost, fault>>

\* The client is gone: the records of the message are lost.
SendDisconnected ==
    /\ mon = "sending" /\ context
    /\ port # "open" \/ client # "connected"
    /\ lost' = lost \cup Range(Ids(body))
    /\ body' = <<>>
    /\ status' = "port_disconnected"
    /\ mon' = "test"
    /\ UNCHANGED <<recordVars, producerVars, room, taken, eventVars, portVars,
                   unloadVars, received, fault>>

\* Another error, for want of memory: the records are lost as well.
SendError ==
    /\ mon = "sending" /\ context
    /\ lost' = lost \cup Range(Ids(body))
    /\ body' = <<>>
    /\ status' = "error"
    /\ mon' = "test"
    /\ UNCHANGED <<recordVars, producerVars, room, taken, eventVars, portVars,
                   unloadVars, received, fault>>

\* IsListEmpty, without the lock ...
TestQueue ==
    /\ mon = "test" /\ context
    /\ mon' = IF queue = <<>> /\ status = "success" THEN "clear" ELSE "loop"
    /\ UNCHANGED <<recordVars, producerVars, status, body, room, taken, eventVars,
                   portVars, unloadVars, outVars, fault>>

\* ... and KeClearEvent.
ClearWake ==
    /\ mon = "clear" /\ context
    /\ wake' = FALSE
    /\ mon' = "loop"
    /\ UNCHANGED <<recordVars, producerVars, status, body, room, taken, connected,
                   portVars, unloadVars, outVars, fault>>

UseFreedContext ==
    /\ mon # "done" /\ ~ context
    /\ fault' = "freed_context"
    /\ UNCHANGED <<recordVars, producerVars, monitorVars, eventVars, portVars,
                   unloadVars, outVars>>

-----------------------------------------------------------------------------
(* The monitor port.  It accepts one connection at a time; the next one is *)
(* accepted when the disconnect callback of the last has returned.         *)

FgcMonitorPortConnectCallback ==
    /\ unload = "loaded"
    /\ client = "none"
    /\ client' = "connected"
    /\ port' = "open"
    /\ connected' = TRUE
    /\ UNCHANGED <<recordVars, producerVars, monitorVars, wake, unloadVars,
                   outVars, fault>>

\* The client closes its handle, or ends.
ClientCloses ==
    /\ client = "connected"
    /\ client' = "gone"
    /\ UNCHANGED <<recordVars, producerVars, monitorVars, eventVars, port,
                   unloadVars, outVars, fault>>

\* FgcMonitorPortDisconnectCallback: KeClearEvent, ...
ClearConnected ==
    /\ client = "gone"
    /\ connected' = FALSE
    /\ client' = "cleared"
    /\ UNCHANGED <<recordVars, producerVars, monitorVars, wake, port,
                   unloadVars, outVars, fault>>

\* ... FltCloseClientPort on Globals.MonitorClientPort, ...
CloseClientPort ==
    /\ client = "cleared"
    /\ port' = "closed"
    /\ client' = "closed"
    /\ UNCHANGED <<recordVars, producerVars, monitorVars, eventVars,
                   unloadVars, outVars, fault>>

\* ... and the copy in MonitorContext is reset.
ForgetClientPort ==
    /\ client = "closed"
    /\ port' = "null"
    /\ client' = "none"
    /\ UNCHANGED <<recordVars, producerVars, monitorVars, eventVars,
                   unloadVars, outVars, fault>>

-----------------------------------------------------------------------------
(* FgcUnload.                                                              *)

\* FltCloseCommunicationPort and FltCloseClientPort.  The filter manager
\* calls the disconnect callback of a client that is still connected.
ClosePorts ==
    /\ unload = "loaded"
    /\ unload' = "closed"
    /\ port' = IF client \in {"connected", "gone", "cleared"} THEN "closed"
                                                            ELSE port
    /\ client' = IF client = "connected" THEN "gone" ELSE client
    /\ UNCHANGED <<recordVars, producerVars, monitorVars, eventVars, endFlag,
                   context, outVars, fault>>

\* FltUnregisterFilter returns when no callback is running any more.
UnregisterFilter ==
    /\ unload = "closed"
    /\ \A p \in Producers : prod[p] = "idle"
    /\ client = "none"
    /\ unload' = "unregistered"
    /\ UNCHANGED <<recordVars, producerVars, monitorVars, eventVars, portVars,
                   endFlag, context, outVars, fault>>

SetEndFlag ==
    /\ unload = "unregistered"
    /\ endFlag' = TRUE
    /\ unload' = "flagged"
    /\ UNCHANGED <<recordVars, producerVars, monitorVars, eventVars, portVars,
                   context, outVars, fault>>

SetConnected ==
    /\ unload = "flagged"
    /\ connected' = TRUE
    /\ unload' = "released"
    /\ UNCHANGED <<recordVars, producerVars, monitorVars, wake, portVars,
                   endFlag, context, outVars, fault>>

\* Mutant: only the other event is set.
SetWakeForgotten ==
    /\ unload = "released"
    /\ unload' = "waiting"
    /\ UNCHANGED <<recordVars, producerVars, monitorVars, eventVars, portVars,
                   endFlag, context, outVars, fault>>

SetWake ==
    /\ unload = "released"
    /\ wake' = TRUE
    /\ unload' = "waiting"
    /\ UNCHANGED <<recordVars, producerVars, monitorVars, connected, portVars,
                   endFlag, context, outVars, fault>>

ThreadEnds ==
    /\ unload = "waiting"
    /\ mon = "done"
    /\ unload' = "waited"
    /\ UNCHANGED <<recordVars, producerVars, monitorVars, eventVars, portVars,
                   endFlag, context, outVars, fault>>

\* STATUS_TIMEOUT after 100 ms is logged and taken for a success.
WaitTimesOut ==
    /\ unload = "waiting"
    /\ unload' = "waited"
    /\ UNCHANGED <<recordVars, producerVars, monitorVars, eventVars, portVars,
                   endFlag, context, outVars, fault>>

FreeMonitorStartContext ==
    /\ unload = "waited"
    /\ context' = FALSE
    /\ unload' = "freed"
    /\ UNCHANGED <<recordVars, producerVars, monitorVars, eventVars, portVars,
                   endFlag, outVars, fault>>

\* FgcCleanupMonitorRecords.
CleanupMonitorRecord ==
    /\ unload = "freed"
    /\ queue # <<>>
    /\ queue' = Tail(queue)
    /\ lost' = lost \cup {Head(queue).id}
    /\ allocated' = allocated - 1
    /\ UNCHANGED <<appended, producerVars, monitorVars, eventVars, portVars,
                   unloadVars, received, fault>>

\* Mutant: the queue is not emptied.
UnloadReturnsEarly ==
    /\ unload = "freed"
    /\ unload' = "unloaded"
    /\ UNCHANGED <<recordVars, producerVars, monitorVars, eventVars, portVars,
                   endFlag, context, outVars, fault>>

UnloadReturns ==
    /\ unload = "freed"
    /\ queue = <<>>
    /\ unload' = "unloaded"
    /\ UNCHANGED <<recordVars, producerVars, monitorVars, eventVars, portVars,
                   endFlag, context, outVars, fault>>

\* Nothing is left to run, or nothing is known of what follows.
Halted ==
    /\ fault # "none" \/ (unload = "unloaded" /\ mon = "done")
    /\ UNCHANGED vars

-----------------------------------------------------------------------------
ProducerStep(p) ==
    \/ AllocateRecord(p) \/ ReturnError(p)
    \/ InsertRecord(p) \/ WakeMonitor(p)

MonitorStep ==
    \/ TestEndFlag \/ WaitWake \/ WaitConnected \/ TestClientPort
    \/ TakeRecord \/ CopyRecord \/ GetRecordsEnd
    \/ EnterSend \/ EnterSendStale \/ SendReceived \/ SendDisconnected
    \/ TestQueue \/ ClearWake
    \/ UseFreedContext

DisconnectStep == ClearConnected \/ CloseClientPort \/ ForgetClientPort

\* What FgcUnload does once it has begun, if it need not give up waiting.
UnloadStep ==
    \/ UnregisterFilter
    \/ SetEndFlag \/ SetConnected \/ SetWake
    \/ ThreadEnds \/ FreeMonitorStartContext
    \/ CleanupMonitorRecord \/ UnloadReturns

Next ==
    \/ /\ fault = "none"
       /\ \/ \E p \in Producers : CheckLimit(p) \/ ProducerStep(p)
          \/ MonitorStep \/ SendError
          \/ FgcMonitorPortConnectCallback \/ ClientCloses \/ DisconnectStep
          \/ ClosePorts \/ UnloadStep \/ WaitTimesOut
    \/ Halted

Spec == Init /\ [][Next]_vars

\* Threads that can run do, a connected client receives the messages sent to
\* it, and the filter manager runs the disconnect callback of a client that
\* is gone.  Nobody has to ask for a record, to connect, or to unload, and
\* neither a failing send nor the end of the 100 ms is certain.
FairSpec ==
    /\ Spec
    /\ \A p \in Producers : WF_vars(fault = "none" /\ ProducerStep(p))
    /\ WF_vars(fault = "none" /\ MonitorStep)
    /\ WF_vars(fault = "none" /\ DisconnectStep)
    /\ WF_vars(fault = "none" /\ UnloadStep)

-----------------------------------------------------------------------------
(* Properties.                                                             *)

\* Types; neither the counter of records nor the room left in a message goes
\* below zero.
TypeOK ==
    /\ allocated \in Nat
    /\ queue \in Seq(Record)
    /\ appended \in Nat
    /\ prod \in [Producers -> {"idle", "checked", "refused", "filled", "inserted"}]
    /\ size \in [Producers -> Sizes \cup {0}]
    /\ mon \in {"loop", "wait_wake", "wait_port", "check_port", "get", "copy",
                "send", "sending", "test", "clear", "done"}
    /\ status \in {"success", "port_disconnected", "buffer_too_small",
                   "unsuccessful", "error"}
    /\ body \in Seq(Record)
    /\ room \in 0 .. BufferSize
    /\ taken \in Record \cup {None}
    /\ wake \in BOOLEAN /\ connected \in BOOLEAN
    /\ port \in {"null", "open", "closed"}
    /\ client \in {"none", "connected", "gone", "cleared", "closed"}
    /\ unload \in {"loaded", "closed", "unregistered", "flagged", "released",
                   "waiting", "waited", "freed", "unloaded"}
    /\ endFlag \in BOOLEAN /\ context \in BOOLEAN
    /\ received \in Seq(Nat)
    /\ lost \subseteq Nat
    /\ fault \in {"none", "stale_port", "freed_context"}

InHand == {p \in Producers : prod[p] = "filled"}

\* MonitorRecordsAllocated counts the entries that exist: those in the queue,
\* those producers are filling in, and the one the monitor is copying.  A
\* counter that drifted up would in the end refuse every file operation.
AllocationExact ==
    allocated = Len(queue) + Cardinality(InHand) + (IF taken = None THEN 0 ELSE 1)

\* The limit is tested before the entry is counted, so it can be passed, but
\* by no more than one entry for every other thread that tested in between.
LimitNearlyKept == allocated <= MaxAllocated + Cardinality(Producers) - 1

\* How many records have left the queue, and how many are settled: received
\* by the client or lost.
Dequeued == appended - Len(queue)
Settled == Dequeued - (IF taken = None THEN 0 ELSE 1) - Len(body)

\* The first records have been received, in order, or lost; the next ones are
\* in the message, the next is being copied, the rest is queued.
InOrder ==
    /\ Settled \in Nat
    /\ \A i \in 1 .. Len(queue) : queue[i].id = Dequeued + i
    /\ taken # None => taken.id = Dequeued
    /\ \A i \in 1 .. Len(body) : body[i].id = Settled + i
    /\ Range(received) \cup lost = 1 .. Settled
    /\ Range(received) \cap lost = {}
    /\ \A i, j \in 1 .. Len(received) : i < j => received[i] < received[j]

\* Every record appended is in exactly one place, and the client sees them
\* once and in the order of the queue.  Nothing is claimed for an unload that
\* freed the context of a running thread.
RecordsConserved == context \/ mon = "done" => InOrder

\* An unload that waited for the monitor thread leaves no record behind.
UnloadFreesRecords ==
    unload = "unloaded" /\ mon = "done" => allocated = 0

\* The thread that is told to end does, whatever it was waiting for, unless
\* its context is freed first.
MonitorStops == endFlag ~> (mon = "done" \/ ~ context \/ fault # "none")

\* EventWakeMonitor notifies the monitor to send records: with a client that
\* stays connected, a queued record that fits leaves the queue.
QueuedRecordsSent ==
    \A n \in 1 .. MaxRecords :
        (\E i \in DOMAIN queue : queue[i].id = n)
            ~> \/ \A i \in DOMAIN queue : queue[i].id # n
               \/ client # "connected"
               \/ fault # "none"
=============================================================================
