------------------------------ MODULE Receiver ------------------------------
(***************************************************************************)
(* FglReceiveMonitorRecords and FglParseMonitorRecords of FileGuardLib:    *)
(* the client's side of the monitor port.  Threads of one process call the *)
(* routine, each with a flag of its own that another thread sets to end    *)
(* it; the driver sends messages of records to whoever is connected.       *)
(*                                                                         *)
(* A record is its number and its size in bytes.  What the driver's        *)
(* monitor thread does is the subject of Monitor; here it sends a message  *)
(* whenever the last one has been fetched.                                 *)
(***************************************************************************)
EXTENDS Integers, Sequences, SequencesExt

CONSTANTS
    Callers,        \* threads that call FglReceiveMonitorRecords
    None,           \* no caller
    Sizes,          \* sizeof(FG_MONITOR_RECORD) and the lengths of the paths
    BufferSize,     \* MONITOR_RECORDS_MESSAGE_BODY_BUFFER_SIZE
    InitialLength,  \* of the array of pointers: 32
    UShort,         \* the values of a USHORT: 65536
    MaxRecords,     \* bound: the records the driver sends in all
    MaxCalls        \* bound: the calls of each thread

ASSUME CallersAssumption == None \notin Callers
ASSUME LengthAssumption == InitialLength \in Nat \ {0} /\ InitialLength < UShort
ASSUME BoundsAssumption == MaxRecords \in Nat /\ MaxCalls \in Nat

\* A record has at least its fixed part of more than a byte, and the size of
\* the buffer is a USHORT, so that one message cannot hold half as many
\* records as a USHORT counts.
ASSUME SizesAssumption == Sizes \subseteq Nat /\ \A s \in Sizes : s >= 2
ASSUME UShortAssumption == UShort \in Nat /\ BufferSize \in Nat /\ BufferSize < UShort

VARIABLES
    owner,      \* the caller whose handle to the monitor port is open
    closing,    \* the driver has closed its side
    pending,    \* the message the driver is sending
    sent,       \* the records sent so far
    pc,         \* where each caller is
    end,        \* *End
    length,     \* parsedRecordsArrayLength
    body,       \* recordsMessage->Body, as the records in it
    parsed,     \* what parsedRecords points to
    next,       \* i of the loop over parsedRecords
    hr,         \* what the last call returned
    calls,      \* how often the routine was called
    fetched,    \* records of the messages the caller has fetched
    delivered   \* records it has been called back with

callVars == <<length, body, parsed, next>>
vars == <<owner, closing, pending, sent, pc, end, callVars, hr, calls,
          fetched, delivered>>

NoMessage == <<>>

Init ==
    /\ owner = None
    /\ closing = FALSE
    /\ pending = NoMessage
    /\ sent = 0
    /\ pc = [c \in Callers |-> "idle"]
    /\ end = [c \in Callers |-> FALSE]
    /\ length = [c \in Callers |-> InitialLength]
    /\ body = [c \in Callers |-> <<>>]
    /\ parsed = [c \in Callers |-> <<>>]
    /\ next = [c \in Callers |-> 0]
    /\ hr = [c \in Callers |-> "S_OK"]
    /\ calls = [c \in Callers |-> 0]
    /\ fetched = [c \in Callers |-> <<>>]
    /\ delivered = [c \in Callers |-> <<>>]

-----------------------------------------------------------------------------
(* FglParseMonitorRecords.                                                 *)

\* Where the records of a message begin, and where they end (DataSize).
Offsets(b) ==
    LET at[i \in 1 .. (Len(b) + 1)] ==
            IF i = 1 THEN 0 ELSE at[i - 1] + b[i - 1].size
    IN  at

DataSize(b) == Offsets(b)[Len(b) + 1]

RecordAt(b, offset) == b[CHOOSE i \in DOMAIN b : Offsets(b)[i] = offset]

\* The walk over at most n records; it is complete when it has reached the
\* end of the data.
FglParseMonitorRecords(b, n) ==
    LET after[i \in 0 .. n] ==
            IF i = 0 THEN [records |-> <<>>, offset |-> 0]
            ELSE LET last == after[i - 1]
                 IN  IF last.offset >= DataSize(b) THEN last
                     ELSE [records |-> Append(last.records,
                                              RecordAt(b, last.offset)),
                           offset |-> last.offset
                                         + RecordAt(b, last.offset).size]
    IN  [records |-> after[n].records,
         hr |-> IF after[n].offset < DataSize(b)
                THEN "INSUFFICIENT_BUFFER" ELSE "S_OK"]

-----------------------------------------------------------------------------
(* FglReceiveMonitorRecords.                                               *)

Return(c, result) ==
    /\ pc' = [pc EXCEPT ![c] = "idle"]
    /\ hr' = [hr EXCEPT ![c] = result]

\* FilterConnectCommunicationPort: the port has one connection.
Connect(c) ==
    /\ pc[c] = "idle"
    /\ calls[c] < MaxCalls
    /\ calls' = [calls EXCEPT ![c] = @ + 1]
    /\ end' = [end EXCEPT ![c] = FALSE]
    /\ length' = [length EXCEPT ![c] = InitialLength]
    /\ \/ /\ owner = None /\ ~ closing
          /\ owner' = c
          /\ pc' = [pc EXCEPT ![c] = "allocate"]
          /\ hr' = [hr EXCEPT ![c] = "S_OK"]
       \/ /\ owner # None \/ closing
          /\ Return(c, "REFUSED")
          /\ UNCHANGED owner
    /\ UNCHANGED <<closing, pending, sent, body, parsed, next, fetched,
                   delivered>>

\* The message and the array of pointers.
Allocate(c) ==
    /\ pc[c] = "allocate"
    /\ pc' = [pc EXCEPT ![c] = "test"]
    /\ UNCHANGED <<owner, closing, pending, sent, end, callVars, hr, calls,
                   fetched, delivered>>

\* malloc or realloc fails: the routine returns where it is, the port stays open.
NoMemory(c) ==
    /\ pc[c] \in {"allocate", "grow"}
    /\ Return(c, "NO_MEMORY")
    /\ UNCHANGED <<owner, closing, pending, sent, end, callVars, calls,
                   fetched, delivered>>

\* Mutant: the flag is not looked at.
TestEndNever(c) ==
    /\ pc[c] = "test"
    /\ pc' = [pc EXCEPT ![c] = "get"]
    /\ UNCHANGED <<owner, closing, pending, sent, end, callVars, hr, calls,
                   fetched, delivered>>

\* while (!(*End))
TestEnd(c) ==
    /\ pc[c] = "test"
    /\ IF end[c] THEN Return(c, hr[c])
       ELSE pc' = [pc EXCEPT ![c] = "get"] /\ UNCHANGED hr
    /\ UNCHANGED <<owner, closing, pending, sent, end, callVars, calls,
                   fetched, delivered>>

\* FilterGetMessage waits for a message.
GetMessage(c) ==
    /\ pc[c] = "get"
    /\ owner = c
    /\ pending # NoMessage
    /\ body' = [body EXCEPT ![c] = pending]
    /\ fetched' = [fetched EXCEPT ![c] = @ \o pending]
    /\ pending' = NoMessage
    /\ hr' = [hr EXCEPT ![c] = "S_OK"]
    /\ pc' = [pc EXCEPT ![c] = "parse"]
    /\ UNCHANGED <<owner, closing, sent, end, length, parsed, next, calls,
                   delivered>>

\* The driver has closed the port.
GetMessageFails(c) ==
    /\ pc[c] = "get"
    /\ closing
    /\ Return(c, "PORT_CLOSED")
    /\ UNCHANGED <<owner, closing, pending, sent, end, callVars, calls,
                   fetched, delivered>>

Parse(c) ==
    /\ pc[c] = "parse"
    /\ LET result == FglParseMonitorRecords(body[c], length[c])
       IN  /\ parsed' = [parsed EXCEPT ![c] = result.records]
           /\ pc' = [pc EXCEPT ![c] = IF result.hr = "INSUFFICIENT_BUFFER"
                                      THEN "grow" ELSE "callback"]
    /\ next' = [next EXCEPT ![c] = 0]
    /\ UNCHANGED <<owner, closing, pending, sent, end, length, body, hr, calls,
                   fetched, delivered>>

\* Mutant: the length is counted in bytes, of pointers of eight.
DoubledBytes(n) == (n * 2 * 8) % UShort

\* Mutant: only the memory grows, not the length that is passed on.
DoubledForgotten(n) == n

\* parsedRecordsArrayLength *= 2
Doubled(n) == (n * 2) % UShort

\* realloc, and the message is parsed again from its beginning.
Grow(c) ==
    /\ pc[c] = "grow"
    /\ length' = [length EXCEPT ![c] = Doubled(@)]
    /\ pc' = [pc EXCEPT ![c] = "parse"]
    /\ UNCHANGED <<owner, closing, pending, sent, end, body, parsed, next, hr,
                   calls, fetched, delivered>>

\* Mutant: the loop is left when the flag is set.
CallbackTestsEnd(c) ==
    /\ pc[c] = "callback"
    /\ IF next[c] < Len(parsed[c]) /\ ~ end[c]
       THEN /\ delivered' = [delivered EXCEPT
                                ![c] = Append(@, parsed[c][next[c] + 1])]
            /\ next' = [next EXCEPT ![c] = @ + 1]
            /\ UNCHANGED pc
       ELSE pc' = [pc EXCEPT ![c] = "test"] /\ UNCHANGED <<delivered, next>>
    /\ UNCHANGED <<owner, closing, pending, sent, end, length, body, parsed, hr,
                   calls, fetched>>

\* One round of the loop that calls MonitorRecordCallback, or its end.
Callback(c) ==
    /\ pc[c] = "callback"
    /\ IF next[c] < Len(parsed[c])
       THEN /\ delivered' = [delivered EXCEPT
                                ![c] = Append(@, parsed[c][next[c] + 1])]
            /\ next' = [next EXCEPT ![c] = @ + 1]
            /\ UNCHANGED pc
       ELSE pc' = [pc EXCEPT ![c] = "test"] /\ UNCHANGED <<delivered, next>>
    /\ UNCHANGED <<owner, closing, pending, sent, end, length, body, parsed, hr,
                   calls, fetched>>

-----------------------------------------------------------------------------
(* The surroundings.                                                       *)

\* Another thread sets *End.
SetEnd(c) ==
    /\ pc[c] # "idle"
    /\ ~ end[c]
    /\ end' = [end EXCEPT ![c] = TRUE]
    /\ UNCHANGED <<owner, closing, pending, sent, pc, callVars, hr, calls,
                   fetched, delivered>>

\* The monitor thread sends as many records as fit into a message.
DriverSends ==
    /\ owner # None /\ ~ closing
    /\ pending = NoMessage
    /\ \E n \in 1 .. (MaxRecords - sent) : \E size \in [1 .. n -> Sizes] :
          LET message == [i \in 1 .. n |-> [id |-> sent + i, size |-> size[i]]]
          IN  /\ DataSize(message) <= BufferSize
              /\ pending' = message
              /\ sent' = sent + n
    /\ UNCHANGED <<owner, closing, pc, end, callVars, hr, calls, fetched,
                   delivered>>

\* FgcUnload closes the ports.
DriverCloses ==
    /\ ~ closing
    /\ closing' = TRUE
    /\ UNCHANGED <<owner, pending, sent, pc, end, callVars, hr, calls, fetched,
                   delivered>>

\* All that can happen has happened.
Finished ==
    /\ \A c \in Callers : pc[c] = "idle" /\ calls[c] = MaxCalls
    /\ UNCHANGED vars

CallerStep(c) ==
    \/ Allocate(c) \/ TestEnd(c) \/ GetMessage(c) \/ GetMessageFails(c)
    \/ Parse(c) \/ Grow(c) \/ Callback(c)

Next ==
    \/ \E c \in Callers : Connect(c) \/ NoMemory(c) \/ CallerStep(c) \/ SetEnd(c)
    \/ DriverSends \/ DriverCloses
    \/ Finished

\* A thread inside the routine runs on.  Neither the driver nor the program
\* has to do anything.
Spec ==
    /\ Init /\ [][Next]_vars
    /\ \A c \in Callers : WF_vars(CallerStep(c))

-----------------------------------------------------------------------------
(* Properties.                                                             *)

\* Types; the length of the array stays a USHORT above zero.
TypeOK ==
    /\ owner \in Callers \cup {None}
    /\ closing \in BOOLEAN
    /\ sent \in 0 .. MaxRecords
    /\ pc \in [Callers -> {"idle", "allocate", "test", "get", "parse", "grow",
                          "callback"}]
    /\ end \in [Callers -> BOOLEAN]
    /\ length \in [Callers -> 1 .. (UShort - 1)]
    /\ next \in [Callers -> Nat]
    /\ hr \in [Callers -> {"S_OK", "REFUSED", "NO_MEMORY", "PORT_CLOSED"}]
    /\ calls \in [Callers -> 0 .. MaxCalls]

\* The callback gets the records in the order in which they were sent, each
\* once, although a message that has more of them than the array has places
\* is parsed several times; and a message is left only when all its records
\* have been passed on, even when the flag is set meanwhile.
EachRecordOnce ==
    \A c \in Callers :
        /\ IsPrefix(delivered[c], fetched[c])
        /\ pc[c] \in {"test", "get"} => delivered[c] = fetched[c]

\* The array grows until the message fits: its length does not wrap round to
\* zero, with which the loop would never end.
ParsingEnds ==
    \A c \in Callers : pc[c] = "parse" ~> pc[c] = "callback" \/ hr[c] = "NO_MEMORY"

\* A call that is to end does so at the latest after the next message, or
\* when the driver closes the port.
StopsWithNextMessage ==
    \A c \in Callers :
        owner = c /\ end[c] /\ (pending # NoMessage \/ closing)
            ~> ~ end[c] \/ pc[c] = "idle"
=============================================================================
