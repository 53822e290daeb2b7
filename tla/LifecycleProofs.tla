-------------------------- MODULE LifecycleProofs --------------------------
(***************************************************************************)
(* Proofs about Lifecycle, for any set of volumes and any bounds: whatever *)
(* runs while the driver loads or unloads finds what it uses, an unload    *)
(* gives everything back, and a load that failed leaves nobody who can     *)
(* call into the driver.                                                   *)
(***************************************************************************)
EXTENDS Lifecycle, TLAPS

-----------------------------------------------------------------------------
(* The inductive invariant: what each step of DriverEntry and FgcUnload has *)
(* behind it, and what the callbacks that run between them rest on.        *)

\* Before the filter is registered, between that and the start of filtering,
\* and after it is unregistered by FgcUnload.
Early == {"configure", "initialise", "register"}
Registering == {"secure", "control_port", "monitor_port", "context", "thread", "start"}
Unregistered == {"stop", "wait", "free", "rules", "unloaded"}
Undoing == {"undo_filter", "undo_monitor", "failed"}

\* The filter.
FilterShape ==
    /\ load \in Early => filter = "none"
    /\ load \in Registering \cup {"undo_filter"} => filter = "registered"
    /\ load \in {"loaded", "unregister"} => filter = "filtering"
    /\ load \in Unregistered => filter = "unregistered"
    /\ load = "undo" => filter \in {"none", "registered"}
    /\ load \in {"undo_monitor", "failed"} => filter \in {"none", "unregistered"}

\* What was set up before the filter, or with it.
ResourceShape ==
    /\ load = "register" \/ filter # "none" => lists
    /\ lock = "freed" <=> load = "unloaded"
    /\ load \in {"thread", "start", "loaded", "unregister", "stop", "wait", "free"} =>
          context = "allocated"
    /\ load \in {"rules", "unloaded"} => context = "freed"
    /\ load = "failed" => context # "allocated"
    /\ load \in {"loaded", "unregister", "failed"} \cup Unregistered => ~ descriptor
    /\ load # "failed" => threadRefs <= 1
    /\ load \in {"free", "rules", "unloaded"} => threadRefs = 0
    /\ context = "null" => thread = "none" /\ threadRefs = 0

\* The server ports exist only with a registered filter.
PortShape ==
    /\ filter = "none" \/ load \in {"secure", "control_port"} =>
          \A c \in Ports : port[c] = "none"
    /\ load = "monitor_port" => port["control"] = "open"
    /\ load \in {"context", "thread", "start", "loaded"} =>
          \A c \in Ports : port[c] = "open"
    /\ load \in Undoing => \A c \in Ports : port[c] # "open"
    /\ load \in {"unregister"} \cup Unregistered => \A c \in Ports : port[c] = "closed"

\* Connections, messages and operations need a filter that is registered: it
\* is unregistered only when they are over, and lets none in again.
CallbackShape ==
    /\ filter \in {"none", "unregistered"} => \A c \in Ports : conn[c] = "none"
    /\ message # "none" => conn["control"] # "none"
    /\ filter # "filtering" => attached = {} /\ busy = {}
    /\ busy # {} => lock = "allocated"
    /\ conn["monitor"] # "none" => context = "allocated"
    /\ filter = "none" \/ load = "unloaded" => rules = 0

LifeInv ==
    /\ TypeOK
    /\ FilterShape
    /\ ResourceShape
    /\ PortShape
    /\ CallbackShape
    /\ PermissionsSpent

-----------------------------------------------------------------------------
\* The messages are not the absence of one.
LEMMA NoneIsNoMessage == "none" \notin Messages
BY DEF Messages, Permissions, Allow, Forbid

\* The steps of DriverEntry.
LEMMA LoadingStep ==
    ASSUME LifeInv,
           \/ FgcSetConfiguration \/ InitialiseGlobals \/ RegisterFilter
           \/ BuildSecurityDescriptor \/ CreateControlPort \/ CreateMonitorPort
           \/ CreateMonitorContext \/ CreateMonitorThread \/ StartFiltering
           \/ LoadFails
    PROVE  LifeInv'
<1> USE DEF LifeInv, TypeOK, FilterShape, ResourceShape, PortShape, CallbackShape,
        PermissionsSpent, Early, Registering, Unregistered, Undoing, resourceVars,
        threadVars, portVars, permissionVars, volumeVars, Ports
<1>1. CASE FgcSetConfiguration
  BY <1>1 DEF FgcSetConfiguration
<1>2. CASE InitialiseGlobals
  BY <1>2 DEF InitialiseGlobals, FgcCreatePushLock, Permissions
<1>3. CASE RegisterFilter
  BY <1>3 DEF RegisterFilter
<1>4. CASE BuildSecurityDescriptor
  BY <1>4 DEF BuildSecurityDescriptor
<1>5. CASE CreateControlPort
  BY <1>5 DEF CreateControlPort, CreateCommunicationPort
<1>6. CASE CreateMonitorPort
  BY <1>6 DEF CreateMonitorPort, CreateCommunicationPort
<1>7. CASE CreateMonitorContext
  BY <1>7 DEF CreateMonitorContext
<1>8. CASE CreateMonitorThread
  BY <1>8 DEF CreateMonitorThread
<1>9. CASE StartFiltering
  BY <1>9, ZenonT(40) DEF StartFiltering
<1>10. CASE LoadFails
  BY <1>10 DEF LoadFails
<1> QED
  BY <1>1, <1>2, <1>3, <1>4, <1>5, <1>6, <1>7, <1>8, <1>9, <1>10

\* The block `finally` after a failure.
LEMMA UndoStep ==
    ASSUME LifeInv, UndoPorts \/ UndoFilter \/ UndoMonitor \/ UndoUninitialised
    PROVE  LifeInv'
<1> USE DEF LifeInv, TypeOK, FilterShape, ResourceShape, PortShape, CallbackShape,
        PermissionsSpent, Early, Registering, Unregistered, Undoing, resourceVars,
        threadVars, portVars, permissionVars, volumeVars, Ports
<1>1. CASE UndoPorts
  <2>1. /\ port' \in [Ports -> {"none", "open", "closed"}]
        /\ \A c \in Ports : port'[c] # "open"
        /\ \A c \in Ports : port[c] = "none" => port'[c] = "none"
    BY <1>1 DEF UndoPorts, Closed
  <2>2. /\ filter = "none" => load' = "undo_monitor"
        /\ filter # "none" => load' = "undo_filter"
        /\ load = "undo"
    BY <1>1 DEF UndoPorts
  <2> QED
    BY <1>1, <2>1, <2>2 DEF UndoPorts
<1>2. CASE UndoFilter
  BY <1>2 DEF UndoFilter, Drained
<1>3. CASE UndoMonitor
  <2>1. /\ threadRefs' \in 0 .. 2 /\ context' \in {"null", "freed"}
        /\ load = "undo_monitor" /\ load' = "failed" /\ ~ descriptor' /\ ~ endFlag'
    BY <1>3 DEF UndoMonitor
  <2>2. context' = "null" => thread' = "none" /\ threadRefs' = 0
    BY <1>3 DEF UndoMonitor
  <2>3. TypeOK' /\ FilterShape' /\ PortShape' /\ CallbackShape' /\ PermissionsSpent'
    BY <1>3, <2>1 DEF UndoMonitor
  <2>4. ResourceShape'
    BY <1>3, <2>1, <2>2 DEF UndoMonitor
  <2> QED
    BY <2>3, <2>4
<1>4. CASE UndoUninitialised
  BY <1>4 DEF UndoUninitialised
<1> QED
  BY <1>1, <1>2, <1>3, <1>4

\* FgcUnload.
LEMMA UnloadingStep ==
    ASSUME LifeInv, BeginUnload \/ UnloadStep
    PROVE  LifeInv'
<1> USE DEF LifeInv, TypeOK, FilterShape, ResourceShape, PortShape, CallbackShape,
        PermissionsSpent, Early, Registering, Unregistered, Undoing, resourceVars,
        threadVars, portVars, permissionVars, volumeVars, Ports
<1>1. CASE BeginUnload
  BY <1>1 DEF BeginUnload, Closed, Permissions
<1>2. CASE UnregisterFilter
  BY <1>2 DEF UnregisterFilter, Drained
<1>3. CASE StopMonitor
  BY <1>3 DEF StopMonitor
<1>4. CASE WaitMonitor
  BY <1>4 DEF WaitMonitor
<1>5. CASE FreeMonitorContext
  BY <1>5 DEF FreeMonitorContext
<1>6. CASE FreeRules
  BY <1>6, MaxRulesAssumption DEF FreeRules
<1>7. CASE FreeRulesNullLock
  BY <1>7 DEF FreeRulesNullLock
<1> QED
  BY <1>1, <1>2, <1>3, <1>4, <1>5, <1>6, <1>7 DEF UnloadStep

\* The monitor thread and the clients of the ports.
LEMMA ClientStep ==
    ASSUME LifeInv,
           \/ ThreadEnds \/ UseFreedContext
           \/ FgcControlPortConnectCallback
           \/ FgcMonitorPortConnectCallback \/ ConnectWithoutContext
           \/ \E c \in Ports : Disconnect(c)
           \/ FgcControlPortDisconnectCallback \/ FgcMonitorPortDisconnectCallback
    PROVE  LifeInv'
<1> USE DEF LifeInv, TypeOK, FilterShape, ResourceShape, PortShape, CallbackShape,
        PermissionsSpent, Early, Registering, Unregistered, Undoing, resourceVars,
        threadVars, portVars, permissionVars, volumeVars, Ports
<1>1. CASE ThreadEnds
  BY <1>1 DEF ThreadEnds
<1>2. CASE UseFreedContext
  BY <1>2 DEF UseFreedContext
<1>3. CASE FgcControlPortConnectCallback
  BY <1>3 DEF FgcControlPortConnectCallback, Accepts
<1>4. CASE FgcMonitorPortConnectCallback
  BY <1>4 DEF FgcMonitorPortConnectCallback, Accepts
<1>5. CASE ConnectWithoutContext
  BY <1>5 DEF ConnectWithoutContext
<1>6. CASE \E c \in Ports : Disconnect(c)
  BY <1>6 DEF Disconnect
<1>7. CASE FgcControlPortDisconnectCallback
  BY <1>7 DEF FgcControlPortDisconnectCallback
<1>8. CASE FgcMonitorPortDisconnectCallback
  BY <1>8 DEF FgcMonitorPortDisconnectCallback
<1> QED
  BY <1>1, <1>2, <1>3, <1>4, <1>5, <1>6, <1>7, <1>8

\* Control messages: they are handled while their client is connected, hence
\* before the driver is unloaded.
LEMMA MessagesStep ==
    ASSUME LifeInv, (\E m \in Messages : ReceiveMessage(m)) \/ MessageStep
    PROVE  LifeInv'
<1> USE DEF LifeInv, TypeOK, FilterShape, ResourceShape, PortShape, CallbackShape,
        Early, Registering, Unregistered, Undoing, resourceVars, threadVars, portVars,
        permissionVars, volumeVars, Ports
<1>1. CASE \E m \in Messages : ReceiveMessage(m)
  BY <1>1 DEF ReceiveMessage, PermissionsSpent
<1>2. CASE \E k \in Permissions : SetAcceptable(k)
  <2>1. PICK k \in Permissions : SetAcceptable(k)
    BY <1>2
  <2>2. PermissionsSpent'
    BY <2>1 DEF SetAcceptable, PermissionsSpent
  <2>3. accept' \in [Permissions -> BOOLEAN] /\ grants' \in [Permissions -> Nat]
    BY <2>1 DEF SetAcceptable
  <2> QED
    BY <2>1, <2>2, <2>3 DEF SetAcceptable
<1>3. CASE HandleMessage
  <2>1. rules' \in 0 .. MaxRules
    BY <1>3, MaxRulesAssumption DEF HandleMessage, RulesAfter
  <2>2. message # "none"
    BY <1>3, NoneIsNoMessage DEF HandleMessage
  <2> QED
    BY <1>3, <2>1, <2>2 DEF HandleMessage, PermissionsSpent
<1>4. CASE HandleMessageNullLock
  BY <1>4 DEF HandleMessageNullLock, PermissionsSpent
<1> QED
  BY <1>1, <1>2, <1>3, <1>4 DEF MessageStep

\* Instances and operations.
LEMMA VolumeStep ==
    ASSUME LifeInv, NEW v \in Volumes,
           \/ FgcInstanceSetup(v) \/ FgcInstanceQueryTeardown(v)
           \/ VolumeDismounted(v)
           \/ BeginOperation(v) \/ OpenNullLock(v) \/ EndOperation(v)
    PROVE  LifeInv'
<1> USE DEF LifeInv, TypeOK, FilterShape, ResourceShape, PortShape, CallbackShape,
        PermissionsSpent, Early, Registering, Unregistered, Undoing, resourceVars,
        threadVars, portVars, permissionVars, volumeVars, Ports
<1>1. CASE FgcInstanceSetup(v)
  BY <1>1 DEF FgcInstanceSetup, Filtering
<1>2. CASE FgcInstanceQueryTeardown(v)
  BY <1>2 DEF FgcInstanceQueryTeardown, Permissions
<1>3. CASE VolumeDismounted(v)
  BY <1>3 DEF VolumeDismounted
<1>4. CASE BeginOperation(v)
  BY <1>4 DEF BeginOperation, Filtering
<1>5. CASE OpenNullLock(v)
  BY <1>5 DEF OpenNullLock
<1>6. CASE EndOperation(v)
  BY <1>6 DEF EndOperation
<1> QED
  BY <1>1, <1>2, <1>3, <1>4, <1>5, <1>6

-----------------------------------------------------------------------------
(* The theorems.                                                           *)

\* LifeInv holds in every reachable state of the driver.
THEOREM LifeInvariant == Spec => []LifeInv
<1>1. Init => LifeInv
  <2> SUFFICES ASSUME Init PROVE LifeInv
    OBVIOUS
  <2>1. TypeOK
    <3>1. rules \in 0 .. MaxRules
      BY MaxRulesAssumption DEF Init
    <3>2. /\ port \in [Ports -> {"none", "open", "closed"}]
          /\ conn \in [Ports -> {"none", "connected", "gone"}]
          /\ accept \in [Permissions -> BOOLEAN]
          /\ grants \in [Permissions -> Nat] /\ spent \in [Permissions -> Nat]
      BY DEF Init
    <3>3. threadRefs \in 0 .. 2
      BY DEF Init
    <3> QED
      BY <3>1, <3>2, <3>3 DEF Init, TypeOK
  <2>2. FilterShape /\ ResourceShape /\ PortShape /\ CallbackShape
    BY DEF Init, FilterShape, ResourceShape, PortShape, CallbackShape, Early,
       Registering, Unregistered, Undoing, Ports
  <2>3. PermissionsSpent
    BY DEF Init, PermissionsSpent
  <2> QED
    BY <2>1, <2>2, <2>3 DEF LifeInv
<1>2. LifeInv /\ [Next]_vars => LifeInv'
  <2> SUFFICES ASSUME LifeInv, [Next]_vars PROVE LifeInv'
    OBVIOUS
  <2>1. CASE UNCHANGED vars
    BY <2>1 DEF vars, LifeInv, TypeOK, FilterShape, ResourceShape, PortShape,
       CallbackShape, PermissionsSpent, resourceVars, threadVars, portVars,
       permissionVars, volumeVars
  <2>2. CASE DriverEntryStep \/ LoadFails
    BY <2>2, LoadingStep, UndoStep DEF DriverEntryStep
  <2>3. CASE BeginUnload \/ UnloadStep
    BY <2>3, UnloadingStep
  <2>4. ASSUME NEW v \in Volumes,
               \/ FgcInstanceSetup(v) \/ FgcInstanceQueryTeardown(v)
               \/ RefuseTeardown(v) \/ VolumeDismounted(v)
               \/ BeginOperation(v) \/ OpenNullLock(v) \/ EndOperation(v)
        PROVE  LifeInv'
    BY <2>1, <2>4, VolumeStep DEF RefuseTeardown
  <2> QED
    BY <2>1, <2>2, <2>3, <2>4, ClientStep, MessagesStep DEF Next, RefuseUnload, Halted
<1> QED
  BY <1>1, <1>2, PTL DEF Spec

\* Every variable stays in its type.
THEOREM LifecycleTypeCorrect == Spec => []TypeOK
<1>1. LifeInv => TypeOK
  BY DEF LifeInv
<1> QED
  BY <1>1, LifeInvariant, PTL

\* A handler of Communication.c, a file operation and a connection to the
\* monitor port find the list, the lock and the context they use, at whatever
\* step of DriverEntry or FgcUnload they run.
THEOREM CallbacksHaveStateAlways == Spec => []CallbacksHaveState
<1>1. LifeInv => CallbacksHaveState
  <2> SUFFICES ASSUME LifeInv PROVE CallbacksHaveState
    OBVIOUS
  <2>1. filter = "filtering" => load \in {"loaded", "unregister"}
    BY DEF LifeInv, TypeOK, FilterShape, Early, Registering, Unregistered
  <2>2. message # "none" => lists /\ lock # "freed"
    BY DEF LifeInv, TypeOK, FilterShape, ResourceShape, CallbackShape, Unregistered, Ports
  <2>3. busy # {} => lock = "allocated" /\ context = "allocated"
    BY <2>1 DEF LifeInv, CallbackShape, ResourceShape
  <2> QED
    BY <2>2, <2>3 DEF CallbacksHaveState, LifeInv, CallbackShape
<1> QED
  BY <1>1, LifeInvariant, PTL

\* Each permission granted by SetUnloadAcceptable or SetDetachAcceptable lets
\* at most one unload or detach through.
THEOREM PermissionsSpentAlways == Spec => []PermissionsSpent
<1>1. LifeInv => PermissionsSpent
  BY DEF LifeInv
<1> QED
  BY <1>1, LifeInvariant, PTL

\* A DriverEntry that fails leaves no filter, port, connection, message or
\* operation from the moment FltUnregisterFilter has returned, and no context or
\* descriptor when it returns.  The lock stays, and with it the rules, the thread
\* and the references to it, if the load had got far enough to have them.
THEOREM LoadFailureUndoneAlways == Spec => []LoadFailureUndone
<1>1. LifeInv => LoadFailureUndone
  <2> SUFFICES ASSUME LifeInv PROVE LoadFailureUndone
    OBVIOUS
  <2>1. load \in {"undo_monitor", "failed"} =>
           /\ filter \in {"none", "unregistered"} /\ attached = {} /\ busy = {}
           /\ \A c \in Ports : port[c] # "open" /\ conn[c] = "none"
    BY DEF LifeInv, FilterShape, PortShape, CallbackShape, Undoing
  <2>2. load \in {"undo_monitor", "failed"} => message = "none"
    BY <2>1 DEF LifeInv, CallbackShape, Ports
  <2>3. load = "failed" =>
           /\ context # "allocated" /\ ~ descriptor
           /\ context = "null" => thread = "none" /\ threadRefs = 0
    BY DEF LifeInv, ResourceShape
  <2>4. load = "failed" /\ rules > 0 => filter = "unregistered"
    BY <2>1 DEF LifeInv, CallbackShape
  <2> QED
    BY <2>1, <2>2, <2>3, <2>4 DEF LoadFailureUndone
<1> QED
  BY <1>1, LifeInvariant, PTL

\* FgcUnload gives back everything DriverEntry and the clients acquired.
THEOREM UnloadUndoneAlways == Spec => []UnloadUndone
<1>1. LifeInv => UnloadUndone
  BY DEF LifeInv, UnloadUndone, TypeOK, FilterShape, ResourceShape, PortShape,
     CallbackShape, Unregistered
<1> QED
  BY <1>1, LifeInvariant, PTL
=============================================================================
