----------------------------- MODULE Lifecycle -----------------------------
(***************************************************************************)
(* Loading and unloading FileGuardCore (FileGuardCore/FileGuardCore.c), and*)
(* what may happen meanwhile: clients connect to the two ports and send    *)
(* control messages (Communication.c), volumes are attached and detached,  *)
(* file operations run, the monitor thread runs.                           *)
(*                                                                         *)
(* DriverEntry acquires one resource after the other and undoes them on    *)
(* failure; FgcUnload gives them back.  Ports accept clients as soon as    *)
(* they exist, before DriverEntry has finished.  The rules are counted     *)
(* here and the monitor thread either runs or has ended: their details are *)
(* in Enforcement and Monitor.                                             *)
(*                                                                         *)
(* An access through NULL or to freed memory sets fault and ends the       *)
(* behaviour.                                                              *)
(***************************************************************************)
EXTENDS Integers

CONSTANTS
    Volumes,    \* volumes an instance can be attached to
    MaxGrants,  \* bound: the messages that allow an unload, or a detach
    MaxRules    \* bound: the rules in the list

ASSUME MaxGrantsAssumption == MaxGrants \in Nat
ASSUME MaxRulesAssumption == MaxRules \in Nat

Ports == {"control", "monitor"}
Permissions == {"unload", "detach"}

\* Control messages: the switches, the messages that change the list after
\* testing its lock for NULL, and those that read or empty it.  QueryRules
\* tests the lock too; CheckMatchedRule and CleanupRules do not.
Allow == [unload |-> "allow_unload", detach |-> "allow_detach"]
Forbid == [unload |-> "forbid_unload", detach |-> "forbid_detach"]
Messages == {"get_core_version", "add_rules", "remove_rules", "query_rules",
             "check_matched_rule", "cleanup_rules"}
            \cup {Allow[k] : k \in Permissions} \cup {Forbid[k] : k \in Permissions}

VARIABLES
    load,       \* where DriverEntry or FgcUnload is
    filter,     \* Globals.Filter
    lists,      \* the list heads are initialised
    lock,       \* Globals.RulesListLock
    descriptor, \* the security descriptor is allocated
    context,    \* Globals.MonitorContext
    thread,     \* the monitor thread
    threadRefs, \* references held on Globals.MonitorThreadObject
    endFlag,    \* MonitorContext->EndMonitorFlag
    port,       \* the two server ports
    conn,       \* the connection to each of them
    message,    \* the control message being handled
    accept,     \* Globals.AcceptUnload and Globals.AcceptDetach
    grants,     \* how often each was set to TRUE
    spent,      \* how often each let an unload or a detach through
    attached,   \* volumes with an instance that is not being torn down
    busy,       \* volumes with a file operation inside a callback
    rules,      \* the number of rules in the list
    fault       \* the undefined access that ended the behaviour, if any

resourceVars == <<filter, lists, lock, descriptor, context>>
threadVars == <<thread, threadRefs, endFlag>>
portVars == <<port, conn, message>>
permissionVars == <<accept, grants, spent>>
volumeVars == <<attached, busy>>
vars == <<load, resourceVars, threadVars, portVars, permissionVars, volumeVars,
          rules, fault>>

Init ==
    /\ load = "configure"
    /\ filter = "none"
    /\ lists = FALSE
    /\ lock = "null"
    /\ descriptor = FALSE
    /\ context = "null"
    /\ thread = "none"
    /\ threadRefs = 0
    /\ endFlag = FALSE
    /\ port = [c \in Ports |-> "none"]
    /\ conn = [c \in Ports |-> "none"]
    /\ message = "none"
    /\ accept = [k \in Permissions |-> FALSE]
    /\ grants = [k \in Permissions |-> 0]
    /\ spent = [k \in Permissions |-> 0]
    /\ attached = {}
    /\ busy = {}
    /\ rules = 0
    /\ fault = "none"

-----------------------------------------------------------------------------
(* DriverEntry.                                                            *)

FgcSetConfiguration ==
    /\ load = "configure"
    /\ load' = "initialise"
    /\ UNCHANGED <<resourceVars, threadVars, portVars, permissionVars,
                   volumeVars, rules, fault>>

\* What *Lock may be afterwards: an allocation that fails leaves it alone.
FgcCreatePushLock(old) == {"allocated", old}

\* The result of FgcCreatePushLock is not looked at.
InitialiseGlobals ==
    /\ load = "initialise"
    /\ accept' = [k \in Permissions |-> FALSE]
    /\ lists' = TRUE
    /\ lock' \in FgcCreatePushLock(lock)
    /\ load' = "register"
    /\ UNCHANGED <<filter, descriptor, context, threadVars, portVars, grants,
                   spent, volumeVars, rules, fault>>

\* Mutant: filtering starts with the registration.
RegisterStartsFiltering ==
    /\ load = "register"
    /\ filter' = "filtering"
    /\ load' = "secure"
    /\ UNCHANGED <<lists, lock, descriptor, context, threadVars, portVars,
                   permissionVars, volumeVars, rules, fault>>

RegisterFilter ==
    /\ load = "register"
    /\ filter' = "registered"
    /\ load' = "secure"
    /\ UNCHANGED <<lists, lock, descriptor, context, threadVars, portVars,
                   permissionVars, volumeVars, rules, fault>>

BuildSecurityDescriptor ==
    /\ load = "secure"
    /\ descriptor' = TRUE
    /\ load' = "control_port"
    /\ UNCHANGED <<filter, lists, lock, context, threadVars, portVars,
                   permissionVars, volumeVars, rules, fault>>

CreateCommunicationPort(c, here, next) ==
    /\ load = here
    /\ port' = [port EXCEPT ![c] = "open"]
    /\ load' = next
    /\ UNCHANGED <<resourceVars, threadVars, conn, message, permissionVars,
                   volumeVars, rules, fault>>

CreateControlPort == CreateCommunicationPort("control", "control_port", "monitor_port")
CreateMonitorPort == CreateCommunicationPort("monitor", "monitor_port", "context")

CreateMonitorContext ==
    /\ load = "context"
    /\ context' = "allocated"
    /\ load' = "thread"
    /\ UNCHANGED <<filter, lists, lock, descriptor, threadVars, portVars,
                   permissionVars, volumeVars, rules, fault>>

\* The result of ObReferenceObjectByHandle is not looked at either: without the
\* reference Globals.MonitorThreadObject stays NULL.
CreateMonitorThread ==
    /\ load = "thread"
    /\ thread' = "running"
    /\ threadRefs' \in {0, 1}
    /\ load' = "start"
    /\ UNCHANGED <<resourceVars, endFlag, portVars, permissionVars, volumeVars,
                   rules, fault>>

\* The block `finally` frees the descriptor on success as well.
StartFiltering ==
    /\ load = "start"
    /\ filter' = "filtering"
    /\ descriptor' = FALSE
    /\ load' = "loaded"
    /\ UNCHANGED <<lists, lock, context, threadVars, portVars, permissionVars,
                   volumeVars, rules, fault>>

\* Mutant: `return status` where the code says `leave`.
LoadFailsReturns ==
    /\ load \in {"configure", "register", "secure", "control_port",
                 "monitor_port", "context", "thread", "start"}
    /\ load' = "failed"
    /\ UNCHANGED <<resourceVars, threadVars, portVars, permissionVars,
                   volumeVars, rules, fault>>

\* Any of the calls fails but the two whose result is ignored.
LoadFails ==
    /\ load \in {"configure", "register", "secure", "control_port",
                 "monitor_port", "context", "thread", "start"}
    /\ load' = "undo"
    /\ UNCHANGED <<resourceVars, threadVars, portVars, permissionVars,
                   volumeVars, rules, fault>>

Closed(p) == [c \in Ports |-> IF p[c] = "open" THEN "closed" ELSE p[c]]

UndoPorts ==
    /\ load = "undo"
    /\ port' = Closed(port)
    /\ load' = IF filter = "none" THEN "undo_monitor" ELSE "undo_filter"
    /\ UNCHANGED <<resourceVars, threadVars, conn, message, permissionVars,
                   volumeVars, rules, fault>>

\* FltUnregisterFilter returns when every connection has been closed by its
\* disconnect callback and no callback is running.
Drained == busy = {} /\ message = "none" /\ \A c \in Ports : conn[c] = "none"

UndoFilter ==
    /\ load = "undo_filter"
    /\ Drained
    /\ filter' = "unregistered"
    /\ attached' = {}
    /\ load' = "undo_monitor"
    /\ UNCHANGED <<lists, lock, descriptor, context, threadVars, portVars,
                   permissionVars, busy, rules, fault>>

\* The end flag is set to FALSE, the context freed, the thread object
\* referenced once more.  The rules and their lock are left alone.
UndoMonitor ==
    /\ load = "undo_monitor"
    /\ lists
    /\ endFlag' = FALSE
    /\ context' = IF context = "allocated" THEN "freed" ELSE context
    /\ threadRefs' = IF threadRefs > 0 THEN threadRefs + 1 ELSE 0
    /\ descriptor' = FALSE
    /\ load' = "failed"
    /\ UNCHANGED <<filter, lists, lock, thread, portVars, permissionVars,
                   volumeVars, rules, fault>>

\* FgcCleanupMonitorRecords walks a queue whose head was never initialised,
\* when reading the configuration was what failed.
UndoUninitialised ==
    /\ load = "undo_monitor"
    /\ ~ lists
    /\ fault' = "null_link"
    /\ UNCHANGED <<load, resourceVars, threadVars, portVars, permissionVars,
                   volumeVars, rules>>

-----------------------------------------------------------------------------
(* FgcUnload.                                                              *)

RefuseUnload ==
    /\ load = "loaded"
    /\ ~ accept["unload"]
    /\ UNCHANGED vars

\* InterlockedExchange8 takes the permission away.  Both server ports and the
\* monitor's client port are closed.
BeginUnload ==
    /\ load = "loaded"
    /\ accept["unload"]
    /\ accept' = [accept EXCEPT !["unload"] = FALSE]
    /\ spent' = [spent EXCEPT !["unload"] = @ + 1]
    /\ port' = Closed(port)
    /\ conn' = [conn EXCEPT !["monitor"] = IF @ = "connected" THEN "gone" ELSE @]
    /\ load' = "unregister"
    /\ UNCHANGED <<resourceVars, threadVars, message, grants, volumeVars, rules,
                   fault>>

UnregisterFilter ==
    /\ load = "unregister"
    /\ Drained
    /\ filter' = "unregistered"
    /\ attached' = {}
    /\ load' = "stop"
    /\ UNCHANGED <<lists, lock, descriptor, context, threadVars, portVars,
                   permissionVars, busy, rules, fault>>

StopMonitor ==
    /\ load = "stop"
    /\ endFlag' = TRUE
    /\ load' = "wait"
    /\ UNCHANGED <<resourceVars, thread, threadRefs, portVars, permissionVars,
                   volumeVars, rules, fault>>

\* Mutant: MonitorThreadObject is not tested for NULL.
WaitMonitorUntested ==
    /\ load = "wait"
    /\ threadRefs' = threadRefs - 1
    /\ load' = "free"
    /\ UNCHANGED <<resourceVars, thread, endFlag, portVars, permissionVars,
                   volumeVars, rules, fault>>

\* The thread has ended, 100 ms are over, or there is no object to wait for.
WaitMonitor ==
    /\ load = "wait"
    /\ threadRefs' = IF threadRefs > 0 THEN threadRefs - 1 ELSE 0
    /\ load' = "free"
    /\ UNCHANGED <<resourceVars, thread, endFlag, portVars, permissionVars,
                   volumeVars, rules, fault>>

FreeMonitorContext ==
    /\ load = "free"
    /\ context' = "freed"
    /\ load' = "rules"
    /\ UNCHANGED <<filter, lists, lock, descriptor, threadVars, portVars,
                   permissionVars, volumeVars, rules, fault>>

\* Mutant: the lock goes and the rules stay.
FreeRulesForgotten ==
    /\ load = "rules"
    /\ lock = "allocated"
    /\ lock' = "freed"
    /\ load' = "unloaded"
    /\ UNCHANGED <<filter, lists, descriptor, context, threadVars, portVars,
                   permissionVars, volumeVars, rules, fault>>

\* FgcCleanupRuleEntriesList and FgcFreePushLock.
FreeRules ==
    /\ load = "rules"
    /\ lock = "allocated"
    /\ rules' = 0
    /\ lock' = "freed"
    /\ load' = "unloaded"
    /\ UNCHANGED <<filter, lists, descriptor, context, threadVars, portVars,
                   permissionVars, volumeVars, fault>>

\* The lock is taken before it is tested for NULL.
FreeRulesNullLock ==
    /\ load = "rules"
    /\ lock = "null"
    /\ fault' = "null_lock"
    /\ UNCHANGED <<load, resourceVars, threadVars, portVars, permissionVars,
                   volumeVars, rules>>

-----------------------------------------------------------------------------
(* The monitor thread, as far as loading and unloading see it.             *)

ThreadEnds ==
    /\ thread = "running" /\ context = "allocated"
    /\ endFlag
    /\ thread' = "ended"
    /\ UNCHANGED <<load, resourceVars, threadRefs, endFlag, portVars,
                   permissionVars, volumeVars, rules, fault>>

UseFreedContext ==
    /\ thread = "running" /\ context = "freed"
    /\ fault' = "freed_context"
    /\ UNCHANGED <<load, resourceVars, threadVars, portVars, permissionVars,
                   volumeVars, rules>>

-----------------------------------------------------------------------------
(* The ports.  Each accepts one connection at a time.                      *)

Accepts(c) == port[c] = "open" /\ conn[c] = "none"

FgcControlPortConnectCallback ==
    /\ Accepts("control")
    /\ conn' = [conn EXCEPT !["control"] = "connected"]
    /\ UNCHANGED <<load, resourceVars, threadVars, port, message,
                   permissionVars, volumeVars, rules, fault>>

FgcMonitorPortConnectCallback ==
    /\ Accepts("monitor")
    /\ context = "allocated"
    /\ conn' = [conn EXCEPT !["monitor"] = "connected"]
    /\ UNCHANGED <<load, resourceVars, threadVars, port, message,
                   permissionVars, volumeVars, rules, fault>>

\* Globals.MonitorContext is not assigned yet.
ConnectWithoutContext ==
    /\ Accepts("monitor")
    /\ context = "null"
    /\ fault' = "null_context"
    /\ UNCHANGED <<load, resourceVars, threadVars, portVars, permissionVars,
                   volumeVars, rules>>

\* The client closes its handle, or the filter manager ends the connection of
\* a filter that is being unregistered.
Disconnect(c) ==
    /\ conn[c] = "connected"
    /\ conn' = [conn EXCEPT ![c] = "gone"]
    /\ UNCHANGED <<load, resourceVars, threadVars, port, message,
                   permissionVars, volumeVars, rules, fault>>

\* Mutant: the client port is not closed.
ControlPortNotClosed ==
    /\ conn["control"] = "gone"
    /\ message = "none"
    /\ UNCHANGED vars

\* The disconnect callbacks close the client port.  The last message has been
\* handled by then.
FgcControlPortDisconnectCallback ==
    /\ conn["control"] = "gone"
    /\ message = "none"
    /\ conn' = [conn EXCEPT !["control"] = "none"]
    /\ UNCHANGED <<load, resourceVars, threadVars, port, message,
                   permissionVars, volumeVars, rules, fault>>

FgcMonitorPortDisconnectCallback ==
    /\ conn["monitor"] = "gone"
    /\ conn' = [conn EXCEPT !["monitor"] = "none"]
    /\ UNCHANGED <<load, resourceVars, threadVars, port, message,
                   permissionVars, volumeVars, rules, fault>>

-----------------------------------------------------------------------------
(* FgcControlMessageNotifyCallback.                                        *)

ReceiveMessage(m) ==
    /\ conn["control"] = "connected"
    /\ message = "none"
    /\ \A k \in Permissions : m = Allow[k] => grants[k] < MaxGrants
    /\ message' = m
    /\ UNCHANGED <<load, resourceVars, threadVars, port, conn, permissionVars,
                   volumeVars, rules, fault>>

\* SetUnloadAcceptable and SetDetachAcceptable.
SetAcceptable(k) ==
    /\ message \in {Allow[k], Forbid[k]}
    /\ accept' = [accept EXCEPT ![k] = (message = Allow[k])]
    /\ grants' = [grants EXCEPT ![k] = IF message = Allow[k] THEN @ + 1 ELSE @]
    /\ message' = "none"
    /\ UNCHANGED <<load, resourceVars, threadVars, port, conn, spent,
                   volumeVars, rules, fault>>

\* The rules in the list after a message (see Enforcement).  A message without
\* a buffer for its result changes nothing; AddRules and RemoveRules answer
\* STATUS_INVALID_PARAMETER_2 when there is no lock.
RulesAfter(m) ==
    CASE m = "add_rules" /\ lock # "null" -> rules .. MaxRules
      [] m = "remove_rules" /\ lock # "null" -> 0 .. rules
      [] m = "cleanup_rules" /\ lock # "null" -> {0, rules}
      [] OTHER -> {rules}

HandleMessage ==
    /\ message \in Messages
    /\ \A k \in Permissions : message \notin {Allow[k], Forbid[k]}
    /\ rules' \in RulesAfter(message)
    /\ message' = "none"
    /\ UNCHANGED <<load, resourceVars, threadVars, port, conn, permissionVars,
                   volumeVars, fault>>

HandleMessageNullLock ==
    /\ message \in {"check_matched_rule", "cleanup_rules"}
    /\ lock = "null"
    /\ fault' = "null_lock"
    /\ UNCHANGED <<load, resourceVars, threadVars, portVars, permissionVars,
                   volumeVars, rules>>

-----------------------------------------------------------------------------
(* Instances and file operations.                                          *)

\* FltUnregisterFilter lets no new callback in.
Filtering == filter = "filtering" /\ load \notin {"undo_filter", "unregister"}

\* Volumes other than NTFS, or whose name cannot be had, stay without an
\* instance.
FgcInstanceSetup(v) ==
    /\ Filtering
    /\ v \notin attached \cup busy
    /\ attached' = attached \cup {v}
    /\ UNCHANGED <<load, resourceVars, threadVars, portVars, permissionVars,
                   busy, rules, fault>>

\* Mutant: the permission is read and not taken away.
QueryTeardownKeepsPermission(v) ==
    /\ v \in attached
    /\ accept["detach"]
    /\ spent' = [spent EXCEPT !["detach"] = @ + 1]
    /\ attached' = attached \ {v}
    /\ UNCHANGED <<load, resourceVars, threadVars, portVars, accept, grants,
                   busy, rules, fault>>

\* A detach that is asked for takes the permission.  The instance gets no new
\* operation; those inside a callback go on.
FgcInstanceQueryTeardown(v) ==
    /\ v \in attached
    /\ accept["detach"]
    /\ accept' = [accept EXCEPT !["detach"] = FALSE]
    /\ spent' = [spent EXCEPT !["detach"] = @ + 1]
    /\ attached' = attached \ {v}
    /\ UNCHANGED <<load, resourceVars, threadVars, portVars, grants, busy, rules,
                   fault>>

RefuseTeardown(v) ==
    /\ v \in attached
    /\ ~ accept["detach"]
    /\ UNCHANGED vars

\* A dismount detaches the instance without asking.
VolumeDismounted(v) ==
    /\ v \in attached
    /\ attached' = attached \ {v}
    /\ UNCHANGED <<load, resourceVars, threadVars, portVars, permissionVars,
                   busy, rules, fault>>

BeginOperation(v) ==
    /\ Filtering
    /\ v \in attached \ busy
    /\ lock # "null"
    /\ busy' = busy \cup {v}
    /\ UNCHANGED <<load, resourceVars, threadVars, portVars, permissionVars,
                   attached, rules, fault>>

\* An open takes the lock in FgcMatchRules.
OpenNullLock(v) ==
    /\ Filtering
    /\ v \in attached \ busy
    /\ lock = "null"
    /\ fault' = "null_lock"
    /\ UNCHANGED <<load, resourceVars, threadVars, portVars, permissionVars,
                   volumeVars, rules>>

EndOperation(v) ==
    /\ v \in busy
    /\ busy' = busy \ {v}
    /\ UNCHANGED <<load, resourceVars, threadVars, portVars, permissionVars,
                   attached, rules, fault>>

\* Nothing is left to run, or nothing is known of what follows.
Halted ==
    /\ fault # "none" \/ load \in {"failed", "unloaded"}
    /\ UNCHANGED vars

-----------------------------------------------------------------------------
DriverEntryStep ==
    \/ FgcSetConfiguration \/ InitialiseGlobals \/ RegisterFilter
    \/ BuildSecurityDescriptor \/ CreateControlPort \/ CreateMonitorPort
    \/ CreateMonitorContext \/ CreateMonitorThread \/ StartFiltering
    \/ UndoPorts \/ UndoFilter \/ UndoMonitor \/ UndoUninitialised

UnloadStep ==
    \/ UnregisterFilter \/ StopMonitor \/ WaitMonitor \/ FreeMonitorContext
    \/ FreeRules \/ FreeRulesNullLock

MessageStep ==
    \/ \E k \in Permissions : SetAcceptable(k)
    \/ HandleMessage \/ HandleMessageNullLock

Next ==
    \/ /\ fault = "none"
       /\ \/ DriverEntryStep \/ LoadFails
          \/ RefuseUnload \/ BeginUnload \/ UnloadStep
          \/ ThreadEnds \/ UseFreedContext
          \/ FgcControlPortConnectCallback
          \/ FgcMonitorPortConnectCallback \/ ConnectWithoutContext
          \/ \E c \in Ports : Disconnect(c)
          \/ FgcControlPortDisconnectCallback \/ FgcMonitorPortDisconnectCallback
          \/ \E m \in Messages : ReceiveMessage(m)
          \/ MessageStep
          \/ \E v \in Volumes :
                \/ FgcInstanceSetup(v) \/ FgcInstanceQueryTeardown(v)
                \/ RefuseTeardown(v) \/ VolumeDismounted(v)
                \/ BeginOperation(v) \/ OpenNullLock(v) \/ EndOperation(v)
    \/ Halted

Spec == Init /\ [][Next]_vars

\* DriverEntry and FgcUnload run on, callbacks and handlers return, and the
\* filter manager ends the connections of a filter that is being unregistered.
FairSpec ==
    /\ Spec
    /\ WF_vars(fault = "none" /\ DriverEntryStep)
    /\ WF_vars(fault = "none" /\ UnloadStep)
    /\ WF_vars(fault = "none" /\ MessageStep)
    /\ WF_vars(fault = "none" /\ FgcControlPortDisconnectCallback)
    /\ WF_vars(fault = "none" /\ FgcMonitorPortDisconnectCallback)
    /\ \A c \in Ports :
          WF_vars(/\ fault = "none" /\ load \in {"undo_filter", "unregister"}
                  /\ Disconnect(c))
    /\ \A v \in Volumes : WF_vars(fault = "none" /\ EndOperation(v))

-----------------------------------------------------------------------------
(* Properties.                                                             *)

\* Types; the thread object has no more references than were taken.
TypeOK ==
    /\ load \in {"configure", "initialise", "register", "secure", "control_port",
                 "monitor_port", "context", "thread", "start", "loaded",
                 "undo", "undo_filter", "undo_monitor", "failed",
                 "unregister", "stop", "wait", "free", "rules", "unloaded"}
    /\ filter \in {"none", "registered", "filtering", "unregistered"}
    /\ lists \in BOOLEAN
    /\ lock \in {"null", "allocated", "freed"}
    /\ descriptor \in BOOLEAN
    /\ context \in {"null", "allocated", "freed"}
    /\ thread \in {"none", "running", "ended"}
    /\ threadRefs \in 0 .. 2
    /\ endFlag \in BOOLEAN
    /\ port \in [Ports -> {"none", "open", "closed"}]
    /\ conn \in [Ports -> {"none", "connected", "gone"}]
    /\ message \in Messages \cup {"none"}
    /\ accept \in [Permissions -> BOOLEAN]
    /\ grants \in [Permissions -> Nat]
    /\ spent \in [Permissions -> Nat]
    /\ attached \subseteq Volumes
    /\ busy \subseteq Volumes
    /\ rules \in 0 .. MaxRules
    /\ fault \in {"none", "null_link", "null_lock", "null_context", "freed_context"}

\* Whatever runs finds what it uses: a message handler the list heads and a
\* lock that is not freed, a file operation the lock and the monitor context
\* it records matches in, a connection to the monitor port its context.
CallbacksHaveState ==
    /\ message # "none" => lists /\ lock # "freed"
    /\ busy # {} => lock = "allocated" /\ context = "allocated"
    /\ conn["monitor"] # "none" => context = "allocated"

\* One message that allows an unload or a detach lets one of them through,
\* whoever asks for it and however requests and messages interleave.
PermissionsSpent ==
    \A k \in Permissions : spent[k] + (IF accept[k] THEN 1 ELSE 0) <= grants[k]

\* A load that failed, at whatever step and with whatever clients already
\* connected: before the monitor is undone nobody can call into the driver any
\* more, and DriverEntry returns without context or descriptor.  It does leave
\* things behind, and no others: the lock; the rules clients added, if the
\* filter had been registered; the thread with the references to its object, if
\* it had been created, which takes a context.  A configuration that could not
\* be read does not get as far as "failed" (UndoUninitialised).
LoadFailureUndone ==
    /\ load \in {"undo_monitor", "failed"} =>
          /\ filter \notin {"registered", "filtering"} /\ attached = {} /\ busy = {}
          /\ message = "none"
          /\ \A c \in Ports : port[c] # "open" /\ conn[c] = "none"
    /\ load = "failed" =>
          /\ context # "allocated" /\ ~ descriptor
          /\ rules > 0 => filter = "unregistered"
          /\ context = "null" => thread = "none" /\ threadRefs = 0

\* An unload gives back everything, in the middle of whatever it was called.
UnloadUndone ==
    load = "unloaded" =>
        /\ filter = "unregistered" /\ attached = {} /\ busy = {}
        /\ \A c \in Ports : port[c] = "closed" /\ conn[c] = "none"
        /\ context = "freed" /\ threadRefs = 0 /\ ~ descriptor
        /\ lock = "freed" /\ rules = 0

\* An unload that was accepted and a load that has failed come to their end,
\* with clients connected, messages in progress and operations running.
LoadAndUnloadComplete ==
    load \in {"undo", "unregister"}
        ~> (load \in {"failed", "unloaded"} \/ fault # "none")

\* EndMonitorFlag is the flag that ends the monitor thread: a load that failed
\* leaves no thread running in a driver that is going away.
FailedLoadEndsMonitor == load = "failed" => thread # "running"
=============================================================================
