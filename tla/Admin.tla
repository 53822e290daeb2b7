------------------------------- MODULE Admin -------------------------------
(***************************************************************************)
(* FileGuardAdmin: processes of the command line tool, from their start    *)
(* over the connection to the driver and one command to their exit code    *)
(* (FileGuardAdmin.cpp, with the library calls it makes).  A process may   *)
(* be killed between any two steps; other programs may ask for an unload   *)
(* or a detach at any time; the driver may be loaded again.                *)
(*                                                                         *)
(* How arguments become a command is the subject of CommandLine, how rules *)
(* are packed and fetched that of ControlProtocol; a message is one step   *)
(* here, and the rules of the driver are a set.                            *)
(***************************************************************************)
EXTENDS Rule

CONSTANTS
    Tools,      \* processes of the tool that exist at the same time
    None,       \* no process
    Lower,      \* std::tolower over a whole argument
    Majors,     \* the arguments given with --major-type
    Minors,     \* those given with --minor-type
    Exprs,      \* those given with --expr
    Paths,      \* those given with --path
    Formats,    \* those given with --format
    Volumes     \* volumes with an instance of the driver

ASSUME ToolsAssumption == None \notin Tools
ASSUME LowerAssumption == Lower \in [Strings -> Strings]
ASSUME ArgsAssumption ==
    Majors \cup Minors \cup Exprs \cup Paths \subseteq Strings

VARIABLES
    loaded,         \* the driver is loaded
    control,        \* the tool connected to its control port
    monitor,        \* the tool connected to its monitor port
    acceptUnload,   \* Globals.AcceptUnload
    acceptDetach,   \* Globals.AcceptDetach
    attached,       \* volumes with an instance
    rules,          \* the rules in the list
    pc,             \* where each tool is
    args,           \* its command and the arguments of it
    hr,             \* the exit code
    says,           \* what the tool has printed as the result
    abandoned       \* permissions whose command ended without using them

driverVars == <<loaded, acceptUnload, acceptDetach, attached, rules>>
toolVars == <<pc, args, hr, says>>
vars == <<driverVars, control, monitor, toolVars, abandoned>>

Permissions == {"unload", "detach"}
NoArgs == [cmd |-> "none"]

Commands ==
    {[cmd |-> c, major |-> ma, minor |-> mi, expr |-> e] :
        c \in {"add", "remove"}, ma \in Majors, mi \in Minors, e \in Exprs}
    \cup {[cmd |-> c, format |-> f] : c \in {"query", "monitor"}, f \in Formats}
    \cup {[cmd |-> "check", path |-> p, format |-> f] :
             p \in Paths, f \in Formats}
    \cup {[cmd |-> "detach", volume |-> v] : v \in Volumes}
    \cup {[cmd |-> "unload"], [cmd |-> "cleanup"]}

Init ==
    /\ loaded = TRUE
    /\ control = None
    /\ monitor = None
    /\ acceptUnload = FALSE
    /\ acceptDetach = FALSE
    /\ attached = Volumes
    /\ rules = {}
    /\ pc = [p \in Tools |-> "none"]
    /\ args = [p \in Tools |-> NoArgs]
    /\ hr = [p \in Tools |-> "S_OK"]
    /\ says = [p \in Tools |-> "nothing"]
    /\ abandoned = {}

-----------------------------------------------------------------------------
Goto(p, l) == pc' = [pc EXCEPT ![p] = l]

\* The command returns: its HRESULT becomes the exit code.
Leave(p, result, text) ==
    /\ Goto(p, "exit")
    /\ hr' = [hr EXCEPT ![p] = result]
    /\ says' = [says EXCEPT ![p] = text]

\* FilterSendMessage works for the tool that has the connection; the command
\* returns the error of any other, some say so.
CanSend(p) == control = p

SendFails(p, text) ==
    /\ ~ CanSend(p)
    /\ Leave(p, "INVALID_HANDLE", text)

\* The permissions the driver holds, and those a command leaves behind.
Granted == {x \in Permissions :
              IF x = "unload" THEN acceptUnload ELSE acceptDetach}

Abandon(x) == abandoned' = abandoned \cup ({x} \cap Granted)

\* wmain; CoreClient::New passes the handle on whether or not FglConnectCore
\* succeeded, and Admin::New drops its HRESULT.
New(p) ==
    /\ pc[p] = "none"
    /\ Goto(p, "version")
    /\ control' = IF loaded /\ control = None THEN p ELSE control
    /\ UNCHANGED <<driverVars, monitor, args, hr, says, abandoned>>

FglGetCoreVersion(p) == IF CanSend(p) THEN "version" ELSE "no version"

\* Parse asks for the driver's version before it looks at the arguments; an
\* error goes into the text.
GetVersionInfo(p) ==
    /\ pc[p] = "version"
    /\ Goto(p, "parse")
    /\ says' = [says EXCEPT ![p] = FglGetCoreVersion(p)]
    /\ UNCHANGED <<driverVars, control, monitor, args, hr, abandoned>>

\* CLI11_PARSE: help, the version or a usage error end the tool, otherwise
\* the callback of one command runs.
Parse(p) ==
    /\ pc[p] = "parse"
    /\ \/ /\ \E result \in {"S_OK", "USAGE"} : Leave(p, result, says[p])
          /\ UNCHANGED args
       \/ /\ Goto(p, "command")
          /\ \E c \in Commands : args' = [args EXCEPT ![p] = c]
          /\ UNCHANGED <<hr, says>>
    /\ UNCHANGED <<driverVars, control, monitor, abandoned>>

Running(p, c) == pc[p] = "command" /\ args[p].cmd = c

-----------------------------------------------------------------------------
(* Rules.                                                                  *)

RuleMajorNameToCode(w) ==
    CASE Lower[w] = "access-denied" -> RuleMajorAccessDenied
      [] Lower[w] = "readonly" -> RuleMajorReadonly
      [] OTHER -> RuleMajorNone

RuleMinorNameToCode(w) ==
    IF Lower[w] = "monitored" THEN RuleMinorMonitored ELSE RuleMinorNone

RuleOf(major, minor, expr) ==
    [major |-> RuleMajorNameToCode(major), minor |-> RuleMinorNameToCode(minor),
     expr |-> expr]

Known(user) == \E r \in rules : SameRule(user, r)

\* The rules after a message with one rule; the client is told whether they
\* have changed.
FglAddSingleRule(user) == IF Known(user) THEN rules ELSE rules \cup {NewRule(user)}
FglRemoveSingleRule(user) == {r \in rules : ~ SameRule(user, r)}

\* Mutant: the codes of unknown names are sent to the driver.
CommandAddUnchecked(p) ==
    /\ Running(p, "add")
    /\ LET rule == RuleOf(args[p].major, args[p].minor, args[p].expr)
       IN  \/ SendFails(p, "nothing") /\ UNCHANGED rules
           \/ /\ CanSend(p)
              /\ Leave(p, "S_OK", IF Known(rule) THEN "already exist" ELSE "added")
              /\ rules' = FglAddSingleRule(rule)
    /\ UNCHANGED <<loaded, control, monitor, acceptUnload, acceptDetach,
                   attached, args, abandoned>>

CommandAdd(p) ==
    /\ Running(p, "add")
    /\ LET rule == RuleOf(args[p].major, args[p].minor, args[p].expr)
       IN  \/ /\ ~ VALID_RULE_CODE(rule)
              /\ Leave(p, "E_INVALIDARG", "invalid rule type")
              /\ UNCHANGED rules
           \/ VALID_RULE_CODE(rule) /\ SendFails(p, "nothing") /\ UNCHANGED rules
           \/ /\ VALID_RULE_CODE(rule) /\ CanSend(p)
              /\ \/ Leave(p, "NO_MEMORY", "nothing") /\ UNCHANGED rules
                 \/ /\ Leave(p, "S_OK",
                             IF Known(rule) THEN "already exist" ELSE "added")
                    /\ rules' = FglAddSingleRule(rule)
    /\ UNCHANGED <<loaded, control, monitor, acceptUnload, acceptDetach,
                   attached, args, abandoned>>

\* The rule CommandRemove builds: it is called with the expression where it
\* takes the minor type, and the minor type where it takes the expression.
RuleToRemove(a) == RuleOf(a.major, a.expr, a.minor)

CommandRemove(p) ==
    /\ Running(p, "remove")
    /\ LET rule == RuleToRemove(args[p])
       IN  \/ /\ ~ VALID_RULE_CODE(rule)
              /\ Leave(p, "E_INVALIDARG", "invalid rule type")
              /\ UNCHANGED rules
           \/ VALID_RULE_CODE(rule) /\ SendFails(p, "nothing") /\ UNCHANGED rules
           \/ /\ VALID_RULE_CODE(rule) /\ CanSend(p)
              /\ Leave(p, "S_OK", IF Known(rule) THEN "removed" ELSE "not found")
              /\ rules' = FglRemoveSingleRule(rule)
    /\ UNCHANGED <<loaded, control, monitor, acceptUnload, acceptDetach,
                   attached, args, abandoned>>

GoodFormat(f) == f \in {"list", "csv"}

\* CommandQuery; nobody else can send between its two messages.
CommandQuery(p) ==
    /\ Running(p, "query")
    /\ \/ ~ GoodFormat(args[p].format) /\ Leave(p, "E_INVALIDARG", "invalid format")
       \/ GoodFormat(args[p].format) /\ SendFails(p, "nothing")
       \/ /\ GoodFormat(args[p].format) /\ CanSend(p)
          /\ Leave(p, "S_OK", IF rules = {} THEN "empty" ELSE "rules")
    /\ UNCHANGED <<driverVars, control, monitor, args, abandoned>>

\* STATUS_NOT_FOUND of FgcMatchRulesEx is an error for the client.
CommandCheckMatched(p) ==
    /\ Running(p, "check")
    /\ \/ ~ GoodFormat(args[p].format) /\ Leave(p, "E_INVALIDARG", "invalid format")
       \/ GoodFormat(args[p].format) /\ SendFails(p, "nothing")
       \/ /\ GoodFormat(args[p].format) /\ CanSend(p)
          /\ IF \E r \in rules : NameInExpression(r.expr, args[p].path)
             THEN Leave(p, "S_OK", "rules")
             ELSE Leave(p, "NOT_FOUND", "nothing")
    /\ UNCHANGED <<driverVars, control, monitor, args, abandoned>>

\* Mutant: the message is sent and its result not waited for.
CommandCleanupUnsent(p) ==
    /\ Running(p, "cleanup")
    /\ \/ SendFails(p, "error")
       \/ CanSend(p) /\ Leave(p, "S_OK", "cleaned")
    /\ UNCHANGED <<driverVars, control, monitor, args, abandoned>>

CommandCleanup(p) ==
    /\ Running(p, "cleanup")
    /\ \/ SendFails(p, "error") /\ UNCHANGED rules
       \/ CanSend(p) /\ Leave(p, "S_OK", "cleaned") /\ rules' = {}
    /\ UNCHANGED <<loaded, control, monitor, acceptUnload, acceptDetach,
                   attached, args, abandoned>>

-----------------------------------------------------------------------------
(* The monitor command: the loop of Receiver, which never ends by itself.  *)

CommandMonitor(p) ==
    /\ Running(p, "monitor")
    /\ \/ /\ ~ GoodFormat(args[p].format)
          /\ Leave(p, "E_INVALIDARG", "invalid format")
          /\ UNCHANGED monitor
       \/ /\ GoodFormat(args[p].format)
          /\ ~ loaded \/ monitor # None
          /\ Leave(p, "REFUSED", "nothing")
          /\ UNCHANGED monitor
       \/ /\ GoodFormat(args[p].format)
          /\ loaded /\ monitor = None
          /\ monitor' = p
          /\ Goto(p, "monitoring")
          /\ UNCHANGED <<hr, says>>
    /\ UNCHANGED <<driverVars, control, args, abandoned>>

\* Mutant: an error of FilterGetMessage is tried again.
MonitorFailsRetried(p) ==
    /\ pc[p] = "monitoring"
    /\ monitor # p /\ loaded
    /\ Leave(p, "PORT_CLOSED", "records")
    /\ UNCHANGED <<driverVars, control, monitor, args, abandoned>>

\* FilterGetMessage fails when the driver has closed the port.
MonitorFails(p) ==
    /\ pc[p] = "monitoring"
    /\ monitor # p
    /\ Leave(p, "PORT_CLOSED", "records")
    /\ UNCHANGED <<driverVars, control, monitor, args, abandoned>>

-----------------------------------------------------------------------------
(* Unload and detach.                                                      *)

SetUnloadAcceptable(p) ==
    /\ Running(p, "unload")
    /\ \/ SendFails(p, "error") /\ UNCHANGED acceptUnload
       \/ /\ CanSend(p)
          /\ acceptUnload' = TRUE
          /\ Goto(p, "token")
          /\ UNCHANGED <<hr, says>>
    /\ UNCHANGED <<loaded, control, monitor, acceptDetach, attached, rules,
                   args, abandoned>>

\* OpenProcessToken, LookupPrivilegeValue and AdjustTokenPrivileges: when one
\* fails the command ends, and the permission is not taken back.
AdjustPrivileges(p) ==
    /\ pc[p] = "token"
    /\ \/ Goto(p, "unload") /\ UNCHANGED <<hr, says, abandoned>>
       \/ /\ Leave(p, "NO_PRIVILEGE", "error")
          /\ Abandon("unload")
    /\ UNCHANGED <<driverVars, control, monitor, args>>

\* FgcUnload, when the permission is there: both ports are closed.
UnloadDriver ==
    /\ loaded /\ acceptUnload
    /\ loaded' = FALSE
    /\ acceptUnload' = FALSE
    /\ acceptDetach' = FALSE
    /\ attached' = {}
    /\ rules' = {}
    /\ control' = None
    /\ monitor' = None
    /\ abandoned' = {}

\* FilterUnload fails when the driver is gone or refuses, or when the
\* privilege was not really given.
FilterUnload(p) ==
    /\ pc[p] = "unload"
    /\ \/ UnloadDriver /\ Leave(p, "S_OK", "nothing")
       \/ /\ Leave(p, "REFUSED", "error")
          /\ Abandon("unload")
          /\ UNCHANGED <<driverVars, control, monitor>>
    /\ UNCHANGED args

SetDetachAcceptable(p) ==
    /\ Running(p, "detach")
    /\ \/ SendFails(p, "error") /\ UNCHANGED acceptDetach
       \/ /\ CanSend(p)
          /\ acceptDetach' = TRUE
          /\ Goto(p, "detach")
          /\ UNCHANGED <<hr, says>>
    /\ UNCHANGED <<loaded, control, monitor, acceptUnload, attached, rules,
                   args, abandoned>>

\* FgcInstanceQueryTeardown takes the permission.
DetachInstance(v) ==
    /\ v \in attached /\ acceptDetach
    /\ acceptDetach' = FALSE
    /\ attached' = attached \ {v}
    /\ abandoned' = abandoned \ {"detach"}

\* Mutant: a failure ends the command, as in CommandUnload.
FilterDetachReturns(p) ==
    /\ pc[p] = "detach"
    /\ \/ /\ DetachInstance(args[p].volume)
          /\ Goto(p, "takeback")
          /\ UNCHANGED <<hr, says>>
       \/ /\ Leave(p, "REFUSED", "error")
          /\ UNCHANGED <<acceptDetach, attached, abandoned>>
    /\ UNCHANGED <<loaded, control, monitor, acceptUnload, rules, args>>

\* FilterDetach; its failure is printed and the command goes on.
FilterDetach(p) ==
    /\ pc[p] = "detach"
    /\ Goto(p, "takeback")
    /\ \/ DetachInstance(args[p].volume) /\ UNCHANGED says
       \/ /\ says' = [says EXCEPT ![p] = "error"]
          /\ UNCHANGED <<acceptDetach, attached, abandoned>>
    /\ UNCHANGED <<loaded, control, monitor, acceptUnload, rules, args, hr>>

TakeBackDetach(p) ==
    /\ pc[p] = "takeback"
    /\ \/ SendFails(p, "error") /\ UNCHANGED <<acceptDetach, abandoned>>
       \/ /\ CanSend(p)
          /\ acceptDetach' = FALSE
          /\ Leave(p, "S_OK", says[p])
          /\ abandoned' = abandoned \ {"detach"}
    /\ UNCHANGED <<loaded, control, monitor, acceptUnload, attached, rules, args>>

-----------------------------------------------------------------------------
(* The end of a process, and the others.                                   *)

\* The handles are closed with the process.
EndProcess(p) ==
    /\ Goto(p, "none")
    /\ args' = [args EXCEPT ![p] = NoArgs]
    /\ hr' = [hr EXCEPT ![p] = "S_OK"]
    /\ says' = [says EXCEPT ![p] = "nothing"]
    /\ control' = IF control = p THEN None ELSE control
    /\ monitor' = IF monitor = p THEN None ELSE monitor

Exit(p) ==
    /\ pc[p] = "exit"
    /\ EndProcess(p)
    /\ UNCHANGED <<driverVars, abandoned>>

\* The tool is killed; what it had permitted stays so.
Kill(p) ==
    /\ pc[p] \notin {"none", "exit"}
    /\ EndProcess(p)
    /\ CASE pc[p] \in {"token", "unload"} -> Abandon("unload")
         [] pc[p] \in {"detach", "takeback"} -> Abandon("detach")
         [] OTHER -> UNCHANGED abandoned
    /\ UNCHANGED driverVars

\* Another program unloads the driver or detaches an instance.
OtherUnload == UnloadDriver /\ UNCHANGED toolVars

OtherDetach ==
    /\ \E v \in Volumes : DetachInstance(v)
    /\ UNCHANGED <<loaded, control, monitor, acceptUnload, rules, toolVars>>

\* DriverEntry; instances are set up again.
Load ==
    /\ ~ loaded
    /\ loaded' = TRUE
    /\ attached' = Volumes
    /\ UNCHANGED <<control, monitor, acceptUnload, acceptDetach, rules, toolVars,
                   abandoned>>

ToolStep(p) ==
    \/ GetVersionInfo(p) \/ Parse(p)
    \/ CommandAdd(p) \/ CommandRemove(p) \/ CommandQuery(p)
    \/ CommandCheckMatched(p) \/ CommandCleanup(p)
    \/ CommandMonitor(p) \/ MonitorFails(p)
    \/ SetUnloadAcceptable(p) \/ AdjustPrivileges(p) \/ FilterUnload(p)
    \/ SetDetachAcceptable(p) \/ FilterDetach(p) \/ TakeBackDetach(p)
    \/ Exit(p)

Next ==
    \/ \E p \in Tools : New(p) \/ ToolStep(p) \/ Kill(p)
    \/ OtherUnload \/ OtherDetach \/ Load

\* A process that has been started runs on.
Spec == Init /\ [][Next]_vars /\ \A p \in Tools : WF_vars(ToolStep(p))

-----------------------------------------------------------------------------
(* Properties.                                                             *)

\* Types; the tool puts no rule into the driver whose code is not valid.
TypeOK ==
    /\ loaded \in BOOLEAN /\ acceptUnload \in BOOLEAN /\ acceptDetach \in BOOLEAN
    /\ control \in Tools \cup {None}
    /\ monitor \in Tools \cup {None}
    /\ attached \subseteq Volumes
    /\ rules \subseteq {r \in RuleType : VALID_RULE_CODE(r)}
    /\ pc \in [Tools -> {"none", "version", "parse", "command", "monitoring",
                         "token", "unload", "detach", "takeback", "exit"}]
    /\ args \in [Tools -> Commands \cup {NoArgs}]
    /\ abandoned \subseteq Permissions

\* The driver may be unloaded or detached only while a command that asked
\* for it is at work, or after one was cut short: killed, or, for an unload,
\* refused.  In particular a detach that fails takes its permission back.
PermissionsAccounted ==
    /\ acceptUnload =>
          "unload" \in abandoned \/ \E p \in Tools : pc[p] \in {"token", "unload"}
    /\ acceptDetach =>
          "detach" \in abandoned \/ \E p \in Tools : pc[p] \in {"detach", "takeback"}

\* A tool that has the connection has the rules for itself: when its command
\* has succeeded and it has not let go of the connection yet, the driver has
\* the rules it has reported, whatever other tools tried meanwhile.
WorkStands ==
    \A p \in Tools : control = p /\ pc[p] = "exit" /\ hr[p] = "S_OK" =>
        /\ args[p].cmd = "add" =>
              Known(RuleOf(args[p].major, args[p].minor, args[p].expr))
        /\ args[p].cmd = "cleanup" => rules = {}
        /\ args[p].cmd = "query" => (says[p] = "empty" <=> rules = {})

\* Every process that was started ends, connected or not, except one that
\* receives records; and that one ends when the driver is unloaded.
ToolsEnd ==
    \A p \in Tools :
        pc[p] # "none" ~> pc[p] = "none" \/ (pc[p] = "monitoring" /\ monitor = p)

\* `remove` accepts the names of rule types that `add` accepts.
RemoveAcceptsNames ==
    \A p \in Tools :
        pc[p] = "exit" /\ args[p].cmd = "remove"
            /\ VALID_RULE_CODE(RuleOf(args[p].major, args[p].minor, args[p].expr))
            => hr[p] # "E_INVALIDARG"
=============================================================================
