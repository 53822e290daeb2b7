---------------------------- MODULE AdminProofs ----------------------------
(***************************************************************************)
(* Proofs about Admin, for any number of processes of the tool, any names  *)
(* and any volumes: permissions are accounted for, and what a connected    *)
(* tool reports of the rules is so.                                        *)
(***************************************************************************)
EXTENDS Admin, TLAPS

-----------------------------------------------------------------------------
(* The inductive invariant.                                                *)

Places == {"none", "version", "parse", "command", "monitoring", "token",
           "unload", "detach", "takeback", "exit"}
Results == {"S_OK", "USAGE", "INVALID_HANDLE", "E_INVALIDARG", "NO_MEMORY",
            "NOT_FOUND", "REFUSED", "PORT_CLOSED", "NO_PRIVILEGE"}
Texts == {"nothing", "version", "no version", "error", "invalid rule type",
          "already exist", "added", "removed", "not found", "invalid format",
          "empty", "rules", "cleaned", "records"}

\* The types, with those of the exit code and of the text.
Typed ==
    /\ TypeOK
    /\ hr \in [Tools -> Results]
    /\ says \in [Tools -> Texts]

\* A tool has no command before its arguments are parsed, and is at the steps
\* of a detach only for a detach.
CommandShape ==
    \A p \in Tools :
        /\ pc[p] = "parse" => args[p].cmd = "none"
        /\ pc[p] \in {"none", "version"} => args[p].cmd = "none"
        /\ pc[p] \in {"detach", "takeback"} => args[p].cmd = "detach"

\* A permission to unload outlives a connection, so any tool may be the one
\* that asked for it; a permission to detach that was not abandoned belongs to
\* the tool that is connected, which is what lets a tool that has lost its
\* connection leave without taking a permission back.
UnloadAccounted ==
    acceptUnload =>
        "unload" \in abandoned \/ \E p \in Tools : pc[p] \in {"token", "unload"}

DetachAccounted ==
    acceptDetach =>
        \/ "detach" \in abandoned
        \/ \E p \in Tools : control = p /\ pc[p] \in {"detach", "takeback"}

AdminInv ==
    /\ Typed
    /\ CommandShape
    /\ UnloadAccounted
    /\ DetachAccounted
    /\ WorkStands

-----------------------------------------------------------------------------
(* Commands and rules.                                                     *)

\* The arguments a command has.
LEMMA CommandArgs ==
    ASSUME NEW c \in Commands \cup {NoArgs}
    PROVE  /\ c.cmd \in {"add", "remove"} =>
                 c.major \in Strings /\ c.minor \in Strings /\ c.expr \in Strings
           /\ c.cmd = "detach" => c.volume \in Volumes
<1>1. CASE c \in {[cmd |-> x, major |-> ma, minor |-> mi, expr |-> e] :
             x \in {"add", "remove"}, ma \in Majors, mi \in Minors, e \in Exprs}
  BY <1>1, ArgsAssumption
<1>2. CASE c \in {[cmd |-> x, format |-> f] : x \in {"query", "monitor"}, f \in Formats}
  BY <1>2
<1>3. CASE c \in {[cmd |-> "check", path |-> x, format |-> f] : x \in Paths, f \in Formats}
  BY <1>3
<1>4. CASE c \in {[cmd |-> "detach", volume |-> v] : v \in Volumes}
  BY <1>4
<1>5. CASE c \in {[cmd |-> "unload"], [cmd |-> "cleanup"], NoArgs}
  BY <1>5 DEF NoArgs
<1> QED
  BY <1>1, <1>2, <1>3, <1>4, <1>5 DEF Commands

\* A rule made from names is a rule; what the driver makes of it is the same
\* rule for the driver, and as valid.
LEMMA RuleMade ==
    ASSUME NEW major, NEW minor, NEW expr \in Strings
    PROVE  LET r == RuleOf(major, minor, expr)
           IN  /\ r \in RuleType /\ NewRule(r) \in RuleType
               /\ SameRule(r, NewRule(r))
               /\ VALID_RULE_CODE(r) => VALID_RULE_CODE(NewRule(r))
<1> DEFINE r == RuleOf(major, minor, expr)
<1>1. /\ RuleMajorNameToCode(major) \in MajorCodes
      /\ RuleMinorNameToCode(minor) \in MinorCodes
  BY DEF RuleMajorNameToCode, RuleMinorNameToCode, MajorCodes, MinorCodes,
     RuleMajorAccessDenied, RuleMajorReadonly, RuleMajorNone, RuleMinorMonitored,
     RuleMinorNone
<1>2. r \in RuleType /\ r.expr = expr
  BY <1>1 DEF RuleOf, RuleType
<1>3. Upcase[expr] \in Strings /\ Upcase[Upcase[expr]] = Upcase[expr]
  BY UpcaseAssumption
<1> HIDE DEF r
<1>4. /\ NewRule(r).major = r.major /\ NewRule(r).minor = r.minor
      /\ NewRule(r).expr = Upcase[expr] /\ NewRule(r) \in RuleType
  BY <1>2, <1>3 DEF NewRule, RuleType
<1>5. SameRule(r, NewRule(r))
  BY <1>2, <1>3, <1>4 DEF SameRule, CodeValue
<1>6. VALID_RULE_CODE(r) => VALID_RULE_CODE(NewRule(r))
  BY <1>4 DEF VALID_RULE_CODE
<1> QED
  BY <1>2, <1>4, <1>5, <1>6 DEF r

-----------------------------------------------------------------------------
(* The steps.                                                              *)


\* Every variable stays in its type; only valid rules reach the driver.
LEMMA NextTyped ==
    ASSUME Typed, [Next]_vars
    PROVE  Typed'
<1> USE DEF Typed, TypeOK, driverVars, toolVars
<1>1. ASSUME NEW p \in Tools, CommandAdd(p)
      PROVE  Typed'
  <2> DEFINE r == RuleOf(args[p].major, args[p].minor, args[p].expr)
  <2>1. args[p].expr \in Strings
    BY <1>1, CommandArgs DEF CommandAdd, Running
  <2>2. rules' \subseteq {x \in RuleType : VALID_RULE_CODE(x)}
    <3>1. rules' \in {rules, FglAddSingleRule(r)} /\ (rules' # rules => VALID_RULE_CODE(r))
      BY <1>1 DEF CommandAdd
    <3> QED
      BY <2>1, <3>1, RuleMade DEF FglAddSingleRule
  <2> QED
    BY <1>1, <2>2 DEF CommandAdd, Leave, SendFails, Goto, Results, Texts
<1>2. ASSUME NEW p \in Tools, CommandRemove(p)
      PROVE  Typed'
  <2>1. rules' \subseteq rules
    BY <1>2 DEF CommandRemove, FglRemoveSingleRule
  <2> QED
    BY <1>2, <2>1 DEF CommandRemove, Leave, SendFails, Goto, Results, Texts
<1>3. ASSUME NEW p \in Tools,
             \/ CommandQuery(p) \/ CommandCheckMatched(p) \/ CommandCleanup(p)
      PROVE  Typed'
  BY <1>3, ZenonT(40) DEF CommandQuery, CommandCheckMatched, CommandCleanup, Leave, SendFails, Goto,
     Results, Texts
<1>4. ASSUME NEW p \in Tools, New(p) \/ GetVersionInfo(p) \/ Parse(p)
      PROVE  Typed'
  BY <1>4, ZenonT(40) DEF New, GetVersionInfo, Parse, FglGetCoreVersion, Leave, Goto, Results, Texts
<1>5. ASSUME NEW p \in Tools, CommandMonitor(p) \/ MonitorFails(p)
      PROVE  Typed'
  BY <1>5 DEF CommandMonitor, MonitorFails, Leave, Goto, Results, Texts
<1>6. ASSUME NEW p \in Tools,
             SetUnloadAcceptable(p) \/ AdjustPrivileges(p) \/ FilterUnload(p)
      PROVE  Typed'
  BY <1>6 DEF SetUnloadAcceptable, AdjustPrivileges, FilterUnload, UnloadDriver, Abandon,
     Granted, Permissions, Leave, SendFails, Goto, Results, Texts
<1>7. ASSUME NEW p \in Tools,
             SetDetachAcceptable(p) \/ FilterDetach(p) \/ TakeBackDetach(p)
      PROVE  Typed'
  BY <1>7 DEF SetDetachAcceptable, FilterDetach, DetachInstance, TakeBackDetach, Leave,
     SendFails, Goto, Results, Texts
<1>8. ASSUME NEW p \in Tools, Exit(p) \/ Kill(p)
      PROVE  Typed'
  <2>1. EndProcess(p) /\ UNCHANGED driverVars
    BY <1>8 DEF Exit, Kill
  <2>2. abandoned' \subseteq Permissions
    BY <1>8 DEF Exit, Kill, Abandon, Granted, Permissions
  <2> QED
    BY <2>1, <2>2 DEF EndProcess, Goto, Results, Texts
<1>9. CASE OtherUnload \/ OtherDetach \/ Load \/ UNCHANGED vars
  BY <1>9 DEF OtherUnload, OtherDetach, Load, UnloadDriver, DetachInstance, vars
<1> QED
  BY <1>1, <1>2, <1>3, <1>4, <1>5, <1>6, <1>7, <1>8, <1>9 DEF Next, ToolStep

\* A command is there from the parsing of the arguments to the exit.
LEMMA NextShape ==
    ASSUME Typed, CommandShape, [Next]_vars
    PROVE  CommandShape'
<1> USE DEF Typed, TypeOK, driverVars, toolVars, CommandShape, Goto
<1>1. ASSUME NEW p \in Tools,
             \/ CommandAdd(p) \/ CommandRemove(p) \/ CommandQuery(p)
             \/ CommandCheckMatched(p) \/ CommandCleanup(p)
             \/ CommandMonitor(p) \/ MonitorFails(p)
      PROVE  CommandShape'
  <2>1. UNCHANGED args /\ \E l \in {"exit", "monitoring"} : pc' = [pc EXCEPT ![p] = l]
    BY <1>1 DEF CommandAdd, CommandRemove, CommandQuery, CommandCheckMatched,
       CommandCleanup, CommandMonitor, MonitorFails, Leave, SendFails
  <2> QED
    BY <2>1
<1>2. ASSUME NEW p \in Tools, New(p) \/ GetVersionInfo(p) \/ Parse(p)
      PROVE  CommandShape'
  BY <1>2 DEF New, GetVersionInfo, Parse, Leave
<1>3. ASSUME NEW p \in Tools,
             SetUnloadAcceptable(p) \/ AdjustPrivileges(p) \/ FilterUnload(p)
      PROVE  CommandShape'
  <2>1. /\ UNCHANGED args
        /\ \E l \in {"exit", "token", "unload"} : pc' = [pc EXCEPT ![p] = l]
    BY <1>3 DEF SetUnloadAcceptable, AdjustPrivileges, FilterUnload, Leave, SendFails
  <2> QED
    BY <2>1
<1>4. ASSUME NEW p \in Tools,
             SetDetachAcceptable(p) \/ FilterDetach(p) \/ TakeBackDetach(p)
      PROVE  CommandShape'
  <2>1. args[p].cmd = "detach"
    BY <1>4 DEF SetDetachAcceptable, FilterDetach, TakeBackDetach, Running
  <2>2. /\ UNCHANGED args
        /\ \E l \in {"exit", "detach", "takeback"} : pc' = [pc EXCEPT ![p] = l]
    BY <1>4 DEF SetDetachAcceptable, FilterDetach, TakeBackDetach, Leave, SendFails
  <2> QED
    BY <2>1, <2>2
<1>5. ASSUME NEW p \in Tools, Exit(p) \/ Kill(p)
      PROVE  CommandShape'
  <2>1. EndProcess(p)
    BY <1>5 DEF Exit, Kill
  <2> QED
    BY <2>1 DEF EndProcess, NoArgs
<1>6. CASE OtherUnload \/ OtherDetach \/ Load \/ UNCHANGED vars
  BY <1>6 DEF OtherUnload, OtherDetach, Load, vars
<1> QED
  BY <1>1, <1>2, <1>3, <1>4, <1>5, <1>6 DEF Next, ToolStep

\* Whoever leaves the unload command without having unloaded the driver leaves
\* the permission behind as abandoned.
LEMMA NextUnloadAccounted ==
    ASSUME Typed, UnloadAccounted, [Next]_vars
    PROVE  UnloadAccounted'
<1> USE DEF Typed, TypeOK, driverVars, toolVars, UnloadAccounted, Goto
<1>1. ASSUME NEW p \in Tools, pc[p] \notin {"token", "unload"},
             UNCHANGED <<acceptUnload, abandoned>>, NEW l, pc' = [pc EXCEPT ![p] = l]
      PROVE  UnloadAccounted'
  BY <1>1
<1>2. ASSUME NEW p \in Tools,
             \/ New(p) \/ GetVersionInfo(p) \/ Parse(p)
             \/ CommandAdd(p) \/ CommandRemove(p) \/ CommandQuery(p)
             \/ CommandCheckMatched(p) \/ CommandCleanup(p)
             \/ CommandMonitor(p) \/ MonitorFails(p)
             \/ SetDetachAcceptable(p) \/ Exit(p)
      PROVE  UnloadAccounted'
  <2>1. /\ pc[p] \notin {"token", "unload"} /\ UNCHANGED <<acceptUnload, abandoned>>
        /\ \E l : pc' = [pc EXCEPT ![p] = l]
    BY <1>2 DEF New, GetVersionInfo, Parse, CommandAdd, CommandRemove, CommandQuery,
       CommandCheckMatched, CommandCleanup, CommandMonitor, MonitorFails,
       SetDetachAcceptable, Exit, EndProcess, Running, Leave, SendFails
  <2> QED
    BY <1>1, <2>1
<1>3. ASSUME NEW p \in Tools, SetUnloadAcceptable(p)
      PROVE  UnloadAccounted'
  BY <1>3 DEF SetUnloadAcceptable, SendFails, Leave, Running
<1>4. ASSUME NEW p \in Tools, AdjustPrivileges(p)
      PROVE  UnloadAccounted'
  BY <1>4 DEF AdjustPrivileges, Leave, Abandon, Granted, Permissions
<1>5. ASSUME NEW p \in Tools, FilterUnload(p)
      PROVE  UnloadAccounted'
  BY <1>5 DEF FilterUnload, UnloadDriver, Leave, Abandon, Granted, Permissions
<1>6. ASSUME NEW p \in Tools, FilterDetach(p) \/ TakeBackDetach(p)
      PROVE  UnloadAccounted'
  <2>1. /\ pc[p] \notin {"token", "unload"} /\ UNCHANGED acceptUnload
        /\ \E l : pc' = [pc EXCEPT ![p] = l]
        /\ abandoned' \in {abandoned, abandoned \ {"detach"}}
    BY <1>6 DEF FilterDetach, DetachInstance, TakeBackDetach, SendFails, Leave
  <2> QED
    BY <2>1
<1>7. ASSUME NEW p \in Tools, Kill(p)
      PROVE  UnloadAccounted'
  <2>1. UNCHANGED acceptUnload /\ \A q \in Tools \ {p} : pc'[q] = pc[q]
    BY <1>7 DEF Kill, EndProcess
  <2>2. abandoned \subseteq abandoned'
    BY <1>7 DEF Kill, Abandon
  <2>3. pc[p] \in {"token", "unload"} /\ acceptUnload => "unload" \in abandoned'
    BY <1>7 DEF Kill, Abandon, Granted, Permissions
  <2> QED
    BY <2>1, <2>2, <2>3
<1>8. CASE OtherUnload \/ OtherDetach \/ Load \/ UNCHANGED vars
  BY <1>8 DEF OtherUnload, OtherDetach, Load, UnloadDriver, DetachInstance, vars
<1> QED
  BY <1>2, <1>3, <1>4, <1>5, <1>6, <1>7, <1>8 DEF Next, ToolStep

\* The connected tool takes the permission to detach back, or is killed and
\* abandons it; an unload takes both the connection and the permission.
LEMMA NextDetachAccounted ==
    ASSUME Typed, DetachAccounted, [Next]_vars
    PROVE  DetachAccounted'
<1> USE DEF Typed, TypeOK, driverVars, toolVars, DetachAccounted, Goto
<1>1. ASSUME NEW p \in Tools, pc[p] \notin {"detach", "takeback"},
             UNCHANGED acceptDetach, abandoned \subseteq abandoned',
             control' = control \/ control \in {p, None},
             NEW l, pc' = [pc EXCEPT ![p] = l]
      PROVE  DetachAccounted'
  BY <1>1, ToolsAssumption
<1>2. ASSUME NEW p \in Tools,
             \/ New(p) \/ GetVersionInfo(p) \/ Parse(p)
             \/ CommandAdd(p) \/ CommandRemove(p) \/ CommandQuery(p)
             \/ CommandCheckMatched(p) \/ CommandCleanup(p)
             \/ CommandMonitor(p) \/ MonitorFails(p)
             \/ SetUnloadAcceptable(p) \/ AdjustPrivileges(p) \/ Exit(p)
      PROVE  DetachAccounted'
  <2>1. /\ pc[p] \notin {"detach", "takeback"} /\ UNCHANGED acceptDetach
        /\ abandoned \subseteq abandoned'
        /\ control' = control \/ control \in {p, None}
        /\ \E l : pc' = [pc EXCEPT ![p] = l]
    BY <1>2 DEF New, GetVersionInfo, Parse, CommandAdd, CommandRemove, CommandQuery,
       CommandCheckMatched, CommandCleanup, CommandMonitor, MonitorFails,
       SetUnloadAcceptable, AdjustPrivileges, Exit, EndProcess, Running, Leave, SendFails,
       Abandon
  <2> QED
    BY <1>1, <2>1
<1>3. ASSUME NEW p \in Tools, FilterUnload(p)
      PROVE  DetachAccounted'
  <2>1. CASE UnloadDriver
    BY <2>1 DEF UnloadDriver
  <2>2. CASE ~ UnloadDriver
    BY <1>1, <1>3, <2>2 DEF FilterUnload, Leave, Abandon
  <2> QED
    BY <2>1, <2>2
<1>4. ASSUME NEW p \in Tools, SetDetachAcceptable(p)
      PROVE  DetachAccounted'
  <2>1. CASE CanSend(p)
    BY <1>4, <2>1 DEF SetDetachAcceptable, CanSend, SendFails
  <2>2. CASE ~ CanSend(p)
    BY <1>1, <1>4, <2>2 DEF SetDetachAcceptable, SendFails, Leave, Running
  <2> QED
    BY <2>1, <2>2
<1>5. ASSUME NEW p \in Tools, FilterDetach(p)
      PROVE  DetachAccounted'
  BY <1>5 DEF FilterDetach, DetachInstance
<1>6. ASSUME NEW p \in Tools, TakeBackDetach(p)
      PROVE  DetachAccounted'
  BY <1>6 DEF TakeBackDetach, CanSend, SendFails, Leave
<1>7. ASSUME NEW p \in Tools, Kill(p)
      PROVE  DetachAccounted'
  <2>1. /\ UNCHANGED acceptDetach /\ \A q \in Tools \ {p} : pc'[q] = pc[q]
        /\ control # p => control' = control
    BY <1>7 DEF Kill, EndProcess
  <2>2. abandoned \subseteq abandoned'
    BY <1>7 DEF Kill, Abandon
  <2>3. pc[p] \in {"detach", "takeback"} /\ acceptDetach => "detach" \in abandoned'
    BY <1>7 DEF Kill, Abandon, Granted, Permissions
  <2> QED
    BY <2>1, <2>2, <2>3
<1>8. CASE OtherUnload \/ OtherDetach \/ Load \/ UNCHANGED vars
  BY <1>8 DEF OtherUnload, OtherDetach, Load, UnloadDriver, DetachInstance, vars
<1> QED
  BY <1>2, <1>3, <1>4, <1>5, <1>6, <1>7, <1>8 DEF Next, ToolStep

\* WorkStands for one tool.
StandsFor(p) ==
    control = p /\ pc[p] = "exit" /\ hr[p] = "S_OK" =>
        /\ args[p].cmd = "add" =>
              Known(RuleOf(args[p].major, args[p].minor, args[p].expr))
        /\ args[p].cmd = "cleanup" => rules = {}
        /\ args[p].cmd = "query" => (says[p] = "empty" <=> rules = {})

\* The rules change only by a message of the connected tool, so a step of a
\* tool leaves what the others have reported as it is.
LEMMA OthersStand ==
    ASSUME WorkStands, NEW p \in Tools,
           \A q \in Tools \ {p} : /\ pc'[q] = pc[q] /\ args'[q] = args[q]
                                  /\ hr'[q] = hr[q] /\ says'[q] = says[q],
           control' = control \/ control' \in {p, None},
           rules' = rules \/ control \in {p, None} \/ control' = None,
           StandsFor(p)'
    PROVE  WorkStands'
<1> SUFFICES ASSUME NEW q \in Tools \ {p} PROVE StandsFor(q)'
  BY DEF WorkStands, StandsFor
<1>1. CASE control' # q
  BY <1>1 DEF StandsFor
<1>2. CASE control' = q
  <2>1. control = q /\ rules' = rules
    BY <1>2, ToolsAssumption
  <2>2. StandsFor(q)
    BY DEF WorkStands, StandsFor
  <2> QED
    BY <1>2, <2>1, <2>2 DEF StandsFor, Known
<1> QED
  BY <1>1, <1>2

\* A tool at its exit has reported what its own message has done, and no other
\* message can have come since.
LEMMA NextWorkStands ==
    ASSUME Typed, CommandShape, WorkStands, [Next]_vars
    PROVE  WorkStands'
<1> USE DEF Typed, TypeOK, driverVars, toolVars
<1>1. ASSUME NEW p \in Tools, NEW l, Goto(p, l)
      PROVE  pc'[p] = l /\ \A q \in Tools \ {p} : pc'[q] = pc[q]
  BY <1>1 DEF Goto
<1>2. ASSUME NEW p \in Tools, NEW result, NEW text, Leave(p, result, text)
      PROVE  /\ pc'[p] = "exit" /\ hr'[p] = result /\ says'[p] = text
             /\ \A q \in Tools \ {p} :
                   pc'[q] = pc[q] /\ hr'[q] = hr[q] /\ says'[q] = says[q]
  BY <1>2 DEF Leave, Goto
<1>3. ASSUME NEW p \in Tools, CommandAdd(p)
      PROVE  WorkStands'
  <2> DEFINE r == RuleOf(args[p].major, args[p].minor, args[p].expr)
  <2>1. args[p].cmd = "add" /\ UNCHANGED <<args, control>>
    BY <1>3 DEF CommandAdd, Running
  <2>2. args[p].expr \in Strings
    BY <2>1, CommandArgs
  <2>3. SameRule(r, NewRule(r))
    BY <2>2, RuleMade
  <2>4. \/ \E result \in Results \ {"S_OK"} : \E text : Leave(p, result, text) /\ rules' = rules
        \/ /\ \E text : Leave(p, "S_OK", text)
           /\ CanSend(p) /\ rules' = FglAddSingleRule(r)
    BY <1>3 DEF CommandAdd, SendFails, Results
  <2> HIDE DEF r
  <2>5. rules' = FglAddSingleRule(r) => \E x \in rules' : SameRule(r, x)
    BY <2>3 DEF FglAddSingleRule, Known
  <2>6. StandsFor(p)'
    BY <1>2, <2>1, <2>4, <2>5 DEF StandsFor, Known, r
  <2> QED
    BY <1>2, <2>1, <2>4, <2>6, OthersStand DEF CanSend
<1>4. ASSUME NEW p \in Tools, CommandRemove(p)
      PROVE  WorkStands'
  <2>1. /\ args[p].cmd = "remove" /\ UNCHANGED <<args, control>>
        /\ \E result, text : Leave(p, result, text)
        /\ rules' = rules \/ CanSend(p)
    BY <1>4 DEF CommandRemove, Running, SendFails
  <2> QED
    BY <1>2, <2>1, OthersStand DEF StandsFor, CanSend
<1>5. ASSUME NEW p \in Tools, CommandQuery(p)
      PROVE  WorkStands'
  <2>1. args[p].cmd = "query" /\ UNCHANGED <<args, control, rules>>
    BY <1>5 DEF CommandQuery, Running
  <2>2. \/ \E result \in Results \ {"S_OK"} : \E text : Leave(p, result, text)
        \/ Leave(p, "S_OK", IF rules = {} THEN "empty" ELSE "rules")
    BY <1>5 DEF CommandQuery, SendFails, Results
  <2>3. StandsFor(p)'
    BY <1>2, <2>1, <2>2 DEF StandsFor
  <2> QED
    BY <1>2, <2>1, <2>2, <2>3, OthersStand
<1>6. ASSUME NEW p \in Tools, CommandCheckMatched(p)
      PROVE  WorkStands'
  <2>1. /\ args[p].cmd = "check" /\ UNCHANGED <<args, control, rules>>
        /\ \E result, text : Leave(p, result, text)
    BY <1>6 DEF CommandCheckMatched, Running, SendFails
  <2> QED
    BY <1>2, <2>1, OthersStand DEF StandsFor
<1>7. ASSUME NEW p \in Tools, CommandCleanup(p)
      PROVE  WorkStands'
  <2>1. args[p].cmd = "cleanup" /\ UNCHANGED <<args, control>>
    BY <1>7 DEF CommandCleanup, Running
  <2>2. \/ \E result \in Results \ {"S_OK"} : \E text : Leave(p, result, text) /\ rules' = rules
        \/ CanSend(p) /\ rules' = {} /\ \E text : Leave(p, "S_OK", text)
    BY <1>7 DEF CommandCleanup, SendFails, Results
  <2>3. StandsFor(p)'
    BY <1>2, <2>1, <2>2 DEF StandsFor
  <2> QED
    BY <1>2, <2>1, <2>2, <2>3, OthersStand DEF CanSend
<1>8. ASSUME NEW p \in Tools, New(p) \/ GetVersionInfo(p)
      PROVE  WorkStands'
  <2>1. /\ \E l \in {"version", "parse"} : Goto(p, l)
        /\ UNCHANGED <<args, hr, rules>>
        /\ \A q \in Tools \ {p} : says'[q] = says[q]
        /\ control' = control \/ control' = p
    BY <1>8 DEF New, GetVersionInfo
  <2> QED
    BY <1>1, <2>1, OthersStand DEF StandsFor
<1>9. ASSUME NEW p \in Tools, Parse(p)
      PROVE  WorkStands'
  <2>1. UNCHANGED <<control, rules>> /\ args[p].cmd = "none"
    BY <1>9 DEF Parse, CommandShape
  <2>2. CASE \E result, text : Leave(p, result, text) /\ UNCHANGED args
    BY <1>2, <2>1, <2>2, OthersStand DEF StandsFor
  <2>3. CASE /\ Goto(p, "command") /\ UNCHANGED <<hr, says>>
             /\ \E c \in Commands : args' = [args EXCEPT ![p] = c]
    <3>1. \A q \in Tools \ {p} : args'[q] = args[q]
      BY <2>3
    <3> QED
      BY <1>1, <2>1, <2>3, <3>1, OthersStand DEF StandsFor
  <2> QED
    BY <1>9, <2>2, <2>3 DEF Parse
<1>10. ASSUME NEW p \in Tools, CommandMonitor(p) \/ MonitorFails(p)
       PROVE  WorkStands'
  <2>1. UNCHANGED <<args, control, rules>>
    BY <1>10 DEF CommandMonitor, MonitorFails
  <2>2. \/ \E result \in Results \ {"S_OK"} : \E text : Leave(p, result, text)
        \/ Goto(p, "monitoring") /\ UNCHANGED <<hr, says>>
    BY <1>10 DEF CommandMonitor, MonitorFails, Results
  <2>3. CASE \E result \in Results \ {"S_OK"} : \E text : Leave(p, result, text)
    BY <1>2, <2>1, <2>3, OthersStand DEF StandsFor
  <2>4. CASE Goto(p, "monitoring") /\ UNCHANGED <<hr, says>>
    BY <1>1, <2>1, <2>4, OthersStand DEF StandsFor
  <2> QED
    BY <2>2, <2>3, <2>4
<1>11. ASSUME NEW p \in Tools, SetUnloadAcceptable(p) \/ AdjustPrivileges(p)
       PROVE  WorkStands'
  <2>1. UNCHANGED <<args, control, rules>>
    BY <1>11 DEF SetUnloadAcceptable, AdjustPrivileges
  <2>2. \/ \E result \in Results \ {"S_OK"} : \E text : Leave(p, result, text)
        \/ \E l \in {"token", "unload"} : Goto(p, l) /\ UNCHANGED <<hr, says>>
    BY <1>11 DEF SetUnloadAcceptable, AdjustPrivileges, SendFails, Results
  <2>3. CASE \E result \in Results \ {"S_OK"} : \E text : Leave(p, result, text)
    BY <1>2, <2>1, <2>3, OthersStand DEF StandsFor
  <2>4. CASE \E l \in {"token", "unload"} : Goto(p, l) /\ UNCHANGED <<hr, says>>
    BY <1>1, <2>1, <2>4, OthersStand DEF StandsFor
  <2> QED
    BY <2>2, <2>3, <2>4
<1>12. CASE \/ \E p \in Tools : FilterUnload(p) /\ UnloadDriver
            \/ OtherUnload
  <2>1. control' = None
    BY <1>12 DEF OtherUnload, UnloadDriver
  <2> QED
    BY <2>1, ToolsAssumption DEF WorkStands
<1>13. ASSUME NEW p \in Tools, FilterUnload(p), ~ UnloadDriver
       PROVE  WorkStands'
  <2>1. UNCHANGED <<args, control, rules>> /\ Leave(p, "REFUSED", "error")
    BY <1>13 DEF FilterUnload
  <2> QED
    BY <1>2, <2>1, OthersStand DEF StandsFor
<1>14. ASSUME NEW p \in Tools, SetDetachAcceptable(p) \/ TakeBackDetach(p)
       PROVE  WorkStands'
  <2>1. UNCHANGED <<args, control, rules>> /\ args[p].cmd = "detach"
    BY <1>14 DEF SetDetachAcceptable, TakeBackDetach, Running, CommandShape
  <2>2. \/ \E result, text : Leave(p, result, text)
        \/ Goto(p, "detach") /\ UNCHANGED <<hr, says>>
    BY <1>14 DEF SetDetachAcceptable, TakeBackDetach, SendFails
  <2>3. CASE \E result, text : Leave(p, result, text)
    BY <1>2, <2>1, <2>3, OthersStand DEF StandsFor
  <2>4. CASE Goto(p, "detach") /\ UNCHANGED <<hr, says>>
    BY <1>1, <2>1, <2>4, OthersStand DEF StandsFor
  <2> QED
    BY <2>2, <2>3, <2>4
<1>15. ASSUME NEW p \in Tools, FilterDetach(p)
       PROVE  WorkStands'
  <2>1. /\ UNCHANGED <<args, control, rules, hr>> /\ Goto(p, "takeback")
        /\ \A q \in Tools \ {p} : says'[q] = says[q]
    BY <1>15 DEF FilterDetach
  <2> QED
    BY <1>1, <2>1, OthersStand DEF StandsFor
<1>16. ASSUME NEW p \in Tools, Exit(p) \/ Kill(p)
       PROVE  WorkStands'
  <2>1. EndProcess(p) /\ UNCHANGED rules
    BY <1>16 DEF Exit, Kill
  <2>2. /\ Goto(p, "none") /\ control' \in {control, None}
        /\ \A q \in Tools \ {p} : args'[q] = args[q] /\ hr'[q] = hr[q] /\ says'[q] = says[q]
    BY <2>1 DEF EndProcess
  <2> QED
    BY <1>1, <2>1, <2>2, OthersStand DEF StandsFor
<1>17. CASE OtherDetach \/ Load \/ UNCHANGED vars
  BY <1>17 DEF OtherDetach, Load, vars, WorkStands, Known
<1> QED
  BY <1>3, <1>4, <1>5, <1>6, <1>7, <1>8, <1>9, <1>10, <1>11, <1>12, <1>13, <1>14, <1>15,
     <1>16, <1>17 DEF Next, ToolStep

-----------------------------------------------------------------------------
(* The theorems.                                                           *)

\* AdminInv holds in every reachable state of the tools and the driver.
THEOREM AdminInvariant == Spec => []AdminInv
<1>1. Init => AdminInv
  <2> SUFFICES ASSUME Init PROVE AdminInv
    OBVIOUS
  <2>1. Typed
    BY DEF Init, Typed, TypeOK, Results, Texts
  <2>2. CommandShape /\ UnloadAccounted /\ DetachAccounted /\ WorkStands
    BY DEF Init, CommandShape, NoArgs, UnloadAccounted, DetachAccounted, WorkStands
  <2> QED
    BY <2>1, <2>2 DEF AdminInv
<1>2. AdminInv /\ [Next]_vars => AdminInv'
  BY NextTyped, NextShape, NextUnloadAccounted, NextDetachAccounted, NextWorkStands
  DEF AdminInv
<1> QED
  BY <1>1, <1>2, PTL DEF Spec

\* Every variable stays in its type: whatever names are given to CommandAdd,
\* only rules with a valid code reach the driver.
THEOREM AdminTypeCorrect == Spec => []TypeOK
<1>1. AdminInv => TypeOK
  BY DEF AdminInv, Typed
<1> QED
  BY <1>1, AdminInvariant, PTL

\* While the driver accepts an unload or a detach, a command that asked for it
\* is at work or was cut short, for any number of tools that come, are killed
\* and lose their connection.
THEOREM PermissionsAccountedAlways == Spec => []PermissionsAccounted
<1>1. AdminInv => PermissionsAccounted
  BY DEF AdminInv, UnloadAccounted, DetachAccounted, PermissionsAccounted
<1> QED
  BY <1>1, AdminInvariant, PTL

\* When CommandAdd, CommandCleanup or CommandQuery of the connected tool has
\* returned S_OK, the driver has the rules it reported.
THEOREM WorkStandsAlways == Spec => []WorkStands
<1>1. AdminInv => WorkStands
  BY DEF AdminInv
<1> QED
  BY <1>1, AdminInvariant, PTL
=============================================================================
