---------------------------- MODULE Enforcement ----------------------------
(***************************************************************************)
(* The rule list of FileGuardCore and the minifilter callbacks that apply  *)
(* it to file operations (FileGuardCore/Rule.c, Operations.c, Context.c).  *)
(*                                                                         *)
(* A rule is an FGC_RULE: a block of pool memory with a reference count.   *)
(* It is pointed to by its entry in the rules list, by threads inside a    *)
(* callback, and by the file context of a file that was opened under it.   *)
(* The rules list is guarded by a push lock; the reference counts and the  *)
(* pointers in a file context are changed by interlocked instructions.     *)
(* Each action is a stretch of code that other threads cannot tell apart   *)
(* from an atomic one: it ends where a lock is released or the next shared *)
(* word is touched.                                                        *)
(*                                                                         *)
(* A rule is named by an element of RuleIds.  An id is used again only     *)
(* when its memory is free and no thread holds a pointer to it, so that an *)
(* id always means one allocation.  Using freed memory, or a NULL pointer, *)
(* has no defined outcome: it sets fault, and a behaviour ends there.      *)
(***************************************************************************)
EXTENDS Rule, Sequences, FiniteSets, Functions

CONSTANTS
    Threads,    \* threads issuing file operations
    Files,      \* files, each known by the path name it is opened with
    Destinations, \* the names a rename may aim at
    RuleIds,    \* FGC_RULE allocations that can exist at the same time
    None,       \* NULL
    MaxBulk     \* bound: the rules in one AddRules or RemoveRules message

ASSUME ThreadsAssumption == IsFiniteSet(Threads)
ASSUME FilesAssumption ==
    IsFiniteSet(Files) /\ Files \cup Destinations \subseteq Strings
ASSUME NoneAssumption == None \notin RuleIds \cup Strings
ASSUME MaxBulkAssumption == MaxBulk \in Nat \ {0}

VARIABLES
    list,       \* Globals.RulesList, head first
    rule,       \* what each allocated rule says
    refs,       \* FGC_RULE.References; 0: the rule is not allocated
    writer,     \* the message whose handler has RulesListLock exclusively
    pc,         \* where each thread is
    op,         \* the operation each thread performs
    file,       \* the file it performs it on
    name,       \* the name it matches against the rules
    found,      \* the list entry FgcMatchRules stopped at, not referenced
    held,       \* the rule the thread has a reference to
    borrowed,   \* fileContext->Rule as the thread read it
    status,     \* the outcome of the operation so far
    ctxSet,     \* the file has a file context
    ctxName,    \* its FileNameInfo is filled in
    ctxRule,    \* its Rule
    guarded,    \* files some open has left with a file context
    fault       \* the undefined access that ended the behaviour, if any

threadVars == <<pc, op, file, name, found, held, borrowed, status>>
ctxVars == <<ctxSet, ctxName, ctxRule, guarded>>
vars == <<list, rule, refs, writer, threadVars, ctxVars, fault>>

Pointer == RuleIds \cup {None}
Locations == {"idle", "lookup", "reference", "decide", "filesystem", "setctx",
              "fillname", "fillrule", "finish", "enforce", "rename",
              "renamed", "done"}
Operations == {"none", "create", "write", "setinfo", "fsctl", "rename"}
Statuses == {"passed", "denied", "protected", "error", "failed"}
Messages == {"none", "add", "remove", "cleanup"}
Dispositions == {"supersede", "open", "create", "open_if", "overwrite",
                 "overwrite_if"}

\* The rules carried by one message.
Bulks == UNION {[1 .. n -> UserRules] : n \in 1 .. MaxBulk}

Init ==
    /\ list = <<>>
    /\ rule = [r \in RuleIds |-> CHOOSE x \in RuleType : TRUE]
    /\ refs = [r \in RuleIds |-> 0]
    /\ writer = [op |-> "none", todo |-> <<>>]
    /\ pc = [t \in Threads |-> "idle"]
    /\ op = [t \in Threads |-> "none"]
    /\ file = [t \in Threads |-> None]
    /\ name = [t \in Threads |-> None]
    /\ found = [t \in Threads |-> None]
    /\ held = [t \in Threads |-> None]
    /\ borrowed = [t \in Threads |-> None]
    /\ status = [t \in Threads |-> "passed"]
    /\ ctxSet = [f \in Files |-> FALSE]
    /\ ctxName = [f \in Files |-> FALSE]
    /\ ctxRule = [f \in Files |-> None]
    /\ guarded = {}
    /\ fault = "none"

-----------------------------------------------------------------------------
(* Reference counts.                                                       *)

ReferenceRule(r) == refs' = [refs EXCEPT ![r] = @ + 1]

\* FgcReleaseRule frees the rule when the count reaches zero.
ReleaseRule(r) == refs' = [refs EXCEPT ![r] = @ - 1]

\* Mutant: the new holder does not take a reference of its own.
HandOverUnreferenced(r) == ReleaseRule(r)

\* A reference is taken for the completion context, then the local one is
\* released.
HandOverRule(r) == refs' = [refs EXCEPT ![r] = (@ + 1) - 1]

\* Memory that can be allocated for a new rule.
Fresh(r) ==
    /\ refs[r] = 0
    /\ \A t \in Threads : found[t] # r /\ borrowed[t] # r

-----------------------------------------------------------------------------
(* The handlers of AddRules, RemoveRules and CleanupRules messages, one    *)
(* loop iteration a step.  The push lock is held from the first step of a  *)
(* message to its last.                                                    *)

AcquireExclusive(o, bulk) ==
    /\ writer.op = "none"
    /\ writer' = [op |-> o, todo |-> bulk]
    /\ UNCHANGED <<list, rule, refs, threadVars, ctxVars, fault>>

BeginAddRules == \E bulk \in Bulks : AcquireExclusive("add", bulk)

BeginRemoveRules == \E bulk \in Bulks : AcquireExclusive("remove", bulk)

BeginCleanup == AcquireExclusive("cleanup", <<>>)

InList(user) == \E r \in Range(list) : SameRule(user, rule[r])

\* Mutant: the loop is continued without advancing to the next rule.
SkipRuleStays ==
    /\ writer.op = "add" /\ writer.todo # <<>>
    /\ ~ VALID_RULE_CODE(Head(writer.todo)) \/ InList(Head(writer.todo))
    /\ UNCHANGED vars

\* FgcAddRules goes on with the next rule after an invalid or a known one.
SkipRule ==
    /\ writer.op = "add" /\ writer.todo # <<>>
    /\ ~ VALID_RULE_CODE(Head(writer.todo)) \/ InList(Head(writer.todo))
    /\ writer' = [writer EXCEPT !.todo = Tail(@)]
    /\ UNCHANGED <<list, rule, refs, threadVars, ctxVars, fault>>

\* FgcCreateRule leaves one reference, the list entry's.
CreateRule(r) ==
    /\ rule' = [rule EXCEPT ![r] = NewRule(Head(writer.todo))]
    /\ refs' = [refs EXCEPT ![r] = 1]

AddRule ==
    /\ writer.op = "add" /\ writer.todo # <<>>
    /\ VALID_RULE_CODE(Head(writer.todo))
    /\ ~ InList(Head(writer.todo))
    /\ \E r \in RuleIds :
          /\ Fresh(r)
          /\ CreateRule(r)
          /\ list' = <<r>> \o list
    /\ writer' = [writer EXCEPT !.todo = Tail(@)]
    /\ UNCHANGED <<threadVars, ctxVars, fault>>

\* No memory for the entry, or an empty path expression: the loop is left,
\* the rules added so far stay.
CreateRuleFails ==
    /\ writer.op = "add" /\ writer.todo # <<>>
    /\ VALID_RULE_CODE(Head(writer.todo))
    /\ ~ InList(Head(writer.todo))
    /\ writer' = [writer EXCEPT !.todo = <<>>]
    /\ UNCHANGED <<list, rule, refs, threadVars, ctxVars, fault>>

\* RemoveEntryList and FgcFreeRuleEntry.
RemoveEntry(i) ==
    /\ list' = SubSeq(list, 1, i - 1) \o SubSeq(list, i + 1, Len(list))
    /\ ReleaseRule(list[i])

RemoveRule ==
    /\ writer.op = "remove" /\ writer.todo # <<>>
    /\ \E i \in DOMAIN list :
          SameRule(Head(writer.todo), rule[list[i]]) /\ RemoveEntry(i)
    /\ UNCHANGED <<rule, writer, threadVars, ctxVars, fault>>

NothingToRemove ==
    /\ writer.op = "remove" /\ writer.todo # <<>>
    /\ ~ InList(Head(writer.todo))
    /\ writer' = [writer EXCEPT !.todo = Tail(@)]
    /\ UNCHANGED <<list, rule, refs, threadVars, ctxVars, fault>>

CleanupRule ==
    /\ writer.op = "cleanup" /\ list # <<>>
    /\ RemoveEntry(1)
    /\ UNCHANGED <<rule, writer, threadVars, ctxVars, fault>>

ReleaseExclusive ==
    /\ \/ writer.op \in {"add", "remove"} /\ writer.todo = <<>>
       \/ writer.op = "cleanup" /\ list = <<>>
    /\ writer' = [writer EXCEPT !.op = "none"]
    /\ UNCHANGED <<list, rule, refs, threadVars, ctxVars, fault>>

-----------------------------------------------------------------------------
(* FgcMatchRules.                                                          *)

FirstMatchAt(i, n) ==
    /\ NameInExpression(rule[list[i]].expr, n)
    /\ \A j \in 1 .. (i - 1) : ~ NameInExpression(rule[list[j]].expr, n)

NoMatch(n) == \A i \in DOMAIN list : ~ NameInExpression(rule[list[i]].expr, n)

\* Mutant: a walk that would have to wait for the lock finds nothing.
MatchRulesImpatient(t) ==
    /\ pc[t] = "lookup"
    /\ \/ /\ writer.op # "none" \/ NoMatch(name[t])
          /\ pc' = [pc EXCEPT ![t] = "done"]
          /\ UNCHANGED found
       \/ \E i \in DOMAIN list :
             /\ writer.op = "none"
             /\ FirstMatchAt(i, name[t])
             /\ found' = [found EXCEPT ![t] = list[i]]
             /\ pc' = [pc EXCEPT ![t] = "reference"]
    /\ UNCHANGED <<list, rule, refs, writer, op, file, name, held, borrowed,
                   status, ctxVars, fault>>

\* The walk under the shared lock.  Nothing found ends both callers with the
\* outcome they have.
MatchRules(t) ==
    /\ pc[t] = "lookup"
    /\ writer.op = "none"
    /\ \/ /\ NoMatch(name[t])
          /\ pc' = [pc EXCEPT ![t] = "done"]
          /\ UNCHANGED found
       \/ \E i \in DOMAIN list :
             /\ FirstMatchAt(i, name[t])
             /\ found' = [found EXCEPT ![t] = list[i]]
             /\ pc' = [pc EXCEPT ![t] = "reference"]
    /\ UNCHANGED <<list, rule, refs, writer, op, file, name, held, borrowed,
                   status, ctxVars, fault>>

\* FgcReferenceRule(ruleEntry->Rule), after the lock was released.
ReferenceMatch(t) ==
    /\ pc[t] = "reference"
    /\ found[t] \in Range(list)
    /\ ReferenceRule(found[t])
    /\ held' = [held EXCEPT ![t] = found[t]]
    /\ found' = [found EXCEPT ![t] = None]
    /\ pc' = [pc EXCEPT ![t] = IF op[t] = "create" THEN "decide" ELSE "renamed"]
    /\ UNCHANGED <<list, rule, writer, op, file, name, borrowed, status,
                   ctxVars, fault>>

\* The entry was removed and freed in between.
ReferenceFreedEntry(t) ==
    /\ pc[t] = "reference"
    /\ found[t] \notin Range(list)
    /\ fault' = "freed"
    /\ UNCHANGED <<list, rule, refs, writer, threadVars, ctxVars>>

-----------------------------------------------------------------------------
(* FgcPreCreateCallback and FgcPostCreateCallback.                         *)

\* A volume open passes; a name that cannot be had or parsed is an error.
PreCreate(t, f) ==
    /\ pc[t] = "idle"
    /\ op' = [op EXCEPT ![t] = "create"]
    /\ file' = [file EXCEPT ![t] = f]
    /\ name' = [name EXCEPT ![t] = f]
    /\ \E p \in {"lookup", "done"}, s \in {"passed", "error"} :
          /\ p = "lookup" => s = "passed"
          /\ pc' = [pc EXCEPT ![t] = p]
          /\ status' = [status EXCEPT ![t] = s]
    /\ UNCHANGED <<list, rule, refs, writer, found, held, borrowed, ctxVars,
                   fault>>

\* Release the thread's reference and return the outcome s.
Finish(t, s) ==
    /\ ReleaseRule(held[t])
    /\ held' = [held EXCEPT ![t] = None]
    /\ status' = [status EXCEPT ![t] = s]
    /\ pc' = [pc EXCEPT ![t] = "done"]

\* Mutant: only read-only rules are looked at.
OpenVerdictReadonlyOnly(r, d, exists) ==
    IF r.major = RuleMajorReadonly
       /\ \/ d \in {"create", "overwrite", "overwrite_if"}
          \/ d = "open_if" /\ ~ exists
    THEN "protected" ELSE "passed"

\* What the matched rule makes of an open with disposition d.
OpenVerdict(r, d, exists) ==
    CASE r.major = RuleMajorAccessDenied -> "denied"
      [] r.major = RuleMajorReadonly
         /\ \/ d \in {"create", "overwrite", "overwrite_if"}
            \/ d = "open_if" /\ ~ exists -> "protected"
      [] OTHER -> "passed"

\* Refused by the rule, or by an error of FgcRecordRuleMatched, of
\* FgcCheckFileExists or of the allocation of the completion context.
RefuseCreate(t) ==
    /\ pc[t] = "decide"
    /\ \/ Finish(t, "error")
       \/ \E d \in Dispositions, exists \in BOOLEAN :
             LET v == OpenVerdict(rule[held[t]], d, exists)
             IN  v # "passed" /\ Finish(t, v)
    /\ UNCHANGED <<list, rule, writer, op, file, name, found, borrowed,
                   ctxVars, fault>>

\* The completion context takes over name and rule, and the open goes down.
PassCreate(t) ==
    /\ pc[t] = "decide"
    /\ \E d \in Dispositions, exists \in BOOLEAN :
          OpenVerdict(rule[held[t]], d, exists) = "passed"
    /\ HandOverRule(held[t])
    /\ pc' = [pc EXCEPT ![t] = "filesystem"]
    /\ UNCHANGED <<list, rule, writer, op, file, name, found, held, borrowed,
                   status, ctxVars, fault>>

\* The open failed below, the volume is draining, or no file context can be
\* had or allocated.
CreateFails(t) ==
    /\ pc[t] = "filesystem"
    /\ \E s \in {"failed", "error"} : Finish(t, s)
    /\ UNCHANGED <<list, rule, writer, op, file, name, found, borrowed,
                   ctxVars, fault>>

\* FltGetFileContext finds the context of an earlier open.
FileContextFound(t) ==
    /\ pc[t] = "filesystem"
    /\ ctxSet[file[t]]
    /\ Finish(t, "passed")
    /\ guarded' = guarded \cup {file[t]}
    /\ UNCHANGED <<list, rule, writer, op, file, name, found, borrowed,
                   ctxSet, ctxName, ctxRule, fault>>

\* STATUS_NOT_FOUND: a zeroed context is allocated.
AllocateFileContext(t) ==
    /\ pc[t] = "filesystem"
    /\ ~ ctxSet[file[t]]
    /\ pc' = [pc EXCEPT ![t] = "setctx"]
    /\ UNCHANGED <<list, rule, refs, writer, op, file, name, found, held,
                   borrowed, status, ctxVars, fault>>

\* FltSetFileContext with FLT_SET_CONTEXT_KEEP_IF_EXISTS.
SetFileContext(t) ==
    /\ pc[t] = "setctx"
    /\ ~ ctxSet[file[t]]
    /\ ctxSet' = [ctxSet EXCEPT ![file[t]] = TRUE]
    /\ pc' = [pc EXCEPT ![t] = "fillname"]
    /\ UNCHANGED <<list, rule, refs, writer, op, file, name, found, held,
                   borrowed, status, ctxName, ctxRule, guarded, fault>>

\* Mutant: a failed call is taken for a success.
SetFileContextErrorPasses(t) ==
    /\ pc[t] = "setctx"
    /\ Finish(t, "passed")
    /\ guarded' = guarded \cup {file[t]}
    /\ UNCHANGED <<list, rule, writer, op, file, name, found, borrowed,
                   ctxSet, ctxName, ctxRule, fault>>

SetFileContextFails(t) ==
    /\ pc[t] = "setctx"
    /\ Finish(t, "error")
    /\ UNCHANGED <<list, rule, writer, op, file, name, found, borrowed,
                   ctxVars, fault>>

\* Another open was faster.  Its context's rule would be replaced if
\* ReplacesRule said so; the open is cancelled in either case, because
\* STATUS_FLT_CONTEXT_ALREADY_DEFINED is an error and stays in status.
FileContextAlreadyDefined(t) ==
    /\ pc[t] = "setctx"
    /\ ctxSet[file[t]]
    /\ ctxRule[file[t]] # None
    /\ LET old == ctxRule[file[t]]
       IN  IF ReplacesRule(rule[old], rule[held[t]])
           THEN /\ ctxRule' = [ctxRule EXCEPT ![file[t]] = held[t]]
                /\ refs' = [refs EXCEPT ![old] = @ - 1]
                /\ held' = [held EXCEPT ![t] = None]
                /\ status' = [status EXCEPT ![t] = "error"]
                /\ pc' = [pc EXCEPT ![t] = "done"]
           ELSE Finish(t, "error") /\ UNCHANGED ctxRule
    /\ UNCHANGED <<list, rule, writer, op, file, name, found, borrowed,
                   ctxSet, ctxName, guarded, fault>>

\* FgcCompareRule follows the NULL Rule of a context that is not filled yet.
CompareUnfilledContext(t) ==
    /\ pc[t] = "setctx"
    /\ ctxSet[file[t]]
    /\ ctxRule[file[t]] = None
    /\ fault' = "null"
    /\ UNCHANGED <<list, rule, refs, writer, threadVars, ctxVars>>

\* Mutant: the name information is referenced and not stored.
FillNameForgotten(t) ==
    /\ pc[t] = "fillname"
    /\ pc' = [pc EXCEPT ![t] = "fillrule"]
    /\ UNCHANGED <<list, rule, refs, writer, op, file, name, found, held,
                   borrowed, status, ctxVars, fault>>

FillName(t) ==
    /\ pc[t] = "fillname"
    /\ ctxName' = [ctxName EXCEPT ![file[t]] = TRUE]
    /\ pc' = [pc EXCEPT ![t] = "fillrule"]
    /\ UNCHANGED <<list, rule, refs, writer, op, file, name, found, held,
                   borrowed, status, ctxSet, ctxRule, guarded, fault>>

\* The context takes its own reference before the pointer is published.
FillRule(t) ==
    /\ pc[t] = "fillrule"
    /\ ReferenceRule(held[t])
    /\ ctxRule' = [ctxRule EXCEPT ![file[t]] = held[t]]
    /\ pc' = [pc EXCEPT ![t] = "finish"]
    /\ UNCHANGED <<list, rule, writer, op, file, name, found, held, borrowed,
                   status, ctxSet, ctxName, guarded, fault>>

FinishCreate(t) ==
    /\ pc[t] = "finish"
    /\ Finish(t, "passed")
    /\ guarded' = guarded \cup {file[t]}
    /\ UNCHANGED <<list, rule, writer, op, file, name, found, borrowed,
                   ctxSet, ctxName, ctxRule, fault>>

-----------------------------------------------------------------------------
(* FgcPreWriteCallback, FgcPreSetInformationCallback and                   *)
(* FgcPreFileSystemControlCallback.                                        *)

\* No file context, one without a rule, or (but for a write) a class or code
\* the switch does not list passes; another error of FltGetFileContext is
\* returned; otherwise the rule of the context is used.
PreOperation(t, f, o) ==
    /\ pc[t] = "idle"
    /\ op' = [op EXCEPT ![t] = o]
    /\ file' = [file EXCEPT ![t] = f]
    /\ \/ /\ ctxRule[f] = None \/ o \in {"setinfo", "fsctl"}
          /\ pc' = [pc EXCEPT ![t] = "done"]
          /\ UNCHANGED <<status, borrowed>>
       \/ /\ pc' = [pc EXCEPT ![t] = "done"]
          /\ status' = [status EXCEPT ![t] = "error"]
          /\ UNCHANGED borrowed
       \/ /\ ctxRule[f] # None
          /\ borrowed' = [borrowed EXCEPT ![t] = ctxRule[f]]
          /\ pc' = [pc EXCEPT ![t] = "enforce"]
          /\ UNCHANGED status
    /\ UNCHANGED <<list, rule, refs, writer, name, found, held, ctxVars, fault>>

\* Mutant: a read-only verdict is given only where there is none yet.
VerdictOnce(r, s) ==
    CASE r.major = RuleMajorAccessDenied -> "denied"
      [] r.major = RuleMajorReadonly -> IF s = "passed" THEN "protected"
                                                        ELSE "passed"
      [] OTHER -> s

\* The switch over Code.Major, s being the outcome without it.
Verdict(r, s) ==
    CASE r.major = RuleMajorAccessDenied -> "denied"
      [] r.major = RuleMajorReadonly -> "protected"
      [] OTHER -> s

\* FgcRecordRuleMatched is called for a monitored rule and may fail.
Outcomes(recorded, r, s) ==
    {Verdict(r, s)} \cup (IF recorded.minor = RuleMinorMonitored
                          THEN {"error"} ELSE {})

Enforce(t) ==
    /\ pc[t] = "enforce"
    /\ op[t] # "rename"
    /\ \E s \in Outcomes(rule[borrowed[t]], rule[borrowed[t]], status[t]) :
          status' = [status EXCEPT ![t] = s]
    /\ pc' = [pc EXCEPT ![t] = "done"]
    /\ UNCHANGED <<list, rule, refs, writer, op, file, name, found, held,
                   borrowed, ctxVars, fault>>

\* A rename keeps the verdict on its source and goes on to its destination.
EnforceRenameSource(t) ==
    /\ pc[t] = "enforce"
    /\ op[t] = "rename"
    /\ \E s \in Outcomes(rule[borrowed[t]], rule[borrowed[t]], status[t]) :
          /\ status' = [status EXCEPT ![t] = s]
          /\ pc' = [pc EXCEPT ![t] = IF s = "error" THEN "done" ELSE "rename"]
    /\ UNCHANGED <<list, rule, refs, writer, op, file, name, found, held,
                   borrowed, ctxVars, fault>>

\* FltGetDestinationFileNameInformation.
RenameDestination(t) ==
    /\ pc[t] = "rename"
    /\ \/ /\ status' = [status EXCEPT ![t] = "error"]
          /\ pc' = [pc EXCEPT ![t] = "done"]
          /\ UNCHANGED name
       \/ \E n \in Destinations :
          /\ name' = [name EXCEPT ![t] = n]
          /\ pc' = [pc EXCEPT ![t] = "lookup"]
          /\ UNCHANGED status
    /\ UNCHANGED <<list, rule, refs, writer, op, file, found, held, borrowed,
                   ctxVars, fault>>

\* The verdict on the destination replaces the one on the source; the match
\* is recorded under the source's rule.
EnforceRenameDestination(t) ==
    /\ pc[t] = "renamed"
    /\ \E s \in Outcomes(rule[borrowed[t]], rule[held[t]], status[t]) :
          Finish(t, s)
    /\ UNCHANGED <<list, rule, writer, op, file, name, found, borrowed,
                   ctxVars, fault>>

-----------------------------------------------------------------------------
\* The callback has returned and the I/O manager completes the request.
Return(t) ==
    /\ pc[t] = "done"
    /\ pc' = [pc EXCEPT ![t] = "idle"]
    /\ op' = [op EXCEPT ![t] = "none"]
    /\ file' = [file EXCEPT ![t] = None]
    /\ name' = [name EXCEPT ![t] = None]
    /\ borrowed' = [borrowed EXCEPT ![t] = None]
    /\ status' = [status EXCEPT ![t] = "passed"]
    /\ UNCHANGED <<list, rule, refs, writer, found, held, ctxVars, fault>>

\* The callbacks that need an open file or have a reference to its context.
InUse(t, f) ==
    /\ file[t] = f
    /\ \/ op[t] # "create"
       \/ pc[t] \in {"setctx", "fillname", "fillrule", "finish", "done"}

\* Mutant: the rule's reference is not given back with the context.
CleanupFileContextLeaks(f) ==
    /\ ctxSet[f]
    /\ \A t \in Threads : ~ InUse(t, f)
    /\ ctxSet' = [ctxSet EXCEPT ![f] = FALSE]
    /\ ctxName' = [ctxName EXCEPT ![f] = FALSE]
    /\ ctxRule' = [ctxRule EXCEPT ![f] = None]
    /\ guarded' = guarded \ {f}
    /\ UNCHANGED <<list, rule, refs, writer, threadVars, fault>>

\* The filter manager tears the context down after the file's last close.
CleanupFileContext(f) ==
    /\ ctxSet[f]
    /\ \A t \in Threads : ~ InUse(t, f)
    /\ ctxSet' = [ctxSet EXCEPT ![f] = FALSE]
    /\ ctxName' = [ctxName EXCEPT ![f] = FALSE]
    /\ ctxRule' = [ctxRule EXCEPT ![f] = None]
    /\ guarded' = guarded \ {f}
    /\ IF ctxRule[f] # None THEN ReleaseRule(ctxRule[f]) ELSE UNCHANGED refs
    /\ UNCHANGED <<list, rule, writer, threadVars, fault>>

\* Nothing is known of what follows an undefined access.
Halted == fault # "none" /\ UNCHANGED vars

-----------------------------------------------------------------------------
WriterStep ==
    \/ SkipRule \/ AddRule \/ CreateRuleFails
    \/ RemoveRule \/ NothingToRemove
    \/ CleanupRule
    \/ ReleaseExclusive

CreateStep(t) ==
    \/ RefuseCreate(t) \/ PassCreate(t)
    \/ CreateFails(t) \/ FileContextFound(t) \/ AllocateFileContext(t)
    \/ SetFileContext(t) \/ SetFileContextFails(t)
    \/ FileContextAlreadyDefined(t) \/ CompareUnfilledContext(t)
    \/ FillName(t) \/ FillRule(t) \/ FinishCreate(t)

EnforceStep(t) ==
    \/ Enforce(t)
    \/ EnforceRenameSource(t) \/ RenameDestination(t)
    \/ EnforceRenameDestination(t)

\* What a thread inside a callback does next, but for taking the lock.
ThreadStep(t) ==
    \/ ReferenceMatch(t) \/ ReferenceFreedEntry(t)
    \/ CreateStep(t)
    \/ EnforceStep(t)
    \/ Return(t)

Next ==
    \/ /\ fault = "none"
       /\ \/ BeginAddRules \/ BeginRemoveRules \/ BeginCleanup
          \/ WriterStep
          \/ \E t \in Threads, f \in Files : PreCreate(t, f)
          \/ \E t \in Threads, f \in Files,
                o \in {"write", "setinfo", "fsctl", "rename"} :
                PreOperation(t, f, o)
          \/ \E t \in Threads : MatchRules(t) \/ ThreadStep(t)
          \/ \E f \in Files : CleanupFileContext(f)
    \/ Halted

Spec == Init /\ [][Next]_vars

\* A thread that can run does, the handler of a message runs on, and the push
\* lock is granted to a waiter in the end however often others take it.
Fairness ==
    /\ WF_vars(fault = "none" /\ WriterStep)
    /\ \A t \in Threads :
          /\ WF_vars(fault = "none" /\ ThreadStep(t))
          /\ SF_vars(fault = "none" /\ MatchRules(t))

-----------------------------------------------------------------------------
(* Properties.                                                             *)

\* Types; a reference count never goes below zero.
TypeOK ==
    /\ list \in Seq(RuleIds)
    /\ rule \in [RuleIds -> RuleType]
    /\ refs \in [RuleIds -> Nat]
    /\ writer \in [op : Messages, todo : Seq(UserRules)]
    /\ pc \in [Threads -> Locations]
    /\ op \in [Threads -> Operations]
    /\ file \in [Threads -> Files \cup {None}]
    /\ name \in [Threads -> Files \cup Destinations \cup {None}]
    /\ found \in [Threads -> Pointer]
    /\ held \in [Threads -> Pointer]
    /\ borrowed \in [Threads -> Pointer]
    /\ status \in [Threads -> Statuses]
    /\ ctxSet \in [Files -> BOOLEAN]
    /\ ctxName \in [Files -> BOOLEAN]
    /\ ctxRule \in [Files -> Pointer]
    /\ guarded \subseteq Files
    /\ fault \in {"none", "freed", "null"}

\* Who has counted itself into a rule's References: its list entry, callbacks
\* (their local or completion context's pointer) and file contexts.
EntriesOf(r) == {i \in DOMAIN list : list[i] = r}
HoldersOf(r) == {t \in Threads : held[t] = r}
ContextsOf(r) == {f \in Files : ctxRule[f] = r}

\* The reference count of a rule is the number of pointers that count, at
\* every step of every thread: nothing is freed while it is pointed to, and
\* what nothing points to any more has been freed.
RefCountExact ==
    \A r \in RuleIds :
        refs[r] = Cardinality(EntriesOf(r)) + Cardinality(HoldersOf(r))
                     + Cardinality(ContextsOf(r))

\* However messages overlap, no two entries have the same code and the same
\* expression up to case, so RemoveRules has one entry to find.
NoDuplicateRules ==
    \A i, j \in DOMAIN list : SameRule(rule[list[i]], rule[list[j]]) => i = j

\* A callback may use the rule it read from a file context without counting
\* itself in: the context keeps it allocated until the callback returns.
BorrowedRuleLive ==
    \A t \in Threads : borrowed[t] # None => refs[borrowed[t]] > 0

\* A callback that sees the rule of a context also finds the name that
\* FgcRecordRuleMatched copies.
ContextPublished == \A f \in Files : ctxRule[f] # None => ctxName[f]

\* An open under an access-denied rule never reaches the file system, so no
\* file context ever refers to one, nor to an unmonitored or invalid rule.
ContextOnlyReadonly ==
    \A f \in Files : ctxRule[f] # None =>
        /\ rule[ctxRule[f]].major = RuleMajorReadonly
        /\ rule[ctxRule[f]].minor = RuleMinorMonitored

\* An operation other than an open that found a rule in the file context is
\* refused, whichever rule decides: for a rename, neither the rules its
\* destination matches nor their changes in between can turn it into a pass.
RestrictedOperationRefused ==
    \A t \in Threads :
        borrowed[t] # None /\ pc[t] = "done" => status[t] # "passed"

\* When an open matched by a rule has been let through, later operations on
\* the file find its context, and the rule in it unless the thread that set
\* the context is still filling it.
GuardedHasContext ==
    \A f \in guarded :
        /\ ctxSet[f]
        /\ \/ ctxRule[f] # None
           \/ \E t \in Threads : file[t] = f /\ pc[t] \in {"fillname", "fillrule"}

\* Every operation that enters a callback is completed, however the messages
\* and the other threads interleave (unless an undefined access came first).
OperationsComplete ==
    \A t \in Threads : pc[t] # "idle" ~> (pc[t] = "idle" \/ fault # "none")

\* The SAL contract of FgcMatchRules (_Outptr_result_maybenull_: *MatchedRule
\* is NULL or a valid rule): the entry it stopped at exists until referenced.
MatchedRuleValid ==
    \A t \in Threads : found[t] # None => refs[found[t]] > 0
=============================================================================
