-------------------------- MODULE ControlProtocol --------------------------
(***************************************************************************)
(* The rules as they travel between a client and the driver: FileGuardLib  *)
(* packs them into a message, FgcControlMessageNotifyCallback has them     *)
(* walked and applied, and a query copies them back into a buffer whose    *)
(* size the client asked for with an earlier message (FileGuardLib.c,      *)
(* Communication.c, Rule.c and CoreClient in FileGuardAdmin.cpp).          *)
(*                                                                         *)
(* The control port has one connection; the threads of the process that    *)
(* has it share the handle.  A handler works under the rules lock, which   *)
(* Enforcement looks into, so that a call with one message is one action   *)
(* and a query is two.                                                     *)
(*                                                                         *)
(* A string is a text and the number of its characters.  A buffer maps the *)
(* offsets at which FG_RULE records were written to these records.         *)
(***************************************************************************)
EXTENDS Rule, Sequences, FiniteSets, Functions

CONSTANTS
    Threads,    \* threads of the process that has the connection
    Paths,      \* the path names they ask about
    UShort,     \* the values of a USHORT: 65536, or fewer to reach its end
    MaxBulk     \* bound: the rules in one message

\* The number of rules in a message is a USHORT.
ASSUME BulkAssumption == MaxBulk \in Nat /\ MaxBulk < UShort
ASSUME UShortAssumption == UShort \in Nat /\ UShort % 2 = 0 /\ UShort > 0
ASSUME LengthAssumption ==
    \A s \in Strings : s = [text |-> s.text, len |-> s.len] /\ s.len \in Nat

\* Characters are upper-cased one by one, so that a string keeps its length,
\* and the beginning that is left of one whose bytes a USHORT cannot count is
\* upper-cased like the whole.
ASSUME CutAssumption ==
    \A s \in Strings :
        LET c == [s EXCEPT !.len = ((s.len * 2) % UShort) \div 2]
        IN  /\ c \in Strings /\ Upcase[c].text = Upcase[s].text
            /\ Upcase[s].len = s.len

\* A path name has at most 32767 characters.
ASSUME PathsAssumption == \A p \in Paths : p \in Strings /\ p.len * 2 < UShort

VARIABLES
    connected,  \* the process has the control port
    rules,      \* Globals.RulesList, the newest first
    pc,         \* whether a thread has the size of its query already
    call,       \* what the thread has called last, with its argument
    size,       \* RulesSize of the first message of a query
    answer,     \* what that call has returned
    fault       \* memory that was accessed out of bounds

vars == <<connected, rules, pc, call, size, answer, fault>>

WCHAR == 2
FG_RULE_SIZE == 8

Bulks == UNION {[1 .. n -> UserRules] : n \in 1 .. MaxBulk}
NoAnswer == [hr |-> "none", amount |-> 0, rules |-> <<>>]
NoCall == [op |-> "none"]

Init ==
    /\ connected = FALSE
    /\ rules = <<>>
    /\ pc = [t \in Threads |-> "idle"]
    /\ call = [t \in Threads |-> NoCall]
    /\ size = [t \in Threads |-> 0]
    /\ answer = [t \in Threads |-> NoAnswer]
    /\ fault = "none"

-----------------------------------------------------------------------------
(* Rules in a buffer.                                                      *)

\* Mutant: the number of characters is taken for a number of bytes.
CutCharacters(s) == [s EXCEPT !.len = (@ % UShort) \div WCHAR]

\* (USHORT)wcslen(s) * sizeof(WCHAR), stored in a USHORT.
Cut(s) == [s EXCEPT !.len = ((@ * WCHAR) % UShort) \div WCHAR]

RuleSize(r) == FG_RULE_SIZE + r.expr.len * WCHAR

\* Where the rules of rs begin, one behind the other, and where they end.
Offsets(rs) ==
    LET at[i \in 1 .. (Len(rs) + 1)] ==
            IF i = 1 THEN 0 ELSE at[i - 1] + RuleSize(rs[i - 1])
    IN  at

TotalSize(rs) == Offsets(rs)[Len(rs) + 1]

Image(rs) ==
    LET at == Offsets(rs)
    IN  [o \in {at[i] : i \in DOMAIN rs} |->
            rs[CHOOSE i \in DOMAIN rs : at[i] = o]]

\* FglCreateRulesMessage, for rules with valid codes.
FglCreateRulesMessage(bulk) ==
    Image([i \in DOMAIN bulk |-> [bulk[i] EXCEPT !.expr = Cut(@)]])

\* Mutant: the status is passed on as it is.
HResultRaw(status) == status

\* RtlNtStatusToDosError and HRESULT_FROM_WIN32.
HResult(status) ==
    CASE status = "SUCCESS" -> "S_OK"
      [] status = "BUFFER_TOO_SMALL" -> "INSUFFICIENT_BUFFER"
      [] status = "NOT_FOUND" -> "NOT_FOUND"
      [] status = "INSUFFICIENT_RESOURCES" -> "NO_SYSTEM_RESOURCES"
      [] status = "INVALID_PARAMETER_1" -> "INVALID_PARAMETER"

-----------------------------------------------------------------------------
(* The driver's loops over the rules of a message.                         *)

\* The elements of rs with an index in I, in their order.
Select(rs, I) ==
    LET upto[i \in 0 .. Len(rs)] ==
            IF i = 0 THEN <<>>
            ELSE IF i \in I THEN Append(upto[i - 1], rs[i]) ELSE upto[i - 1]
    IN  upto[Len(rs)]

Known(user, rs) == \E i \in DOMAIN rs : SameRule(user, rs[i])

\* Mutant: the loop goes on after a rule that cannot be created.
AddIterationGoesOn(buf, pw, memory) ==
    LET user == buf[pw.at]
        next == [pw EXCEPT !.at = @ + RuleSize(user)]
    IN  IF pw.at \notin DOMAIN buf THEN [pw EXCEPT !.status = "OVERRUN"]
        ELSE IF ~ VALID_RULE_CODE(user) \/ Known(user, pw.rules)
                \/ user.expr.len = 0 \/ ~ memory THEN next
        ELSE [next EXCEPT !.rules = <<NewRule(user)>> \o @,
                          !.amount = (@ + 1) % UShort]

\* The memory for an expression.
FgcAllocateUnicodeString(bytes, memory) ==
    CASE bytes = 0 -> "INVALID_PARAMETER_1"
      [] bytes # 0 /\ ~ memory -> "INSUFFICIENT_RESOURCES"
      [] OTHER -> "SUCCESS"

\* One iteration of FgcAddRules, at the rule pw.at points to.
AddIteration(buf, pw, memory) ==
    LET user == buf[pw.at]
        next == [pw EXCEPT !.at = @ + RuleSize(user)]
        created == FgcAllocateUnicodeString(user.expr.len * WCHAR, memory)
    IN  IF pw.at \notin DOMAIN buf THEN [pw EXCEPT !.status = "OVERRUN"]
        ELSE IF ~ VALID_RULE_CODE(user) \/ Known(user, pw.rules) THEN next
        ELSE IF created # "SUCCESS" THEN [pw EXCEPT !.status = created]
        ELSE [next EXCEPT !.rules = <<NewRule(user)>> \o @,
                          !.amount = (@ + 1) % UShort]

Begin(rs) == [rules |-> rs, at |-> 0, amount |-> 0, status |-> "SUCCESS"]

\* FgcAddRules; the allocation for the rule number fails does not succeed.
FgcAddRules(buf, n, fails) ==
    LET after[i \in 0 .. n] ==
            IF i = 0 THEN Begin(rules)
            ELSE IF after[i - 1].status # "SUCCESS" THEN after[i - 1]
            ELSE AddIteration(buf, after[i - 1], i # fails)
    IN  after[n]

RemoveIteration(buf, pw) ==
    LET user == buf[pw.at]
        kept == Select(pw.rules, {i \in DOMAIN pw.rules : ~ SameRule(user, pw.rules[i])})
    IN  IF pw.at \notin DOMAIN buf THEN [pw EXCEPT !.status = "OVERRUN"]
        ELSE [pw EXCEPT !.rules = kept,
                        !.amount = (@ + Len(pw.rules) - Len(kept)) % UShort,
                        !.at = @ + RuleSize(user)]

FgcFindAndRemoveRule(buf, n) ==
    LET after[i \in 0 .. n] ==
            IF i = 0 THEN Begin(rules)
            ELSE IF after[i - 1].status # "SUCCESS" THEN after[i - 1]
            ELSE RemoveIteration(buf, after[i - 1])
    IN  after[n]

-----------------------------------------------------------------------------
(* The driver's answers to queries, given room bytes for the rules.        *)

Reply(status, rs, buf) ==
    [status |-> status, amount |-> Len(rs) % UShort, size |-> TotalSize(rs),
     buffer |-> buf]

\* The rules the second loop of FgcGetRules copies: it leaves when no room is
\* left.
Copied(rs, room) ==
    LET ends == Offsets(rs)
        full == {i \in DOMAIN rs : ends[i + 1] >= room}
    IN  IF full = {} THEN rs
        ELSE SubSeq(rs, 1, CHOOSE i \in full : \A j \in full : i <= j)

FgcGetRules(room) ==
    IF TotalSize(rules) > room THEN Reply("BUFFER_TOO_SMALL", rules, <<>>)
    ELSE IF room = 0 THEN Reply("SUCCESS", rules, <<>>)
    ELSE Reply("SUCCESS", rules, Image(Copied(rules, room)))

Matches(path, rs) ==
    Select(rs, {i \in DOMAIN rs : NameInExpression(rs[i].expr, path)})

\* Mutant: the loop is left at the first match, as in FgcMatchRules.
MatchRulesExFirst(path, room) ==
    LET all == Matches(path, rules)
        found == SubSeq(all, 1, IF all = <<>> THEN 0 ELSE 1)
    IN  IF TotalSize(found) > room THEN Reply("BUFFER_TOO_SMALL", found, <<>>)
        ELSE IF found = <<>> THEN Reply("NOT_FOUND", found, <<>>)
        ELSE Reply("SUCCESS", found, Image(found))

\* FgcMatchRulesEx; what it copied is wiped out when not everything fits.
FgcMatchRulesEx(path, room) ==
    LET found == Matches(path, rules)
    IN  IF TotalSize(found) > room THEN Reply("BUFFER_TOO_SMALL", found, <<>>)
        ELSE IF Len(found) % UShort = 0 THEN Reply("NOT_FOUND", found, Image(found))
        ELSE Reply("SUCCESS", found, Image(found))

\* The library's call: path names are cut like expressions.
ReplyTo(c, room) ==
    IF c.op = "query" THEN FgcGetRules(room)
    ELSE FgcMatchRulesEx(Cut(c.path), room)

\* ResolveRulesBuffer: what is read from n bytes of rules, and whether the
\* loop ends at the end of them.  The size is unsigned: once it has passed
\* zero the loop goes on.
ResolveRulesBuffer(buf, n) ==
    LET steps == Cardinality(DOMAIN buf) + 1
        after[i \in 0 .. steps] ==
            IF i = 0 THEN [rules |-> <<>>, at |-> 0, status |-> "SUCCESS"]
            ELSE LET last == after[i - 1]
                 IN  IF last.at = n \/ last.status # "SUCCESS" THEN last
                     ELSE IF last.at \notin DOMAIN buf
                     THEN [last EXCEPT !.status = "OVERRUN"]
                     ELSE [last EXCEPT !.rules = Append(@, buf[last.at]),
                                       !.at = @ + RuleSize(buf[last.at])]
    IN  after[steps]

-----------------------------------------------------------------------------
(* The calls of the library and of CoreClient.                             *)

Return(t, c, a) ==
    /\ call' = [call EXCEPT ![t] = c]
    /\ answer' = [answer EXCEPT ![t] = a]
    /\ pc' = [pc EXCEPT ![t] = "idle"]
    /\ size' = [size EXCEPT ![t] = 0]

Failure(hr) == [NoAnswer EXCEPT !.hr = hr]

FglConnectCore ==
    /\ ~ connected
    /\ connected' = TRUE
    /\ UNCHANGED <<rules, pc, call, size, answer, fault>>

\* FglDisconnectCore, or the driver closes its side of the port.
FglDisconnectCore ==
    /\ connected
    /\ connected' = FALSE
    /\ UNCHANGED <<rules, pc, call, size, answer, fault>>

\* The calls, with the arguments a failure does not look at left out; a
\* thread inside a query goes on with it.
Calls(t) ==
    IF pc[t] = "fetch" THEN {call[t]}
    ELSE {[op |-> o] : o \in {"add", "remove", "cleanup", "query", "check"}}

\* FilterSendMessage fails without a connection; every call but a cleanup
\* allocates memory first.  The driver sees nothing of it.
SendFails(t) ==
    /\ \E c \in Calls(t) :
          \/ ~ connected /\ Return(t, c, Failure("INVALID_HANDLE"))
          \/ c.op # "cleanup" /\ Return(t, c, Failure("E_OUTOFMEMORY"))
    /\ UNCHANGED <<connected, rules, fault>>

\* FglCreateRulesMessage refuses the whole bulk for one invalid code.
RefuseBulk(t) ==
    /\ pc[t] = "idle"
    /\ \E bulk \in Bulks, o \in {"add", "remove"} :
          /\ \E i \in DOMAIN bulk : ~ VALID_RULE_CODE(bulk[i])
          /\ Return(t, [op |-> o, bulk |-> bulk], Failure("E_INVALIDARG"))
    /\ UNCHANGED <<connected, rules, fault>>

\* The message has been handled and its result is returned: the number of
\* rules is passed on only with a success.
BulkReturns(t, c, reply) ==
    /\ rules' = reply.rules
    /\ IF reply.status = "OVERRUN"
       THEN fault' = "overrun" /\ UNCHANGED <<pc, call, size, answer>>
       ELSE /\ Return(t, c,
                 IF HResult(reply.status) = "S_OK"
                 THEN [hr |-> "S_OK", amount |-> reply.amount, rules |-> <<>>]
                 ELSE Failure(HResult(reply.status)))
            /\ UNCHANGED fault
    /\ UNCHANGED connected

Sendable(bulk) == \A i \in DOMAIN bulk : VALID_RULE_CODE(bulk[i])

FglAddBulkRules(t) ==
    /\ connected
    /\ pc[t] = "idle"
    /\ \E bulk \in Bulks : \E fails \in 1 .. (Len(bulk) + 1) :
          /\ Sendable(bulk)
          /\ BulkReturns(t, [op |-> "add", bulk |-> bulk],
                FgcAddRules(FglCreateRulesMessage(bulk), Len(bulk), fails))

FglRemoveBulkRules(t) ==
    /\ connected
    /\ pc[t] = "idle"
    /\ \E bulk \in Bulks :
          /\ Sendable(bulk)
          /\ BulkReturns(t, [op |-> "remove", bulk |-> bulk],
                FgcFindAndRemoveRule(FglCreateRulesMessage(bulk), Len(bulk)))

FglCleanupRules(t) ==
    /\ connected
    /\ pc[t] = "idle"
    /\ rules' = <<>>
    /\ Return(t, [op |-> "cleanup"],
              [hr |-> "S_OK", amount |-> Len(rules), rules |-> <<>>])
    /\ UNCHANGED <<connected, fault>>

Queries == {[op |-> "query"]} \cup {[op |-> "check", path |-> p] : p \in Paths}

\* The first message of CoreClient::QueryRules or CheckMatchedRules, with no
\* buffer.
QuerySize(t) ==
    /\ connected
    /\ pc[t] = "idle"
    /\ \E c \in Queries :
          LET reply == ReplyTo(c, 0)
          IN  IF HResult(reply.status) \in {"S_OK", "INSUFFICIENT_BUFFER"}
              THEN /\ pc' = [pc EXCEPT ![t] = "fetch"]
                   /\ call' = [call EXCEPT ![t] = c]
                   /\ size' = [size EXCEPT ![t] = reply.size]
                   /\ answer' = [answer EXCEPT ![t] = NoAnswer]
              ELSE Return(t, c, Failure(HResult(reply.status)))
    /\ UNCHANGED <<connected, rules, fault>>

\* Mutant: the buffer is resolved up to the size it was allocated with.
ResolvedSizeStale(t, reply) == size[t]

\* RulesSize is overwritten by the second call.
ResolvedSize(t, reply) == reply.size

\* The second message, with a buffer of the size the first one gave, and
\* ResolveRulesBuffer on what the library copied into it.
QueryFetch(t) ==
    /\ connected
    /\ pc[t] = "fetch"
    /\ LET reply == ReplyTo(call[t], size[t])
           read == ResolveRulesBuffer(reply.buffer, ResolvedSize(t, reply))
       IN  CASE HResult(reply.status) # "S_OK" ->
                   /\ Return(t, call[t], Failure(HResult(reply.status)))
                   /\ UNCHANGED fault
             [] HResult(reply.status) = "S_OK" /\ reply.size > size[t] ->
                   fault' = "overflow" /\ UNCHANGED <<pc, call, size, answer>>
             [] OTHER ->
                   IF read.status = "OVERRUN"
                   THEN fault' = "overrun" /\ UNCHANGED <<pc, call, size, answer>>
                   ELSE /\ Return(t, call[t],
                              [hr |-> "S_OK", amount |-> reply.amount,
                               rules |-> read.rules])
                        /\ UNCHANGED fault
    /\ UNCHANGED <<connected, rules>>

\* Nothing is known of what follows an access out of bounds.
Next ==
    /\ fault = "none"
    /\ \/ FglConnectCore \/ FglDisconnectCore
       \/ \E t \in Threads :
             \/ SendFails(t) \/ RefuseBulk(t)
             \/ FglAddBulkRules(t) \/ FglRemoveBulkRules(t)
             \/ FglCleanupRules(t)
             \/ QuerySize(t) \/ QueryFetch(t)

Spec == Init /\ [][Next]_vars

-----------------------------------------------------------------------------
(* Properties.                                                             *)

HResults == {"none", "S_OK", "INSUFFICIENT_BUFFER", "NOT_FOUND",
             "NO_SYSTEM_RESOURCES", "INVALID_PARAMETER", "INVALID_HANDLE",
             "E_OUTOFMEMORY", "E_INVALIDARG"}

\* Types; every status of the driver's routines reaches the caller as one of
\* the HRESULTs its callers test for.
TypeOK ==
    /\ connected \in BOOLEAN
    /\ rules \in Seq(RuleType)
    /\ pc \in [Threads -> {"idle", "fetch"}]
    /\ \A t \in Threads : call[t].op \in {"none", "add", "remove", "cleanup",
                                          "query", "check"}
    /\ size \in [Threads -> Nat]
    /\ \A t \in Threads : answer[t].hr \in HResults /\ answer[t].amount \in Nat
    /\ fault \in {"none", "overrun", "overflow"}

\* Neither the driver's walk over a message, nor the library's copy of a
\* reply, nor the client's walk over the copy leaves its buffer, whatever
\* happens to the rules between the two messages of a query.
BuffersRespected == fault = "none"

\* The rules a call is about, if it succeeds now.
Expected(c, rs) == IF c.op = "query" THEN rs ELSE Matches(c.path, rs)

Fetched(t) == pc[t] = "fetch" /\ pc'[t] = "idle"

\* The second message of t's query is answered.
SnapshotTaken(t) ==
    Fetched(t) =>
        /\ answer'[t].hr = "S_OK" =>
              /\ answer'[t].rules = Expected(call[t], rules)
              /\ Len(answer'[t].rules) < UShort =>
                    answer'[t].amount = Len(answer'[t].rules)
        /\ answer'[t].hr = "INSUFFICIENT_BUFFER" =>
              TotalSize(Expected(call[t], rules)) > size[t]

\* A query that succeeds returns the rules in force at one moment, all of
\* them, whole and in their order, and their number if a USHORT can count
\* them, however they changed since their size was asked for; it is refused
\* for its buffer only when they have grown.
QueryIsSnapshot == [][\A t \in Threads : SnapshotTaken(t)]_vars

\* A USHORT can count the bytes of the expression.
Countable(u) == u.expr.len * WCHAR < UShort

\* A bulk of rules that can be sent whole has been handled with success.
Returned(t, o) ==
    /\ call'[t] # call[t] /\ call'[t].op = o /\ answer'[t].hr = "S_OK"
    /\ \A i \in DOMAIN call'[t].bulk : Countable(call'[t].bulk[i])

\* The rules of an added bulk are in force and no other rule was lost.
AddHonoured(t) ==
    Returned(t, "add") =>
        /\ \A i \in DOMAIN call'[t].bulk : Known(call'[t].bulk[i], rules')
        /\ Range(rules) \subseteq Range(rules')
        /\ answer'[t].amount = Len(rules') - Len(rules)

\* The rules of a removed bulk are gone and no other rule was lost.
RemoveHonoured(t) ==
    Returned(t, "remove") =>
        /\ Range(rules') = {r \in Range(rules) : ~ Known(r, call'[t].bulk)}
        /\ answer'[t].amount = Len(rules) - Len(rules')

\* A bulk that succeeds has been applied to the end: all its rules are there
\* (or gone), the others are untouched, and the number is the difference.
BulkHonoured == [][\A t \in Threads : AddHonoured(t) /\ RemoveHonoured(t)]_vars

\* Every rule in force is one a client has sent, with the whole of its
\* expression; only one whose bytes a USHORT cannot count is cut.
ExpressionsWhole ==
    \A i \in DOMAIN rules : \E u \in UserRules :
        \/ rules[i] = NewRule(u)
        \/ /\ ~ Countable(u)
           /\ rules[i].expr.text = Upcase[u.expr].text
           /\ rules[i].expr.len < u.expr.len
=============================================================================
