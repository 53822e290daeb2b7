# FileGuard: a TLA+ model of the driver and its tools

FileGuard restricts access to files on Windows by rules. A rule pairs a code
(access denied or read-only, and monitored) with a path expression. The kernel
driver FileGuardCore, a minifilter, keeps the rules in memory and applies them
to file operations. User programs manage the rules and receive a record of
every match through two communication ports.

This directory models the driver, its client library and its command line tool
in TLA+: what can be checked is checked by TLC
on small instances, and what matters most is proved with TLAPS for all values
of the constants.

## The system

| Component | State | Operations | Interacts with |
|---|---|---|---|
| Rules list (`Rule.c`, `Rule.h`) | linked list under a push lock; per rule a reference count | add, remove, clean up, match, query | control messages write it, callbacks read it |
| Callbacks (`Operations.c`) | none of their own but locals and a completion context | pre/post create, write, set information, file system control | match rules, set and read file contexts, record matches |
| File contexts (`Context.c`) | per open file: its name and the rule it was opened under | set, fill, clean up after the last close | hold a reference to a rule |
| Monitor (`Monitor.c`) | queue under a spin lock, counter of allocated records, two events, end flag | record a match; the thread: wait, collect, send | callbacks produce, a client consumes |
| Monitor port (`Communication.c`) | client port in two copies | connect, disconnect | event and port of the monitor thread |
| Control port (`Communication.c`) | permission flags for unload and detach | message handler | rules list, driver unload |
| Load and unload (`FileGuardCore.c`) | globals | `DriverEntry`, `FgcUnload`, instance callbacks, configuration | everything |
| FileGuardLib (`FileGuardLib.c`) | port handles, buffers of a call | connect, send rules in bulk, query, check a path, receive records | the two ports, one connection each |
| FileGuardAdmin (`FileGuardAdmin.cpp`) | a process: its handle, its command, its exit code | one command per process: add, remove, query, check-matched, cleanup, monitor, unload, detach | the library, `FilterUnload`, `FilterDetach` |
| CLI11 (`CLI11.hpp`, vendored) | counts and results of options and subcommands | parse the command line, run one callback | FileGuardAdmin's options share variables |

What is hard here, and what the properties are about:

* a rule is freed by the last of several holders, on different threads, some of
  which use it without a reference;
* a file context is visible to other callbacks before it is filled in;
* the monitor's lock is released around every copy and not held at all where
  the queue is tested and the event cleared;
* the driver is unloaded while the monitor thread may be anywhere in its loop;
* the ports accept clients before the driver has finished loading, and a load
  can fail after they have;
* a message is applied rule by rule while opens look for rules;
* a query takes two messages, sizes are 16 bits wide, and buffers are walked by
  the sizes that are written in them;
* the tool gives the driver a permission with one call and uses it with another,
  and may be killed in between;
* the command line parser hands names back and forth between a subcommand and
  the application.

`PROJECT.json` lists the hazards line by line, the mapping from every
definition to the source, the runs, the mutants and the findings.

## Modules

### Rule

The data of a rule and the pure questions asked of it. Path names and
expressions are elements of a set `Strings`; `Upcase` and `Language` are the
two facts about them that matter (what upper-casing does, what an expression
matches). `NewRule` upper-cases the expression as `FgcCreateRule` does,
`SameRule` is the case-insensitive test of adding and removing. `ReplacesRule`
is `!FgcCompareRule(...)` as the preprocessor expands it: the macro is not
parenthesised, so the `!` applies to the code value of the first rule only, and
the branch of `FgcPostCreateCallback` that would exchange a context's rule is
never taken. The model keeps the macro as it is; the mutant of
`BorrowedRuleLive` shows that the branch as it was probably meant would free a
rule that other callbacks are using.

### Enforcement

The rules list, the reference counts, the callbacks and the file contexts,
interleaved at the granularity of the shared words: an action ends where a lock
is released or where the next shared word is touched.

| Variables | Code |
|---|---|
| `list`, `rule`, `refs` | `Globals.RulesList`, the `FGC_RULE` blocks and their `References` |
| `writer` | the message whose handler has the push lock exclusively, and the rules it still has to process |
| `pc`, `op`, `file`, `name`, `status` | a thread in a callback, and the result it will return |
| `found`, `held`, `borrowed` | `ruleEntry` in `FgcMatchRules` (no reference), a referenced rule, `fileContext->Rule` (no reference) |
| `ctxSet`, `ctxName`, `ctxRule` | a file's context: set, `FileNameInfo` filled, `Rule` |
| `guarded` | files that an open under a rule has been let through on |
| `fault` | an access to freed memory or through NULL; the behaviour ends there |

An open is `PreCreate`, `MatchRules`, `ReferenceMatch`, then `RefuseCreate` or
`PassCreate`, and after the file system `FileContextFound` or
`AllocateFileContext` .. `FinishCreate`. Other operations are `PreOperation`
and `Enforce`; a rename goes on with `RenameDestination`, the same
`MatchRules`, and `EnforceRenameDestination`. Messages are `Begin..`, one
action per loop iteration, `ReleaseExclusive`.

Decisions worth knowing:

* A rule id names an allocation. It is reused only when the memory is free and
  no thread points to it, so a stale pointer is never mistaken for a new rule.
* Whether a name can be had, an allocation succeeds, a file exists, or
  `FgcRecordRuleMatched` fails is chosen freely. The queue behind the last is
  the subject of `Monitor`.
* `STATUS_FLT_CONTEXT_ALREADY_DEFINED` is an error code and remains in
  `status`, so the open that lost the race is cancelled; the model does that.
* A rename's destination is looked at only when its source has a context with a
  rule, as in the code. What a rename does to the file's own name is outside
  the model.
* A removed rule goes on refusing operations on files whose context refers to
  it until the file's last close; nothing here says otherwise.

### Monitor

`FgcRecordRuleMatched` in several threads (`prod`), the monitor thread (`mon`),
the connection (`client`, `port`), and `FgcUnload` (`unload`). A record is its
position in the order of insertion and its size; `received` and `lost` are
history variables for where it went. `port` is the copy of the client port in
`MonitorContext`, which the thread uses: the disconnect callback closes the port
through the other copy, then resets this one.

* `FltSendMessage` with a NULL port, or with a client that has gone, returns
  `STATUS_PORT_DISCONNECTED`; with a port already closed through the other copy
  or after the filter is unregistered its behaviour is not defined by the code,
  and the model ends in `fault = "stale_port"`.
* The filter manager has called the disconnect callback of every connection
  before `FltUnregisterFilter` returns, and accepts a new client only when the
  callback for the old one has returned (the port allows one connection).
* The exception handler of `FgcGetRecords` is left out: both ends of the copy
  are pool memory of the driver.
* A record that is larger than the message buffer stays at the head of the
  queue, and the thread goes round without sending. The model has it: with
  `Sizes = {1, 2, 3}` and `BufferSize = 2` the records behind it wait for ever.

### Lifecycle

`DriverEntry` with its failure path, `FgcUnload`, the two ports, the control
messages, the instances and the file operations, as far as loading and
unloading concern them. `load` is where `DriverEntry` or `FgcUnload` is, one
action per resource it acquires or gives back; the rules are a number and the
monitor thread runs or has ended, because their details are in the other two
modules.

| Variables | Code |
|---|---|
| `filter`, `lock`, `context`, `descriptor`, `lists` | `Globals.Filter`, `RulesListLock`, `MonitorContext`, the local `securityDescriptor`, whether the list heads are initialised |
| `thread`, `threadRefs`, `endFlag` | the monitor thread, the references on `MonitorThreadObject`, `EndMonitorFlag` |
| `port`, `conn`, `message` | the two server ports, the connection to each, the control message being handled |
| `accept`, `grants`, `spent` | `AcceptUnload` and `AcceptDetach`; how often each was given and used |
| `attached`, `busy` | volumes with an instance, volumes with an operation in a callback |
| `fault` | an access through NULL or to freed memory; the behaviour ends there |

`LoadFails` stands for the failure of any call whose status is looked at. Two
are not: `FgcCreatePushLock` and `ObReferenceObjectByHandle`, which leave a NULL
behind and let the load go on.

What is assumed of the filter manager: a port accepts a client as soon as it is
created, one at a time; the disconnect callback runs after the last message of
its connection; file operations and instances come only after
`FltStartFiltering`; `FltUnregisterFilter` lets no new callback in, ends the
connections, and returns when no callback is running.

### RulesRegistry and EnforcementRefinement

`RulesRegistry` is what the rules list promises: a sequence of rules, newest
first, that a message changes as a whole. An operation asks for a name and gets
one answer at one moment: the newest rule that matches it (`Match`), or none, and
that only while no rule in force matches (`NoMatch`). It has no lock, no entries
and no counts. `AddRules` allows that the rules from some place of the bulk on are
missing, because the driver stops at the first it cannot create.

`EnforcementRefinement` adds one history variable to `Enforcement`, `visible`:
the contents of the list when no handler has the lock. With
`rules <- visible`, `asked <- Asked` (the name a thread looks up, from the call of
`FgcMatchRules` to the end of its walk) and the rule each thread has found or
referenced as `matched`, `Enforcement` implements the registry. A message takes
effect with `ReleaseExclusive`; the loop iterations before it are stuttering
steps. A walk that finds nothing is a step of the registry like one that finds a
rule: a walk that missed a rule, or that did not wait for the message in progress,
would be no step of it.

### ControlProtocol

How rules travel: `FglCreateRulesMessage`, the loops of `FgcAddRules` and
`FgcFindAndRemoveRule` over the message, `FgcGetRules` and `FgcMatchRulesEx`
with the size of the reply, and the two messages of
`CoreClient::QueryRules`/`CheckMatchedRules` with `ResolveRulesBuffer`. A
handler has the rules lock throughout, so a call with one message is one
action and a query is two; the threads of the connected process interleave
between them. A string is a text with its number of characters, a buffer maps
offsets to the rules written there, and leaving a buffer is
`fault # "none"`. Sizes and counts are modulo `UShort`, the number of values of
a USHORT.

The assumptions: a message has fewer rules than a USHORT counts, since
`RulesAmount` is one; `Strings` has with a string the beginning that is left when
its size is cut to a USHORT, and upper-casing works character by character, as
`RtlUpcaseUnicodeChar` does; a path name has at most 32767 characters, the limit
of Windows. Expressions may have any length. The elements of a list that a loop
keeps are `Select`, a recursive function rather than `SelectSeq`, which the proof
system does not know.

### Receiver

`FglReceiveMonitorRecords` and `FglParseMonitorRecords`: connect, allocate,
wait for a message, parse it into an array of pointers that is doubled until
all records fit, call back for each record. Callers are threads of one
process, each with its own `*End`, which another thread sets at any moment.
The driver's side is reduced to `DriverSends` and `DriverCloses`; `Monitor`
is about what it sends.

The array's length is a USHORT and would wrap at 65536. A message has at most
32 KB and a record at least its fixed part, which `SizesAssumption` states with
two bytes instead of the real size, so a message has less than half as many
records as a USHORT counts and the array can be doubled. `ParsingEnds` and the
type of the array's length depend on it.

### Admin

Processes of the tool: `wmain`, the connection, the version, one command, the
exit code. A process may be killed between any two calls (`Kill`), other
programs may use a permission (`OtherUnload`, `OtherDetach`), and the driver
may be loaded again. A message is one step and the rules are a set, since
`ControlProtocol` and `Enforcement` have their details. `abandoned` is a
history variable: the permissions whose command ended without using them.

`FglSetDetachAcceptable` writes the field `UnloadAcceptable`; both are members
of one union of `FG_MESSAGE`, and the driver reads the same byte, so the model
sets the permission to detach.

### CommandLine

The part of CLI11 that FileGuardAdmin's options use, and these options. An
argument is a record: how it is written (`--name`, `-n`, `/name`, a word, `--`,
`++`), a subcommand before a dot, a name, a value behind `=` or `:`. `Init`
chooses any command line up to `MaxArgs`; each action consumes an argument or
is one phase of `App::_process`. The shared variables of FileGuardAdmin are one
function `value`, which the callbacks get as it is when they run.

`TokensAssumption` says which records are arguments: a word has no value of its
own (the parser does not split it), a cluster of short flags has at most two
letters, the second of them `h`, `v` or one that is no flag, and a one-letter
name behind a dot has two dashes and no value. Longer clusters repeat what the
second letter does.

### MC modules and proofs

The modules `MC...` are instances for TLC. The theorems are in
`EnforcementProofs`, `RefinementProofs` (about `EnforcementRefinement`),
`MonitorProofs`, `LifecycleProofs`, `AdminProofs`, `ReceiverProofs`,
`ControlProtocolProofs` and `CommandLineProofs`.

### How the modules fit together

Each module treats what another one details as a free choice or as one step,
so what it shows holds for any behaviour of the other: `Enforcement` lets
`FgcRecordRuleMatched` fail at any time (`Monitor` says when it does),
`ControlProtocol` and `Admin` apply a message in one step
(`ImplementsRegistry` is what justifies that), `Receiver` lets any message
arrive, `Admin` runs any command (`CommandLine` says which).

## Runs

| Run | Instance | Shows |
|---|---|---|
| `enforcement` | 2 threads, 1 file and 1 rename destination, 3 rule allocations, messages of one rule out of {read-only sent in lower case, read-only and access denied on a narrower expression} | the invariants of `Enforcement` in 1.5 million states |
| `registry` | 1 thread, 1 file and 1 rename destination, 3 rule allocations, messages of up to 2 rules out of {read-only, access denied, invalid code} | `Enforcement` implements `RulesRegistry`, and every operation completes, in 320 thousand states |
| `monitor` | 2 producers, limit 2, 4 records, sizes that fit together, alone, or not at all | the properties of `Monitor` in 1.3 million states |
| `lifecycle` | 2 volumes, each permission given twice, 1 rule | the properties of `Lifecycle` in 366 thousand states |
| `control_protocol` | 2 threads, 4 rules (one of 40000 characters, one empty, one with an invalid code), bulks of 2, real sizes | the properties of `ControlProtocol` in 45 thousand states |
| `receiver` | 2 threads, 4 records in messages of up to 4, an array that begins with 1 place | the properties of `Receiver` in 38 thousand states |
| `admin` | 2 processes, 1 volume, 2 expressions | the properties of `Admin` in 273 thousand states |
| `command_line` | every line of up to 4 out of 18 arguments, four of them in dot notation, one that cannot be converted | the properties of `CommandLine` in 899 thousand states |
| `match_contract` | 2 threads, 2 rules, 2 allocations | violation: the matched entry can be freed before it is referenced |
| `lost_wakeup` | 2 producers, 2 records of size 1 | violation: a queued record with a connected client waits for ever |
| `failed_load` | 1 volume, 1 permission, 1 rule | violation: a failed load leaves the monitor thread running |
| `remove_command` | as `admin` | violation: `remove` refuses what `add` accepts |

Why the bounds are enough. Two threads suffice for every race in the callbacks:
each is between one thread and the list's writer, or between two opens of the
same file, or between an open and an operation that has read the context. Three
allocations allow two rules in the list and a third that was removed and is
still referenced. In `enforcement` a message has one rule, because a bulk
differs from a sequence of messages only in that nobody else gets the lock in
between; `registry` is about that difference and has bulks of two, of which one
rule may fail and the other succeed. There one thread is enough, because threads
meet only through the list. In the monitor, two producers can both pass the test
of the limit and exceed it by one; four records fill a message, leave one behind,
and append one while the thread is copying. In `Lifecycle`, two volumes and two
permissions let one permission meet two requests and a second one arrive in
between; one rule is enough to see whether any is left. The limits themselves
(65535 records, 32 KB) only scale these.

In `ControlProtocol` two threads let one change the rules between the two messages
of the other's query, to more and to fewer of different sizes. In `Receiver` an
array that begins with one place is doubled twice by a message of four records,
and two threads compete for the port. In `Admin` two processes compete for the
connection and for a permission; a third would only be refused like the second.
Four arguments are a subcommand, an option with its operand and one argument
more, which may be a second subcommand, a repeated option or an end mark. `add`,
with both required options and their operands behind the name, needs five in the
usual form and is reached with operands joined by `=` or `:`.

Symmetry of threads, rule allocations or processes is used in `enforcement`,
`control_protocol` and `remove_command`, which check no liveness; their formulas
treat the permuted values alike.

The four violations are findings about the code as it stands; each quotes the
line of the repository it disagrees with, in `PROJECT.json`.

### What the model reproduces without a run of its own

The model keeps these peculiarities of the code as they are. The properties are
stated so that they hold with them, and the counterexamples can be had from TLC
by stating the opposite.

| Code | What it does | In the model |
|---|---|---|
| `Operations.c:295` | compares the rule of a context that another open has set and not filled in yet | `Enforcement!CompareUnfilledContext` |
| `FileGuardCore.c:353`, `361` | waits 100 ms for the monitor thread, then frees its context in any case | `Monitor!UseFreedContext` |
| `FileGuardCore.c:158` | goes on with a NULL rules lock when the allocation fails | `Lifecycle!OpenNullLock` |
| `FileGuardCore.c:211`, `237` | opens the monitor port before the monitor context exists | `Lifecycle!ConnectWithoutContext` |
| `FileGuardCore.c:289` | cleans up the records queue on a failure before its head is initialised | `Lifecycle!UndoUninitialised` |
| `FileGuardLib.c:379` | stores the bytes of an expression in a USHORT: beyond 32767 characters only a part is sent | `ControlProtocol`, exempted by `Countable` |
| `Rule.c:439`, `467`, `505` | counts rules in a USHORT; answers no match with `STATUS_NOT_FOUND`, so that the tool's "no rule matched" (`FileGuardAdmin.cpp:533`) is never reached | `ControlProtocol!QueryIsSnapshot` exempts counts that wrap |
| `FileGuardLib.c:211` | returns from receiving without closing the port, so a second call of the process is refused | `Receiver` |
| `FileGuardLib.c:180` | looks at the end flag only between messages | `Receiver!StopsWithNextMessage` promises no more |
| `FileGuardAdmin.cpp:424` | ends with success when the detach failed | `Admin` |
| `CLI11.hpp:9699` | counts a subcommand named in dot notation for the application, so a line may be accepted and run nothing | `CommandLine!OneCommand` promises one command without dot notation |
| `CLI11.hpp:9696` | enters a subcommand into the list of those to run for every option in dot notation, so its callback may run several times | `CommandLine!OneCommand` promises one run without dot notation, and with it one more for each such option |

### Properties of Enforcement

* `RefCountExact`: a rule's count is the number of its list entries, of
  callbacks that took a reference and of file contexts that refer to it.
* `BorrowedRuleLive`: a callback that reads a rule out of a file context without
  a reference is safe, because the context outlives it.
* `NoDuplicateRules`: at most one entry per code and expression up to case.
* `ContextPublished`, `GuardedHasContext`: the order in which a context is
  filled, and that an open let through leaves one behind.
* `ContextOnlyReadonly`: contexts refer to valid read-only rules only, since
  access denied never gets past the open.
* `RestrictedOperationRefused`: an operation that found a rule in the context is
  not let through, whatever its rename destination matches.
* `OperationsComplete`: liveness, checked in `registry`.

### Properties of Monitor

* `AllocationExact`, `LimitNearlyKept`: the counter is exact, and the unlocked
  test lets it pass the limit by at most one record per other producer.
* `RecordsConserved`: every record is in one place; the client receives in order.
* `UnloadFreesRecords`, `MonitorStops`: the end.

### Properties of Lifecycle

* `CallbacksHaveState`: a message handler, a file operation and a connection to
  the monitor port find the lock, the list heads and the context they use,
  during the load and the unload too.
* `PermissionsSpent`: one permission lets one unload or detach through.
* `LoadFailureUndone`: when a load fails, at whatever step and with whatever
  clients connected, no filter, open port, connection, message or operation is
  left once `FltUnregisterFilter` has returned, and no context or descriptor when
  `DriverEntry` returns. It is not a clean load: the lock stays; the rules that
  clients have added stay, which takes a registered filter; and after a failure of
  `FltStartFiltering` the monitor thread stays, with the references to its object
  (`failed_load`). The property says that nothing else does, and that thread and
  references need a context. When the configuration cannot be read, the cleanup of
  the records ends in the fault `UndoUninitialised`; the first half of the property
  covers this failure too, the second does not.
* `UnloadUndone`: an accepted unload gives everything back.
* `LoadAndUnloadComplete`: liveness. An unload that was accepted, and the undoing
  of a load, end.

### Properties of the refinement

* `ImplementsRegistry`: operations are matched against whole messages only, the
  newest matching rule decides, none is found only where none matches, and the
  rule an operation was given does not change under it, although the list is
  changed entry by entry, the reference is taken after the lock was released and
  memory is used again. So lookups and messages are linearizable.

### Properties of ControlProtocol

* `BuffersRespected`: no walk over a message or a reply leaves its buffer, and no
  copy is larger than its target, whatever happens between the two messages.
* `QueryIsSnapshot`: a query that succeeds returns the rules of one moment and
  their number; one that is refused for its buffer was overtaken by larger rules.
* `BulkHonoured`: a bulk that succeeds was applied to the end, and its number is
  right, if a USHORT can count the bytes of its expressions.
* `ExpressionsWhole`: a rule in force is one that was sent; only an expression
  whose bytes a USHORT cannot count, which the instance contains, is cut.

### Properties of Receiver

* `EachRecordOnce`: in order, once, all of a message, however often it is parsed.
* `ParsingEnds`, `StopsWithNextMessage`: liveness; the array grows far enough, and
  a flag that is set ends the call with the next message or the driver's end.

### Properties of Admin

* `PermissionsAccounted`: the driver may be unloaded or detached only while a
  command is at work on it or after one was cut short.
* `WorkStands`: what a command reports of the rules is so, as long as the process
  has the connection.
* `ToolsEnd`: liveness; every process ends, but one that receives records.

### Properties of CommandLine

* `OneCommand`: never two different commands; a line that fails or asks for help
  runs none; a line that succeeds runs one, once. With options in dot notation it
  may run none, or the same command several times: once more at most for each such
  option of that command. `query ++ --query.format=csv` runs `query` twice, as
  each of them enters it into `parsed_subcommands_` (`CLI11.hpp:9594`, `9696`) and
  `run_callback` goes through that list (`8814`); an `add` written so is sent
  twice.
* `CommandAsWritten`: without dot notation, a command is given its own operands
  as they were written and its own defaults, although subcommands share variables
  and operands may look like options. The property finds operands by positions in
  the command line, the parser by popping a stack. No option is written twice, but
  for one pair: `_reduce_results` lets `{}` followed by `%%` through, which it
  keeps for an empty vector of a configuration file, and takes the first
  (`WrittenOnce`).
* `PlainRuns`: the converse for lines in the usual form.
* `ParserEnds`: liveness.

## Fairness

`Enforcement!Fairness`, a conjunct of `EnforcementRefinement!HistorySpec`: a
thread inside a callback and the handler of a message run on (weak fairness: kernel threads are scheduled and nothing in these steps
waits); taking the push lock is strongly fair, because push locks queue their
waiters. Nobody has to send a message or start an operation.

`Monitor!FairSpec`: weak fairness for producers, the monitor thread, the
disconnect callback and `FgcUnload`. It includes that a connected client takes
the message sent to it: `FltSendMessage` is called without a timeout and waits
for it. It does not include that the 100 ms end, that a send fails, or that
anyone connects or unloads.

`Lifecycle!FairSpec`: weak fairness for the steps of `DriverEntry` and
`FgcUnload`, for message handlers, disconnect callbacks and file operations in
progress, and for the filter manager ending the connections of a filter that is
being unregistered. No client has to disconnect by itself, and nobody has to
ask for an unload.

`Receiver!Spec`: weak fairness for a thread inside the routine, which is an
ordinary running thread. The driver does not have to send anything, and nobody
has to set the flag, so a call may wait for ever.

`Admin!Spec`: weak fairness for the steps of a process that was started. The
calls it makes return; `FilterGetMessage` is the one that need not, and has no
step until the port is closed. Nobody starts, kills, loads or unloads of
necessity.

`CommandLine!Spec`: weak fairness for the parser, a sequential program.

## Proofs

The proof modules follow one pattern: an inductive invariant, one lemma per
action or group of actions that says it is preserved, the invariant as a
theorem, and the properties as its consequences. TLC has checked the inductive
invariants on the instances of the runs (those of `CommandLine` on lines of up to
three arguments, `PlainInv` on plain lines of up to four and with the numbers of
results for the results).

Loops are recursive functions of an index. What they compute for every input is
proved with `IntervalInd`: a set that has 0, and with each number below `n` the
next one, has all numbers up to `n` (by the least number that is missing). That
such a function exists at all, so that its defining equation may be used, is
`RunsExist` and its instances (`OffsetsEquation`, `UptoEquation`,
`AddWalkEquation`, `RemoveWalkEquation`, `CalledEquation`, `PositionsExist`).

### EnforcementProofs

For every finite set of threads and of files, any set of rule allocations
(infinite ones too), any strings with an idempotent `Upcase`, and any bound on
the length of a message:

| Theorem | Property |
|---|---|
| `RefInvariant` | the inductive invariant `RefInv` |
| `EnforcementTypeCorrect` | `TypeOK` |
| `RefCountExactAlways` | `RefCountExact` |
| `BorrowedRuleLiveAlways` | `BorrowedRuleLive` |
| `ContextPublishedAlways` | `ContextPublished` |

`RefCountExact` is not inductive alone. `RefInv` adds:

* `Distinct(list)`: unlinking one entry must take away one pointer, so a rule
  has at most one entry. A rule that is created has a count of zero, hence by
  exactness no entry yet.
* `ThreadShape`: at which locations a thread has a reference. Without it a
  thread could take a second reference over the first, or release none.
* `FillingAlone`: a context is filled in by one thread, the one that set it, and
  has no rule until then. Without it `FillRule` could overwrite a counted
  pointer.
* `RuleInSetContext`: a context with a rule is set and has its name; it makes
  the context that `SetFileContext` installs an empty one.
* `BorrowedFromContext`: the context still has the rule a callback read from it.
  With exactness this is `BorrowedRuleLive`.
* `AllocatedValid`: an allocated rule has a valid code. A valid code is not zero,
  so `ReplacesRule` is false (`NeverReplaces`) and the rule of a context is never
  exchanged; if it were, `BorrowedFromContext` would fail.

The counts are cardinalities, and the lemmas `ReleaseHeld`, `ReferenceHeld`,
`ReferenceContext`, `ReleaseContext`, `LinkEntry` and `UnlinkEntry` say what each
way of changing a pointer does to its own cardinality. `PushFront`, `RemoveAt` and
`EntryCount` are the facts about sequences without repetition they need.

The policy, from `RefInv` and a second invariant:

| Theorem | Property |
|---|---|
| `PolicyInvariant` | the inductive invariant `PolicyInv` |
| `NoDuplicateRulesAlways` | `NoDuplicateRules` |
| `ContextOnlyReadonlyAlways` | `ContextOnlyReadonly` |
| `GuardedHasContextAlways` | `GuardedHasContext` |
| `RestrictedOperationRefusedAlways` | `RestrictedOperationRefused` |

`PolicyInv` follows a rule from the open to the later operation: an open that was
let through has a read-only rule in its hands (`PassedReadonly`), so the context
it fills in has one; a context is without its rule only while the thread that set
it is filling it in (`ContextFilled`), and is there until the file is closed
(`GuardedSet`); an operation that found the rule is refused from then on
(`RefusedSoFar`). `ListRulesDiffer` is `NoDuplicateRules` over rules instead of
places; together with `Distinct(list)` of `RefInv` they are the same.

### RefinementProofs

| Theorem | Property |
|---|---|
| `HistoryInvariant` | the inductive invariant `HistoryInv` |
| `EnforcementImplementsRegistry` | `ImplementsRegistry` |

For the same constants, every behaviour of `HistorySpec` is one of `RulesRegistry`
(whose specification has no fairness, so this is all of it). The invariant says
how far the handler that has the lock has come between the rules it found
(`visible`) and the list as it is: `AddedSoFar(bulk, n)` that the new rules among
the first `n` are in front of what it found, newest first, and `KeptSoFar(bulk, n)`
that what is left is a selection of what it found, with everything the message
does not name and nothing of what its first `n` rules do. When the handler
releases the lock, this is the registry's step. A callback walks while no handler
has the lock, so that it walks over `visible`: what it finds is the newest rule in
force that matches, and when it finds nothing no rule in force does. The memory of the
rule it was given is not used for another one: by `RefInv` its reference keeps it,
and before it has one the model keeps an entry that was found, since looking at it
once it was freed is a fault after which nothing is claimed (`match_contract`).

### LifecycleProofs

For any set of volumes and any bounds:

| Theorem | Property |
|---|---|
| `LifeInvariant` | the inductive invariant `LifeInv` |
| `LifecycleTypeCorrect` | `TypeOK` |
| `CallbacksHaveStateAlways` | `CallbacksHaveState` |
| `PermissionsSpentAlways` | `PermissionsSpent` |
| `LoadFailureUndoneAlways` | `LoadFailureUndone` |
| `UnloadUndoneAlways` | `UnloadUndone` |

`LifeInv` says what each step of `DriverEntry` and `FgcUnload` has behind it: the
state of the filter (`FilterShape`), what was allocated and freed
(`ResourceShape`), the ports (`PortShape`), and what a connection, a message, an
operation in progress or a rule in the list rests on (`CallbackShape`). The last
one is the point:
callbacks run only with a registered filter, and the filter is unregistered only
when none runs, so that what is freed later is not in use.

### AdminProofs

For any set of processes, any names and any volumes:

| Theorem | Property |
|---|---|
| `AdminInvariant` | the inductive invariant `AdminInv` |
| `AdminTypeCorrect` | `TypeOK` |
| `PermissionsAccountedAlways` | `PermissionsAccounted` |
| `WorkStandsAlways` | `WorkStands` |

`PermissionsAccounted` has to be split. A permission to unload outlives its
connection, so any process may have asked for it (`UnloadAccounted`). A permission
to detach that was not abandoned belongs to the process that is connected
(`DetachAccounted`); without that, a process that has lost its connection would
leave without taking the permission back. `CommandShape` says at which steps a
process has which command.

### ReceiverProofs

For every set of callers, every set of record sizes (two bytes or more), every
buffer size below `UShort` and every first length of the array:

| Theorem | Property |
|---|---|
| `ReceiverInvariant` | the inductive invariant `ReceiverInv` |
| `ReceiverTypeCorrect` | `TypeOK`, with the range of the array's length |
| `EachRecordOnceAlways` | `EachRecordOnce` |

First, what `FglParseMonitorRecords` returns for a message of any length: it
reads the records one by one and stops behind the last. Then `ProgressOf(c)`: what
a caller was called back with, followed by what its loop has not come to of the
message in hand, is what it has fetched. `MessagesSmall` bounds the number of
records by the size of the buffer, which keeps the doubled length in a USHORT.

### ControlProtocolProofs

For every set of threads, every set of strings, rules and paths with the
assumptions of the module, lists of any length, and every even `UShort`:

| Theorem | Property |
|---|---|
| `ProtocolInvariant` | the inductive invariant `ProtocolInv` |
| `ProtocolTypeCorrect` | `TypeOK` |
| `BuffersRespectedAlways` | `BuffersRespected` |
| `ExpressionsWholeAlways` | `ExpressionsWhole` |
| `QueryIsSnapshotAlways` | `QueryIsSnapshot` |
| `BulkHonouredAlways` | `BulkHonoured` |

Most of the work is about the operators. `OffsetsIncrease` and `ImageIs`: rules
written one behind the other do not overlap and are found again where they begin.
`SelectIs`: the rules a loop keeps, in their order. `AddRulesIs` and
`RemoveRulesIs`: the driver's loop is at the next rule of the message each time,
never outside it, and what it has done to the list so far is `AddedTo` or
`RemovedTo`; at the end of the message that is `BulkHonoured`. `CopiedAll`: the
early exit of `FgcGetRules` leaves nothing out when the rules fit. `ResolveIs`:
the client's loop over the size of what was copied reads what was written and
stops. `ReplyIs` puts the last ones together for the messages of a query.

The invariant itself is small: the list has no rule twice, which bounds what one
rule of a message removes to one and so keeps the number from wrapping round, each
rule is what `ExpressionsWhole` says, and a thread that waits for its second
message has a query that the library can send.

### MonitorProofs

For every finite non-empty set of producers, positive record sizes and any
limits:

| Theorem | Property |
|---|---|
| `TypeCorrect` | `TypeOK` |
| `AllocationCounted` | `AllocationExact` |
| `LimitNearlyKeptAlways` | `LimitNearlyKept` |
| `RecordsConservedAlways` | `RecordsConserved` |
| `UnloadFreesRecordsAlways` | `UnloadFreesRecords` |

The first three come from `CountInv`. The limit is not inductive by itself: a
producer that has passed the unlocked test will allocate whatever the counter
has become, so `LimitReserved` counts the producers past the test as if they had
allocated. `TakenWhileCopying` says when the monitor thread has an entry in
hand and that it fits, `FilledHasSize` that a record a producer has filled in has
one of the sizes. The other two come from `OrderInv`, which adds `ShapeInv`: the
message is in use only from the first copy to the end of the send, no producer
runs once the filter is unregistered, and the context is freed and the queue
emptied in the order of `FgcUnload`. So a record moves from one place to the
next and is in no two.

### CommandLineProofs

For command lines of any length over any set of arguments as in
`TokensAssumption`:

| Theorem | Property |
|---|---|
| `ParseInvariant` | the inductive invariant `ParseInv` |
| `CommandLineTypeCorrect` | `TypeOK` |
| `OneCommandAlways` | `OneCommand` |
| `FollowInvariant` | the inductive invariant `ParseInv /\ FollowInv` |
| `CommandAsWrittenAlways` | `CommandAsWritten` |
| `PlainRunsAlways` | `PlainRuns` |

`ParseInv` has four parts. `TypeInv` says that what is left to parse is the
command line from some position on, with at most one argument in front that the
parser has made itself (`ArgsInv`); without it nothing is known of the next
argument, not even that an operand was ever given. `SelectInv` relates the list of
selected subcommands to the counts of those entered: the first one selected is the
only one that may have been entered, and without dot notation it has been.
`StageInv` keeps what each stage behind the last argument has established until
the callbacks run. `DotInv` counts: behind the first, a subcommand has been
selected no more often than options were written through its name before the
position the parser is at. `Called`, which filters the selected subcommands, is a
recursive function; `CalledIs` is what it yields and `CalledCount` how much.

`CommandAsWritten` speaks of the whole command line at the end, so `FollowInv`
says for every moment what has been read of it. `Along(c, k, p, V)`: subcommand
`c` is at position `k`, `V` are the positions of operands before `p`, and the
parser is at `p`, where no operand is due. `Given`: the results of each option are
its operands before `p`, in their order (`Enumerates`). When a subcommand has an
argument it does not know, was asked for help, or is left with a name that only
the application could take, nothing is claimed of the rest: some later stage
throws (`Doomed`). Before a subcommand is selected only the version flag may have
been written (`BeforeSelection`), and no subcommand knows that flag
(`NamedVersion`). `StepKinds` reduces the fourteen actions to seven ways of
consuming the line, `FollowBefore` and `FollowBehind` follow them. At the end
`PositionsUnique` says that `V` is the set that `ValuePositions` chooses, and
`EnumeratedOnce` that an option without too many results was written once.

`PlainRuns` is the converse and does not follow from it: there operands may be
written with a dot, and it must be shown that no step goes wrong. `PositionsExist`
finds the operands from left to right; `PlainAt` says that where none is due an
option of the subcommand stands; `PlainInv` says that the parser reads them one
after another (`PlainOption`) and that no stage refuses the line (`PlainStages`).

## Only model-checked

Every invariant and every action property of a passing run is proved. Out of the
prover's reach are the liveness properties (`OperationsComplete`, `MonitorStops`,
`LoadAndUnloadComplete`, `ParsingEnds`, `StopsWithNextMessage`, `ToolsEnd`,
`ParserEnds`). The refutations are by TLC's counterexamples.

## Not modelled

* CLI11 beyond what the tool's options reach: configuration files, environment
  variables, option groups, positional options, aliases, validators and
  transformers, other types than strings and flags, the text of help and error
  messages. None of it can be reached with the options FileGuardAdmin declares.
* Output: the formats of `query`, `check-matched` and `monitor` as text, logging
  and the exception filter of `Utilities`, the log level read from the registry.
* The reference counts of objects owned by the filter manager, such as the name
  information that `FgcPreSetInformationCallback` gives back with the wrong
  routine (`Operations.c:624`).
* An exception inside a message handler (`Communication.c:206`): it needs the
  buffer of the caller to become inaccessible during the call.
* Build and installation files.

## Plan

Done in this order: `Rule`, `Enforcement`, `Monitor`, `Lifecycle` and the first
proofs; then `RulesRegistry` with the refinement, `ControlProtocol`, `Receiver`,
`Admin`, `CommandLine`; then the proofs of the policy, of the refinement, of
`Lifecycle`, `Admin`, `Receiver` and `ControlProtocol`, and last of `CommandLine`.
Nothing of the plan is left. What would come next: clusters of more than two short
flags in `CommandLine`, and the formats of the monitor's output, once a property
is about them.
