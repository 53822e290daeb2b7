---------------------------- MODULE CommandLine ----------------------------
(***************************************************************************)
(* How the arguments of FileGuardAdmin become one command with its values: *)
(* the application Admin::Parse builds, and the part of the CLI11 parser   *)
(* that it uses (Include/ThirdParty/CLI11/CLI11.hpp).  One step takes one  *)
(* argument; the stages after the last argument are a step each.           *)
(*                                                                         *)
(* An argument is described by its form, the way the parser splits it:     *)
(*   word        sub.name or name                                          *)
(*   long        --name, --name=value, --sub.name=value                    *)
(*   short       -n, -nm (m the value; ? for a letter that is no flag)     *)
(*   windows     /name, /name:value                                        *)
(*   mark        --                                                        *)
(*   terminator  ++                                                        *)
(* with "" for a part that is not there.  A value is an argument again: an *)
(* option takes whatever follows it.                                       *)
(***************************************************************************)
EXTENDS Naturals, Sequences, FiniteSets

CONSTANTS
    Tokens,         \* the arguments that may be given
    Unconvertible,  \* those with an unpaired surrogate
    MaxArgs         \* how many may be given

Forms == {"word", "long", "short", "windows", "mark", "terminator"}

ASSUME TokensAssumption ==
    /\ \A t \in Tokens : /\ t \in [form : Forms, sub : {t.sub}, name : {t.name},
                                 value : {t.value}]
                         /\ t.form = "word" => t.value = ""
                         /\ t.form = "short" => t.value \in {"", "h", "v", "?"}
                         /\ t.sub # "" /\ t.name \in {"h", "v"} =>
                               t.form = "long" /\ t.value = ""
    /\ Unconvertible \subseteq Tokens
    /\ MaxArgs \in Nat

Word(w) == [form |-> "word", sub |-> "", name |-> w, value |-> ""]

-----------------------------------------------------------------------------
(* The application that Parse builds.                                      *)

\* The subcommands in the order in which they are added.
CommandOrder == <<"unload", "detach", "add", "remove", "query",
                  "check-matched", "monitor", "cleanup">>
Commands == {CommandOrder[i] : i \in DOMAIN CommandOrder}
Apps == Commands \cup {"root"}

RuleOptions == {"major-type", "minor-type", "expr"}

\* The options of a subcommand that take a value.
OptionsOf(a) ==
    CASE a = "detach" -> {"volume"}
      [] a \in {"add", "remove"} -> RuleOptions
      [] a \in {"query", "monitor"} -> {"format"}
      [] a = "check-matched" -> {"path", "format"}
      [] OTHER -> {}

Options == UNION {OptionsOf(c) : c \in Commands}

Required(c) == OptionsOf(c) \ {"minor-type", "format"}

\* Every subcommand inherits the help flag; the version flag belongs to the
\* application.
FlagsOf(a) == IF a = "root" THEN {"help", "version"} ELSE {"help"}
Flags == {"help", "version"}
ShortName == [f \in Flags |-> IF f = "help" THEN "h" ELSE "v"]

RequireSubcommand == 1

\* The variables the options assign.  Subcommands that have an option of the
\* same name share its variable; default_val assigns it at once.
DefaultValue ==
    [o \in Options |->
        CASE o = "minor-type" -> Word("monitored")
          [] o = "format" -> Word("list")
          [] OTHER -> Word("")]

-----------------------------------------------------------------------------
VARIABLES
    argv,           \* the arguments given
    args,           \* those not parsed yet
    pc,             \* what the parser does
    at,             \* the App whose _parse is running
    positionalOnly, \* positional_only of the application's _parse
    parsed,         \* parsed_ of each App
    selected,       \* parsed_subcommands_ of the application
    results,        \* results_ of each option
    extras,         \* the Apps with an argument in missing_ that is no "--"
    value,          \* the variables of Parse
    ran,            \* callbacks that ran, with the variables they were given
    outcome         \* how parse ended

parseVars == <<at, positionalOnly, parsed, selected, results, extras>>
vars == <<argv, args, pc, parseVars, value, ran, outcome>>

Init ==
    /\ argv \in UNION {[1 .. n -> Tokens] : n \in 0 .. MaxArgs}
    /\ args = argv
    /\ pc = "convert"
    /\ at = "root"
    /\ positionalOnly = FALSE
    /\ parsed = [a \in Apps |-> 0]
    /\ selected = <<>>
    /\ results = [a \in Apps |-> [o \in Options \cup Flags |-> <<>>]]
    /\ extras = {}
    /\ value = DefaultValue
    /\ ran = <<>>
    /\ outcome = "none"

Throw(e) == pc' = "done" /\ outcome' = e

\* The argument has a form in UTF-8.
narrow(t) == t \notin Unconvertible

\* parse_char_t narrows every argument; one that has no narrow form raises an
\* exception that nobody catches.
Convert ==
    /\ pc = "convert"
    /\ IF \E i \in DOMAIN argv : ~ narrow(argv[i])
       THEN Throw("terminated") /\ UNCHANGED parsed
       ELSE /\ pc' = "parse"
            /\ parsed' = [parsed EXCEPT !["root"] = 1]
            /\ UNCHANGED outcome
    /\ UNCHANGED <<argv, args, at, positionalOnly, selected, results, extras,
                   value, ran>>

-----------------------------------------------------------------------------
(* Recognising an argument.                                                *)

\* Mutant: any number of subcommands.
AnyNumber == TRUE

\* A further subcommand may be entered; the maximum is inherited.
MoreSubcommands == Len(selected) < RequireSubcommand

_find_subcommand(t, ignore_used) ==
    /\ t.form = "word" /\ t.sub = "" /\ t.name \in Commands
    /\ ignore_used => parsed[t.name] = 0

\* A subcommand has none of its own and asks the application.
_valid_subcommand(t) == MoreSubcommands /\ _find_subcommand(t, TRUE)

\* sub.name, where both are subcommands.
DottedSubcommand(t) ==
    /\ t.form = "word" /\ at = "root"
    /\ _find_subcommand(Word(t.sub), TRUE)
    /\ _valid_subcommand(Word(t.name))

Classifiers == {"SUBCOMMAND", "POSITIONAL_MARK", "ARG", "TERMINATOR", "NONE"}

_recognize(t) ==
    IF at = "root" /\ positionalOnly THEN "NONE"
    ELSE CASE t.form = "mark" -> "POSITIONAL_MARK"
           [] _valid_subcommand(t) \/ DottedSubcommand(t) -> "SUBCOMMAND"
           [] t.form \in {"long", "short", "windows"} -> "ARG"
           [] t.form = "terminator" /\ at # "root" -> "TERMINATOR"
           [] OTHER -> "NONE"

Parsing(c) ==
    /\ pc = "parse" /\ args # <<>>
    /\ _recognize(Head(args)) = c

\* _parse of a subcommand begins.
Enter(c) ==
    /\ at' = c
    /\ parsed' = [parsed EXCEPT ![c] = @ + 1]

\* _parse of a subcommand returns.
BackToRoot == at' = "root"

_move_to_missing == extras' = extras \cup {at}

-----------------------------------------------------------------------------
(* _parse_single.                                                          *)

\* In a subcommand `--` hands the rest to the application; there it makes
\* everything that follows positional.
PositionalMark ==
    /\ Parsing("POSITIONAL_MARK")
    /\ args' = Tail(args)
    /\ IF at = "root"
       THEN positionalOnly' = TRUE /\ UNCHANGED at
       ELSE BackToRoot /\ UNCHANGED positionalOnly
    /\ UNCHANGED <<argv, pc, parsed, selected, results, extras, value, ran,
                   outcome>>

Terminator ==
    /\ Parsing("TERMINATOR")
    /\ args' = Tail(args)
    /\ BackToRoot
    /\ UNCHANGED <<argv, pc, positionalOnly, parsed, selected, results, extras,
                   value, ran, outcome>>

\* _parse_subcommand.  A subcommand that sees the name of another one leaves
\* it to the application.
_parse_subcommand ==
    /\ Parsing("SUBCOMMAND")
    /\ LET t == Head(args)
           c == IF DottedSubcommand(t) THEN t.sub ELSE t.name
       IN  IF at = "root"
           THEN /\ args' = IF DottedSubcommand(t)
                           THEN <<Word(t.name)>> \o Tail(args) ELSE Tail(args)
                /\ selected' = Append(selected, c)
                /\ Enter(c)
           ELSE BackToRoot /\ UNCHANGED <<args, selected, parsed>>
    /\ UNCHANGED <<argv, pc, positionalOnly, results, extras, value, ran, outcome>>

\* Mutant: the application, too, leaves the name to its parent.
ParsePositionalLeft ==
    /\ Parsing("NONE")
    /\ LET t == Head(args)
           known == _find_subcommand(t, FALSE) /\ MoreSubcommands
       IN  IF known
           THEN BackToRoot /\ UNCHANGED <<args, parsed, extras>>
           ELSE /\ _move_to_missing
                /\ args' = Tail(args)
                /\ UNCHANGED <<at, parsed>>
    /\ UNCHANGED <<argv, pc, positionalOnly, selected, results, value, ran, outcome>>

\* _parse_positional: there are no positional options, so the argument is the
\* name of a subcommand, entered without being selected, or it is left over.
_parse_positional ==
    /\ Parsing("NONE")
    /\ LET t == Head(args)
           known == _find_subcommand(t, FALSE) /\ MoreSubcommands
       IN  IF known
           THEN /\ IF at = "root" THEN Enter(t.name) /\ args' = Tail(args)
                   ELSE BackToRoot /\ UNCHANGED <<args, parsed>>
                /\ UNCHANGED extras
           ELSE /\ _move_to_missing
                /\ args' = Tail(args)
                /\ UNCHANGED <<at, parsed>>
    /\ UNCHANGED <<argv, pc, positionalOnly, selected, results, value, ran, outcome>>

-----------------------------------------------------------------------------
(* _parse_arg.                                                             *)

check_lname(o, n) == n = o
check_sname(o, n) == o \in Flags /\ n = ShortName[o]

\* The flag or option of a that the argument names, as a set.
Named(a, t) ==
    {o \in OptionsOf(a) \cup FlagsOf(a) :
        \/ t.form \in {"long", "windows"} /\ check_lname(o, t.name)
        \/ t.form \in {"short", "windows"} /\ check_sname(o, t.name)}

AddResult(a, o, v) == [results EXCEPT ![a][o] = Append(@, v)]

\* get_flag_value; {} stands for no value.
get_flag_value(v) == IF v \in {"", "{}"} THEN Word("true") ELSE Word(v)

\* A flag: what follows a short one is the next short one.
TakeFlag(a, f, t, rest) ==
    /\ args' = IF t.form = "short" /\ t.value # ""
               THEN <<[t EXCEPT !.name = t.value, !.value = ""]>> \o rest
               ELSE rest
    /\ results' = AddResult(a, f, get_flag_value(IF t.form = "short" THEN "" ELSE t.value))
    /\ UNCHANGED <<pc, outcome>>

\* Mutant: an option without a value leaves the next one alone.
TakeValueUnlessArg(a, o, t, rest) ==
    IF t.value # "" \/ rest = <<>> \/ Head(rest).form # "word"
    THEN /\ args' = rest
         /\ results' = AddResult(a, o, Word(t.value))
         /\ UNCHANGED <<pc, outcome>>
    ELSE /\ args' = Tail(rest)
         /\ results' = AddResult(a, o, Head(rest))
         /\ UNCHANGED <<pc, outcome>>

\* Mutant: the wrong half of name=value.
TakeName(a, o, t, rest) ==
    /\ args' = IF t.value # "" \/ rest = <<>> THEN rest ELSE Tail(rest)
    /\ results' = AddResult(a, o, IF t.value = "" /\ rest # <<>>
                                  THEN Head(rest) ELSE Word(t.name))
    /\ UNCHANGED <<pc, outcome>>

\* An option: its own value, or else whatever comes next.
TakeValue(a, o, t, rest) ==
    \/ /\ t.value # ""
       /\ args' = rest
       /\ results' = AddResult(a, o, Word(t.value))
       /\ UNCHANGED <<pc, outcome>>
    \/ /\ t.value = "" /\ rest # <<>>
       /\ args' = Tail(rest)
       /\ results' = AddResult(a, o, Head(rest))
       /\ UNCHANGED <<pc, outcome>>
    \/ /\ t.value = "" /\ rest = <<>>
       /\ Throw("ArgumentMismatch")
       /\ UNCHANGED <<args, results>>

Take(a, o, t, rest) ==
    IF o \in Flags THEN TakeFlag(a, o, t, rest) ELSE TakeValue(a, o, t, rest)

ParseOwnArg ==
    /\ Parsing("ARG")
    /\ Head(args).sub = ""
    /\ \E o \in Named(at, Head(args)) : Take(at, o, Head(args), Tail(args))
    /\ UNCHANGED <<argv, at, positionalOnly, parsed, selected, extras, value, ran>>

\* --sub.name: the argument without its sub is parsed by the subcommand,
\* which is selected; parsed_ is counted for the application.  A one-letter
\* name is a short flag.
DottedArg(t) ==
    [t EXCEPT !.sub = "",
              !.form = IF t.name \in {"h", "v"} THEN "short" ELSE @]

DottedNames(t) ==
    IF at = "root" /\ t.form = "long" /\ t.sub \in Commands
    THEN Named(t.sub, DottedArg(t)) ELSE {}

ParseDottedArg ==
    /\ Parsing("ARG")
    /\ LET t == Head(args)
       IN  /\ \E o \in DottedNames(t) :
                  Take(t.sub, o, DottedArg(t), Tail(args))
           /\ selected' = Append(selected, t.sub)
           /\ parsed' = [parsed EXCEPT !["root"] = @ + 1]
    /\ UNCHANGED <<argv, at, positionalOnly, extras, value, ran>>

\* Of /sub.name the parser cuts off one character too many, so that no option
\* is found.
ParseUnknownArg ==
    /\ Parsing("ARG")
    /\ LET t == Head(args)
       IN  IF t.sub = "" THEN Named(at, t) = {} ELSE DottedNames(t) = {}
    /\ args' = Tail(args)
    /\ _move_to_missing
    /\ UNCHANGED <<argv, pc, at, positionalOnly, parsed, selected, results, value,
                   ran, outcome>>

\* The loops of _parse end with the arguments.
ParseEnds ==
    /\ pc = "parse" /\ args = <<>>
    /\ pc' = "callbacks"
    /\ UNCHANGED <<argv, args, parseVars, value, ran, outcome>>

-----------------------------------------------------------------------------
(* _process, _process_extras, run_callback.                                *)

LastOf(s) == s[Len(s)]

\* to_flag_value in lower case, for numbers of one digit.
IsTrue(v) == v.name \in {"true", "on", "yes", "enable", "t", "y", "+",
                         "1", "2", "3", "4", "5", "6", "7", "8", "9"}
IsFalse(v) == v.name \in {"false", "off", "no", "disable", "f", "n", "-", "0"}

\* _reduce_results, policy Throw: at most one result, but for one pair that a
\* configuration file may leave.
TooMany(rs) == Len(rs) > 1 /\ rs # <<Word("{}"), Word("%%")>>

\* The result an option's callback converts, and the variables afterwards: a
\* later subcommand overwrites what an earlier one has assigned.
Assigned(o) == {i \in DOMAIN CommandOrder :
                  /\ o \in OptionsOf(CommandOrder[i])
                  /\ results[CommandOrder[i]][o] # <<>>}

Assign ==
    [o \in Options |->
        IF Assigned(o) = {} THEN value[o]
        ELSE LET i == CHOOSE i \in Assigned(o) : \A j \in Assigned(o) : j <= i
             IN  results[CommandOrder[i]][o][1]]

\* The options of the application first (policy TakeLast), then those of the
\* subcommands, whether or not they were selected.
_process_callbacks ==
    /\ pc = "callbacks"
    /\ LET version == results["root"]["version"]
           given == version # <<>>
       IN  \/ /\ given /\ IsTrue(LastOf(version))
              /\ Throw("CallForVersion") /\ UNCHANGED value
           \/ /\ given /\ ~ IsTrue(LastOf(version)) /\ ~ IsFalse(LastOf(version))
              /\ Throw("ConversionError") /\ UNCHANGED value
           \/ /\ given => IsFalse(LastOf(version))
              /\ IF \E c \in Commands : \E o \in OptionsOf(c) : TooMany(results[c][o])
                 THEN Throw("ArgumentMismatch") /\ UNCHANGED value
                 ELSE /\ pc' = "help"
                      /\ value' = Assign
                      /\ UNCHANGED outcome
    /\ UNCHANGED <<argv, args, parseVars, ran>>

\* Mutant: the flag of the selected subcommand is not looked at.
ProcessHelpFlagsRoot ==
    /\ pc = "help"
    /\ IF results["root"]["help"] # <<>>
       THEN Throw("CallForHelp") ELSE pc' = "requirements" /\ UNCHANGED outcome
    /\ UNCHANGED <<argv, args, parseVars, value, ran>>

\* Only the subcommands that were selected are asked; without one, the flag
\* of the application decides.
_process_help_flags ==
    /\ pc = "help"
    /\ LET asked(a) == results[a]["help"] # <<>>
       IN  IF asked("root") \/ \E i \in DOMAIN selected : asked(selected[i])
           THEN Throw("CallForHelp") ELSE pc' = "requirements" /\ UNCHANGED outcome
    /\ UNCHANGED <<argv, args, parseVars, value, ran>>

Missing(c) == {o \in Required(c) : results[c][o] = <<>>}

_process_requirements ==
    /\ pc = "requirements"
    /\ IF \/ Len(selected) < RequireSubcommand
          \/ \E c \in Commands : parsed[c] > 0 /\ Missing(c) # {}
       THEN Throw("RequiredError") ELSE pc' = "extras" /\ UNCHANGED outcome
    /\ UNCHANGED <<argv, args, parseVars, value, ran>>

_process_extras ==
    /\ pc = "extras"
    /\ IF "root" \in extras \/ \E c \in Commands : parsed[c] > 0 /\ c \in extras
       THEN Throw("ExtrasError") ELSE pc' = "run" /\ UNCHANGED outcome
    /\ UNCHANGED <<argv, args, parseVars, value, ran>>

\* The subcommands whose callback runs: those selected that were parsed.
Called(s) ==
    LET upto[i \in 0 .. Len(s)] ==
            IF i = 0 THEN <<>>
            ELSE IF parsed[s[i]] > 0 THEN Append(upto[i - 1], s[i]) ELSE upto[i - 1]
    IN  upto[Len(s)]

\* The HRESULT of the last callback is what Parse returns.
run_callback ==
    /\ pc = "run"
    /\ LET called == Called(selected)
       IN  ran' = [i \in DOMAIN called |-> [cmd |-> called[i], given |-> value]]
    /\ Throw("returned")
    /\ UNCHANGED <<argv, args, parseVars, value>>

\* CLI11_PARSE and App::exit.
ExitCode ==
    CASE outcome \in {"CallForHelp", "CallForVersion"} -> "Success"
      [] outcome = "returned" -> "HRESULT"
      [] outcome = "terminated" -> "terminated"
      [] OTHER -> outcome

Done == pc = "done" /\ UNCHANGED vars

Parse ==
    \/ Convert \/ PositionalMark \/ Terminator
    \/ _parse_subcommand \/ _parse_positional
    \/ ParseOwnArg \/ ParseDottedArg \/ ParseUnknownArg \/ ParseEnds
    \/ _process_callbacks \/ _process_help_flags \/ _process_requirements
    \/ _process_extras \/ run_callback

Next == Parse \/ Done

\* The parser does not stop by itself.
Spec == Init /\ [][Next]_vars /\ WF_vars(Parse)

-----------------------------------------------------------------------------
(* Properties.                                                             *)

\* The arguments behind position k that are values: the one after an option
\* of c that has none of its own, unless that option is a value itself.
ValuePositions(c, k) ==
    CHOOSE V \in SUBSET DOMAIN argv :
        \A i \in DOMAIN argv :
            i \in V <=> /\ i - 1 > k /\ i - 1 \notin V
                        /\ argv[i - 1].value = "" /\ argv[i - 1].sub = ""
                        /\ Named(c, argv[i - 1]) \cap Options # {}

\* Where option o of c is written, given the positions of values.
Written(c, o, k, V) ==
    {i \in DOMAIN argv \ V : /\ i > k /\ argv[i].sub = ""
                             /\ o \in Named(c, argv[i])}

\* What stands behind it.
Operand(i) == IF argv[i].value # "" THEN Word(argv[i].value) ELSE argv[i + 1]

\* i is the one place of W, or the first of two with the operands {} and %%.
WrittenOnce(W, i) ==
    \/ W = {i}
    \/ \E j \in W : /\ i < j /\ W = {i, j}
                    /\ Operand(i) = Word("{}") /\ Operand(j) = Word("%%")

\* Types; only an argument, or a part of one, is ever the value of an option.
TypeOK ==
    /\ pc \in {"convert", "parse", "callbacks", "help", "requirements", "extras",
               "run", "done"}
    /\ at \in Apps /\ positionalOnly \in BOOLEAN
    /\ parsed \in [Apps -> Nat] /\ extras \subseteq Apps
    /\ \A i \in DOMAIN selected : selected[i] \in Commands
    /\ \A o \in Options :
          value[o] \in Tokens \cup {DefaultValue[o]}
                              \cup {Word(t.value) : t \in {t \in Tokens : t.value # ""}}

\* No option is written through the name of its subcommand.
Undotted == \A i \in DOMAIN argv : argv[i].form # "word" => argv[i].sub = ""

\* The options written through the name of c.
DottedFor(c) == {i \in DOMAIN argv : argv[i].form = "long" /\ argv[i].sub = c}

\* No command line runs two different commands, and one that fails or asks for
\* help runs none.  A command line that succeeds runs one, once.  Only options
\* written through the name of their subcommand change that: with them it may
\* succeed without running any, and each one for the command that runs may make
\* it run once more.
OneCommand ==
    /\ \A n \in DOMAIN ran :
          LET c == ran[n].cmd
          IN  /\ \A m \in DOMAIN ran : ran[m].cmd = c
              /\ Len(ran) <= 1 + Cardinality(DottedFor(c))
    /\ pc = "done" => IF ExitCode = "HRESULT" THEN Undotted => Len(ran) = 1
                                              ELSE ran = <<>>

\* Without options written through the name of a subcommand, a command that
\* runs was written on the command line, with each of its required options and
\* no option twice, but for the one pair of operands that is let through; it is
\* given the (first) operand of every option as it was written, even one that
\* looks like an option, a subcommand or the help flag, and the defaults of the
\* others.  The help flag, where it is no operand, keeps every command from
\* running.
CommandAsWritten ==
    Undotted => \A n \in DOMAIN ran :
        LET c == ran[n].cmd
        IN  \E k \in DOMAIN argv :
               /\ argv[k] = Word(c)
               /\ LET V == ValuePositions(c, k)
                  IN  /\ \A o \in OptionsOf(c) :
                            LET W == Written(c, o, k, V)
                            IN  IF W = {}
                                THEN /\ o \notin Required(c)
                                     /\ ran[n].given[o] = DefaultValue[o]
                                ELSE \E i \in W : /\ WrittenOnce(W, i)
                                                  /\ ran[n].given[o] = Operand(i)
                      /\ \A i \in DOMAIN argv \ V :
                            argv[i].sub = "" => "help" \notin Named(c, argv[i])

\* The plain form of a command line: the subcommand, then its options, each
\* at most once and the required ones at least once.
Plain(c) ==
    /\ argv # <<>> /\ argv[1] = Word(c)
    /\ \A i \in DOMAIN argv : argv[i] \notin Unconvertible
    /\ LET V == ValuePositions(c, 1)
       IN  /\ \A i \in 2 .. Len(argv) : i \notin V =>
                  /\ \E o \in OptionsOf(c) : i \in Written(c, o, 1, V)
                  /\ argv[i].value = "" => i < Len(argv)
           /\ \A o \in OptionsOf(c) :
                  /\ Cardinality(Written(c, o, 1, V)) <= 1
                  /\ o \in Required(c) => Written(c, o, 1, V) # {}

\* Every command line in the plain form runs its command.
PlainRuns ==
    \A c \in Commands :
        pc = "done" /\ Plain(c) => Len(ran) = 1 /\ ran[1].cmd = c

\* The parser comes to an end on every command line: no argument is passed
\* back and forth between a subcommand and the application.
ParserEnds == <>(pc = "done")
=============================================================================
