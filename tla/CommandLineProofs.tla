------------------------- MODULE CommandLineProofs -------------------------
(***************************************************************************)
(* Proofs about CommandLine, for every set of arguments and command lines  *)
(* of any length.                                                          *)
(***************************************************************************)
EXTENDS CommandLine, TLAPS, SequenceTheorems, FiniteSetTheorems, NaturalsInduction,
        WellFoundedInduction

-----------------------------------------------------------------------------
(* The application.                                                        *)

LEMMA CommandsAre ==
    /\ DOMAIN CommandOrder = 1 .. 8
    /\ Commands = {"unload", "detach", "add", "remove", "query", "check-matched",
                   "monitor", "cleanup"}
    /\ \A i, j \in 1 .. 8 : CommandOrder[i] = CommandOrder[j] => i = j
    /\ "root" \notin Commands /\ "" \notin Commands
<1>1. DOMAIN CommandOrder = 1 .. 8
  BY DEF CommandOrder
<1>2. 1 .. 8 = {1, 2, 3, 4, 5, 6, 7, 8}
  OBVIOUS
<1>3. /\ CommandOrder[1] = "unload" /\ CommandOrder[2] = "detach" /\ CommandOrder[3] = "add"
      /\ CommandOrder[4] = "remove" /\ CommandOrder[5] = "query"
      /\ CommandOrder[6] = "check-matched" /\ CommandOrder[7] = "monitor"
      /\ CommandOrder[8] = "cleanup"
  BY DEF CommandOrder
<1>4. \A i, j \in 1 .. 8 : CommandOrder[i] = CommandOrder[j] => i = j
  BY <1>2, <1>3
<1>5. Commands = {"unload", "detach", "add", "remove", "query", "check-matched",
                  "monitor", "cleanup"}
  <2>1. Commands = {CommandOrder[i] : i \in {1, 2, 3, 4, 5, 6, 7, 8}}
    BY <1>1, <1>2, Zenon DEF Commands
  <2> QED
    BY <1>3, <2>1
<1> QED
  BY <1>1, <1>4, <1>5

LEMMA OptionsAre ==
    /\ OptionsOf("root") = {}
    /\ Options = {"volume", "major-type", "minor-type", "expr", "path", "format"}
    /\ \A a \in Apps : OptionsOf(a) \subseteq Options /\ FlagsOf(a) \subseteq Flags
    /\ "help" \in Flags /\ "version" \in Flags /\ Options \cap Flags = {}
    /\ \A c \in Commands : FlagsOf(c) = {"help"}
<1>1. OptionsOf("root") = {}
  BY DEF OptionsOf
<1>2. \A c : OptionsOf(c) \subseteq {"volume", "major-type", "minor-type", "expr", "path", "format"}
  BY DEF OptionsOf, RuleOptions
<1>3. /\ OptionsOf("detach") = {"volume"} /\ OptionsOf("add") = RuleOptions
      /\ OptionsOf("check-matched") = {"path", "format"}
  BY DEF OptionsOf
<1>4. Options = {"volume", "major-type", "minor-type", "expr", "path", "format"}
  <2>1. "detach" \in Commands /\ "add" \in Commands /\ "check-matched" \in Commands
    BY CommandsAre
  <2> QED
    BY <1>2, <1>3, <2>1, ZenonT(60) DEF Options, RuleOptions
<1>5. \A a \in Apps : FlagsOf(a) \subseteq Flags
  BY DEF FlagsOf, Flags
<1>6. "help" \in Flags /\ "version" \in Flags /\ Options \cap Flags = {}
  BY <1>4 DEF Flags
<1>7. \A c \in Commands : FlagsOf(c) = {"help"}
  BY CommandsAre DEF FlagsOf
<1> QED
  BY <1>1, <1>2, <1>4, <1>5, <1>6, <1>7

\* An argument names one flag or option at most.
LEMMA NamedIs ==
    ASSUME NEW a \in Apps, NEW t, NEW o \in Named(a, t)
    PROVE  /\ o \in Options \cup Flags /\ t.form \in {"long", "short", "windows"}
           /\ Named(a, t) = {o}
           /\ o \in Options => /\ a \in Commands /\ o \in OptionsOf(a) /\ o = t.name
                               /\ t.form \in {"long", "windows"}
           /\ o \in Flags => o \in FlagsOf(a) /\ (t.name = o \/ t.name = ShortName[o])
<1>1. o \in OptionsOf(a) \cup FlagsOf(a)
  BY DEF Named
<1>2. \/ t.form \in {"long", "windows"} /\ o = t.name
      \/ t.form \in {"short", "windows"} /\ o \in Flags /\ t.name = ShortName[o]
  BY DEF Named, check_lname, check_sname
<1>3. OptionsOf(a) \subseteq Options /\ FlagsOf(a) \subseteq Flags
  BY OptionsAre
<1>4. ShortName["help"] = "h" /\ ShortName["version"] = "v"
  BY DEF ShortName, Flags
<1>5. ASSUME NEW u \in Named(a, t) PROVE u = o
  <2>1. \/ t.form \in {"long", "windows"} /\ u = t.name
        \/ t.form \in {"short", "windows"} /\ u \in Flags /\ t.name = ShortName[u]
    BY DEF Named, check_lname, check_sname
  <2>2. u \in Options \cup Flags /\ o \in Options \cup Flags
    BY <1>1, <1>3 DEF Named
  <2> QED
    BY <1>2, <1>4, <2>1, <2>2, OptionsAre DEF Flags
<1>6. Options \cap Flags = {} /\ OptionsOf("root") = {} /\ Apps = Commands \cup {"root"}
  BY OptionsAre DEF Apps
<1> QED
  BY <1>1, <1>2, <1>3, <1>5, <1>6

\* The version flag is none of a subcommand.
LEMMA NamedVersion ==
    ASSUME NEW t, "version" \in Named("root", t), NEW c \in Commands
    PROVE  Named(c, t) = {}
<1> SUFFICES ASSUME NEW o \in Named(c, t) PROVE FALSE
  OBVIOUS
<1>1. "root" \in Apps /\ c \in Apps
  BY DEF Apps
<1>2. "version" \in Flags /\ "help" \in Flags /\ Options \cap Flags = {} /\ FlagsOf(c) = {"help"}
  BY OptionsAre
<1>3. t.name = "version" \/ t.name = ShortName["version"]
  BY <1>1, <1>2, NamedIs
<1>4. ShortName["help"] = "h" /\ ShortName["version"] = "v"
  BY DEF ShortName, Flags
<1>5. CASE o \in Options
  <2>1. o = t.name
    BY <1>1, <1>5, NamedIs
  <2> QED
    BY <1>3, <1>4, <1>5, <2>1, OptionsAre
<1>6. CASE o \in Flags
  <2>1. o \in FlagsOf(c) /\ (t.name = o \/ t.name = ShortName[o])
    BY <1>1, <1>6, NamedIs
  <2> QED
    BY <1>2, <1>3, <1>4, <2>1
<1> QED
  BY <1>1, <1>5, <1>6, NamedIs

-----------------------------------------------------------------------------
(* The arguments that are left.                                            *)

\* The parts of arguments, and arguments made of them.
Part == {"", "true"} \cup UNION {{t.sub, t.name, t.value} : t \in Tokens}
Argument == [form : Forms, sub : Part, name : Part, value : Part]

\* The command line from position p on.
Rest(p) == [i \in 1 .. (Len(argv) + 1 - p) |-> argv[p + i - 1]]

\* An argument that the parser puts in front: the second part of sub.name, or
\* the second letter of a pair of short flags.
Made(h) == h \in Argument /\ h.form \in {"word", "short"} /\ h.sub = "" /\ h.value = ""

ArgsAt(p) ==
    \/ args = Rest(p)
    \/ \E h \in Argument : Made(h) /\ args = <<h>> \o Rest(p)

ArgsInv == \E p \in 1 .. (Len(argv) + 1) : ArgsAt(p)

LEMMA TokensAre ==
    /\ Tokens \subseteq Argument
    /\ \A v \in Part : Word(v) \in Argument
    /\ \A t \in Tokens : t.form = "word" => t.value = ""
<1>1. "word" \in Forms /\ "" \in Part
  BY DEF Forms, Part
<1>2. \A v \in Part : Word(v) \in Argument
  BY <1>1 DEF Word, Argument
<1>3. ASSUME NEW t \in Tokens PROVE t \in Argument
  <2>1. t \in [form : Forms, sub : {t.sub}, name : {t.name}, value : {t.value}]
    BY TokensAssumption
  <2>2. t.sub \in Part /\ t.name \in Part /\ t.value \in Part
    BY DEF Part
  <2> QED
    BY <2>1, <2>2 DEF Argument
<1> QED
  BY <1>2, <1>3, TokensAssumption

LEMMA TailIs ==
    ASSUME NEW S, NEW s \in Seq(S), s # <<>>
    PROVE  Tail(s) = [i \in 1 .. (Len(s) - 1) |-> s[i + 1]]
<1> DEFINE t == Tail(s)
<1>1. t \in Seq(S) /\ Len(t) = Len(s) - 1 /\ \A i \in 1 .. Len(t) : t[i] = s[i + 1]
  BY HeadTailProperties
<1> HIDE DEF t
<1>2. t = [i \in 1 .. Len(t) |-> t[i]]
  BY <1>1
<1>3. t = [i \in 1 .. (Len(s) - 1) |-> s[i + 1]]
  BY <1>1, <1>2
<1> QED
  BY <1>3 DEF t

LEMMA RestIs ==
    ASSUME argv \in Seq(Tokens), NEW p \in 1 .. (Len(argv) + 1)
    PROVE  /\ Rest(p) \in Seq(Tokens) /\ Rest(p) \in Seq(Argument)
           /\ Rest(p) = <<>> <=> p = Len(argv) + 1
           /\ Rest(p) # <<>> => /\ p \in 1 .. Len(argv) /\ p + 1 \in 1 .. (Len(argv) + 1)
                                /\ argv[p] \in Tokens /\ argv[p] \in Argument
                                /\ Head(Rest(p)) = argv[p] /\ Tail(Rest(p)) = Rest(p + 1)
<1> DEFINE n == Len(argv)
           s == Rest(p)
<1>1. n \in Nat /\ DOMAIN argv = 1 .. n /\ n + 1 - p \in Nat /\ \A i \in 1 .. n : argv[i] \in Tokens
  OBVIOUS
<1>2. \A i \in 1 .. (n + 1 - p) : p + i - 1 \in 1 .. n
  BY <1>1
<1>3. s \in [1 .. (n + 1 - p) -> Tokens] /\ \A i \in 1 .. (n + 1 - p) : s[i] = argv[p + i - 1]
  <2>1. s = [i \in 1 .. (n + 1 - p) |-> argv[p + i - 1]]
    BY DEF Rest
  <2> HIDE DEF s, n
  <2> QED
    BY <1>1, <1>2, <2>1
<1>4. s \in Seq(Tokens) /\ Len(s) = n + 1 - p
  <2> DEFINE m == n + 1 - p
  <2>1. m \in Nat /\ s \in [1 .. m -> Tokens]
    BY <1>1, <1>3
  <2> HIDE DEF m, s
  <2>2. s \in Seq(Tokens) /\ Len(s) = m
    BY <2>1
  <2> QED
    BY <2>2 DEF m
<1>5. s \in Seq(Argument)
  <2>1. s \in [1 .. (n + 1 - p) -> Argument]
    BY <1>3, TokensAre
  <2> QED
    BY <1>1, <2>1
<1>6. s = <<>> <=> p = n + 1
  <2> HIDE DEF s
  <2> QED
    BY <1>1, <1>4
<1>7. ASSUME s # <<>>
      PROVE  /\ p \in 1 .. n /\ p + 1 \in 1 .. (n + 1) /\ argv[p] \in Tokens
             /\ Head(s) = argv[p] /\ Tail(s) = Rest(p + 1)
  <2>1. p \in 1 .. n /\ p + 1 \in 1 .. (n + 1) /\ argv[p] \in Tokens
    BY <1>1, <1>6, <1>7
  <2>2. Head(s) = argv[p]
    <3>1. 1 \in 1 .. (n + 1 - p) /\ p + 1 - 1 = p
      BY <1>1, <2>1
    <3>2. s[1] = argv[p]
      BY <1>3, <3>1
    <3> HIDE DEF s
    <3> QED
      BY <1>4, <3>2
  <2>3. Tail(s) = Rest(p + 1)
    <3> DEFINE r == Rest(p + 1)
    <3>1. Tail(s) = [i \in 1 .. (n - p) |-> s[i + 1]]
      <4>1. Tail(s) = [i \in 1 .. (Len(s) - 1) |-> s[i + 1]]
        BY <1>4, <1>7, TailIs
      <4>2. Len(s) - 1 = n - p
        BY <1>1, <1>4
      <4> HIDE DEF s
      <4> QED
        BY <4>1, <4>2
    <3>2. \A i \in 1 .. (n - p) : s[i + 1] = argv[(p + 1) + i - 1]
      <4> SUFFICES ASSUME NEW i \in 1 .. (n - p) PROVE s[i + 1] = argv[(p + 1) + i - 1]
        OBVIOUS
      <4>1. i + 1 \in 1 .. (n + 1 - p) /\ p + (i + 1) - 1 = (p + 1) + i - 1
        BY <1>1, <2>1
      <4> HIDE DEF s
      <4> QED
        BY <1>3, <4>1
    <3>3. r = [i \in 1 .. (n - p) |-> argv[(p + 1) + i - 1]]
      <4>1. n + 1 - (p + 1) = n - p
        <5> HIDE DEF n
        <5>1. n \in Nat /\ p \in Nat
          BY <1>1, <2>1
        <5> QED
          BY <5>1
      <4>2. r = [i \in 1 .. (n + 1 - (p + 1)) |-> argv[(p + 1) + i - 1]]
        BY DEF Rest
      <4> HIDE DEF r, n
      <4> QED
        BY <4>1, <4>2, Zenon
    <3> HIDE DEF s, r
    <3>4. Tail(s) = r
      BY <3>1, <3>2, <3>3
    <3> QED
      BY <3>4 DEF r
  <2> QED
    BY <2>1, <2>2, <2>3
<1>8. ASSUME s # <<>> PROVE argv[p] \in Argument
  BY <1>7, <1>8, TokensAre
<1> HIDE DEF s
<1>9. /\ s \in Seq(Tokens) /\ s \in Seq(Argument)
      /\ s = <<>> <=> p = n + 1
      /\ s # <<>> => /\ p \in 1 .. n /\ p + 1 \in 1 .. (n + 1) /\ argv[p] \in Tokens
                     /\ argv[p] \in Argument /\ Head(s) = argv[p] /\ Tail(s) = Rest(p + 1)
  BY <1>4, <1>5, <1>6, <1>7, <1>8
<1> QED
  BY <1>9 DEF s, n

LEMMA RestFirst ==
    ASSUME argv \in Seq(Tokens)
    PROVE  Rest(1) = argv /\ 1 \in 1 .. (Len(argv) + 1)
<1>1. Len(argv) \in Nat /\ Len(argv) + 1 - 1 = Len(argv) /\ \A i \in 1 .. Len(argv) : 1 + i - 1 = i
  OBVIOUS
<1>2. argv = [i \in 1 .. Len(argv) |-> argv[i]]
  OBVIOUS
<1>3. Rest(1) = [i \in 1 .. Len(argv) |-> argv[1 + i - 1]]
  BY <1>1 DEF Rest
<1> QED
  BY <1>1, <1>2, <1>3

LEMMA InFront ==
    ASSUME NEW S, NEW h \in S, NEW s \in Seq(S)
    PROVE  /\ <<h>> \o s \in Seq(S) /\ <<h>> \o s # <<>>
           /\ Head(<<h>> \o s) = h /\ Tail(<<h>> \o s) = s
<1>1. <<h>> \in Seq(S) /\ Len(<<h>>) = 1
  OBVIOUS
<1>2. <<h>> \o s \in Seq(S) /\ Len(<<h>> \o s) = 1 + Len(s)
  BY <1>1
<1>3. \A i \in 1 .. (1 + Len(s)) : (<<h>> \o s)[i] = IF i = 1 THEN h ELSE s[i - 1]
  BY <1>1
<1> DEFINE z == <<h>> \o s
<1>4. z \in Seq(S) /\ Len(z) = 1 + Len(s) /\ z[1] = h
      /\ \A i \in 1 .. Len(s) : z[i + 1] = s[i]
  <2>1. Len(s) \in Nat
    OBVIOUS
  <2>2. \A i \in 1 .. Len(s) : i + 1 \in 1 .. (1 + Len(s)) /\ i + 1 # 1 /\ (i + 1) - 1 = i
    BY <2>1
  <2>3. 1 \in 1 .. (1 + Len(s))
    BY <2>1
  <2> QED
    BY <1>2, <1>3, <2>2, <2>3
<1> HIDE DEF z
<1>5. z # <<>> /\ Head(z) = h
  BY <1>4
<1>6. Tail(z) = s
  <2>1. Tail(z) = [i \in 1 .. (Len(z) - 1) |-> z[i + 1]]
    BY <1>4, <1>5, TailIs
  <2>2. Len(z) - 1 = Len(s) /\ s = [i \in 1 .. Len(s) |-> s[i]]
    BY <1>4
  <2> QED
    BY <1>4, <2>1, <2>2
<1> QED
  BY <1>4, <1>5, <1>6 DEF z

\* The next argument, and what is left behind it.
LEMMA NextArgs ==
    ASSUME argv \in Seq(Tokens), NEW p \in 1 .. (Len(argv) + 1), ArgsAt(p), args # <<>>
    PROVE  /\ Head(args) \in Argument
           /\ \E q \in 1 .. (Len(argv) + 1) :
                 /\ Tail(args) = Rest(q)
                 /\ \/ /\ q = p + 1 /\ p \in 1 .. Len(argv) /\ args = Rest(p)
                       /\ Head(args) = argv[p] /\ Head(args) \in Tokens
                    \/ /\ q = p /\ Made(Head(args))
                       /\ args = <<Head(args)>> \o Rest(p)
<1>1. CASE args = Rest(p)
  <2>1. /\ p \in 1 .. Len(argv) /\ p + 1 \in 1 .. (Len(argv) + 1) /\ argv[p] \in Tokens
        /\ argv[p] \in Argument /\ Head(args) = argv[p] /\ Tail(args) = Rest(p + 1)
    BY <1>1, RestIs
  <2> QED
    BY <1>1, <2>1, Zenon
<1>2. CASE \E h \in Argument : Made(h) /\ args = <<h>> \o Rest(p)
  <2>1. PICK h \in Argument : Made(h) /\ args = <<h>> \o Rest(p)
    BY <1>2
  <2>2. Rest(p) \in Seq(Argument)
    BY RestIs
  <2>3. Head(args) = h /\ Tail(args) = Rest(p)
    BY <2>1, <2>2, InFront
  <2> QED
    BY <2>1, <2>3, Zenon
<1> QED
  BY <1>1, <1>2 DEF ArgsAt

LEMMA ArgsRest ==
    ASSUME argv' = argv, NEW q \in 1 .. (Len(argv) + 1), args' = Rest(q)
    PROVE  ArgsInv'
<1>1. Rest(q)' = Rest(q)
  BY DEF Rest
<1>2. ArgsAt(q)'
  BY <1>1, Zenon DEF ArgsAt
<1> QED
  BY <1>2, Zenon DEF ArgsInv

LEMMA ArgsMade ==
    ASSUME argv' = argv, NEW q \in 1 .. (Len(argv) + 1), NEW h \in Argument, Made(h),
           args' = <<h>> \o Rest(q)
    PROVE  ArgsInv'
<1>1. Rest(q)' = Rest(q)
  BY DEF Rest
<1>2. ArgsAt(q)'
  BY <1>1, Zenon DEF ArgsAt
<1> QED
  BY <1>2, Zenon DEF ArgsInv

LEMMA ArgsSame ==
    ASSUME argv' = argv, args' = args, ArgsInv
    PROVE  ArgsInv'
  BY Zenon DEF ArgsInv, ArgsAt, Rest

-----------------------------------------------------------------------------
(* What the parser takes an argument for.                                  *)

LEMMA Recognized ==
    ASSUME NEW t
    PROVE  /\ _recognize(t) = "POSITIONAL_MARK" =>
                 t.form = "mark" /\ ~ (at = "root" /\ positionalOnly)
           /\ _recognize(t) = "SUBCOMMAND" =>
                 /\ ~ (at = "root" /\ positionalOnly) /\ t.form # "mark"
                 /\ _valid_subcommand(t) \/ DottedSubcommand(t)
           /\ _recognize(t) = "ARG" =>
                 t.form \in {"long", "short", "windows"} /\ ~ (at = "root" /\ positionalOnly)
           /\ _recognize(t) = "TERMINATOR" => t.form = "terminator" /\ at # "root"
           /\ _recognize(t) = "NONE" =>
                 \/ at = "root" /\ positionalOnly
                 \/ /\ t.form \in {"word", "terminator"} \/ t.form \notin Forms
                    /\ ~ _valid_subcommand(t) /\ ~ DottedSubcommand(t)
                    /\ t.form = "terminator" => at = "root"
<1> DEFINE P == at = "root" /\ positionalOnly
           S == _valid_subcommand(t) \/ DottedSubcommand(t)
           A == t.form \in {"long", "short", "windows"}
           T == t.form = "terminator" /\ at # "root"
<1>1. _recognize(t) = IF P THEN "NONE"
                      ELSE CASE t.form = "mark" -> "POSITIONAL_MARK"
                             [] S -> "SUBCOMMAND"
                             [] A -> "ARG"
                             [] T -> "TERMINATOR"
                             [] OTHER -> "NONE"
  BY DEF _recognize
<1>2. S => t.form = "word"
  BY DEF _valid_subcommand, DottedSubcommand, _find_subcommand
<1>3. P \in BOOLEAN /\ S \in BOOLEAN
  BY DEF _valid_subcommand, DottedSubcommand, _find_subcommand, MoreSubcommands
<1> HIDE DEF P, S
<1>4. /\ _recognize(t) = "POSITIONAL_MARK" => t.form = "mark" /\ ~ P
      /\ _recognize(t) = "SUBCOMMAND" => ~ P /\ S
      /\ _recognize(t) = "ARG" => A /\ ~ P
      /\ _recognize(t) = "TERMINATOR" => T /\ ~ P
      /\ _recognize(t) = "NONE" => P \/ (t.form # "mark" /\ ~ S /\ ~ A /\ ~ T)
  BY <1>1, <1>2
<1>5. t.form \in Forms /\ t.form # "mark" /\ ~ A => t.form \in {"word", "terminator"}
  BY DEF Forms
<1> QED
  BY <1>2, <1>4, <1>5 DEF P, S

-----------------------------------------------------------------------------
(* Types.                                                                  *)

\* The operands a command line can have.
OptionValue == Tokens \cup {Word(t.value) : t \in {t \in Tokens : t.value # ""}}

ResultsType == [Apps -> [Options \cup Flags -> Seq(Argument)]]

ParserTypes ==
    /\ pc \in {"convert", "parse", "callbacks", "help", "requirements", "extras",
               "run", "done"}
    /\ at \in Apps /\ positionalOnly \in BOOLEAN
    /\ parsed \in [Apps -> Nat] /\ extras \subseteq Apps
    /\ selected \in Seq(Commands)

\* What an option was given is an argument, or a part of one.
ResultTypes ==
    /\ results \in ResultsType
    /\ \A a \in Apps : \A o \in Options : \A i \in 1 .. Len(results[a][o]) :
          results[a][o][i] \in OptionValue

ValueTypes == \A o \in Options : value[o] \in OptionValue \cup {DefaultValue[o]}

TypeInv == argv \in Seq(Tokens) /\ ArgsInv /\ ParserTypes /\ ResultTypes /\ ValueTypes

LEMMA TypeInit == Init => TypeInv
<1> SUFFICES ASSUME Init PROVE TypeInv
  OBVIOUS
<1>1. argv \in Seq(Tokens)
  <2>1. PICK n \in 0 .. MaxArgs : argv \in [1 .. n -> Tokens]
    BY DEF Init
  <2>2. n \in Nat
    <3>1. MaxArgs \in Nat
      BY TokensAssumption, Zenon
    <3> QED
      BY <3>1
  <2> QED
    BY <2>1, <2>2
<1>2. ArgsInv
  <2>1. args = Rest(1) /\ 1 \in 1 .. (Len(argv) + 1)
    BY <1>1, RestFirst DEF Init
  <2> QED
    BY <2>1 DEF ArgsInv, ArgsAt
<1>3. ParserTypes
  <2>1. <<>> \in Seq(Commands) /\ "root" \in Apps
    BY DEF Apps
  <2>2. [a \in Apps |-> 0] \in [Apps -> Nat]
    OBVIOUS
  <2>3. /\ pc = "convert" /\ at = "root" /\ positionalOnly = FALSE /\ selected = <<>>
        /\ parsed = [a \in Apps |-> 0] /\ extras = {}
    BY Zenon DEF Init
  <2> QED
    BY <2>1, <2>2, <2>3 DEF ParserTypes
<1>4. ResultTypes
  <2>1. results = [a \in Apps |-> [o \in Options \cup Flags |-> <<>>]]
    BY DEF Init
  <2>2. <<>> \in Seq(Argument) /\ Len(<<>>) = 0
    OBVIOUS
  <2>3. results \in ResultsType
    BY <2>1, <2>2 DEF ResultsType
  <2>4. \A a \in Apps : \A o \in Options : results[a][o] = <<>>
    BY <2>1
  <2> QED
    BY <2>2, <2>3, <2>4 DEF ResultTypes
<1>5. ValueTypes
  BY DEF Init, ValueTypes
<1> QED
  BY <1>1, <1>2, <1>3, <1>4, <1>5 DEF TypeInv

\* A result is added to one option or flag and to no other.
LEMMA AddResultIs ==
    ASSUME results \in ResultsType, NEW a \in Apps, NEW o \in Options \cup Flags,
           NEW v \in Argument, NEW r, r = AddResult(a, o, v)
    PROVE  /\ r \in ResultsType
           /\ r[a][o] = Append(results[a][o], v)
           /\ results[a][o] \in Seq(Argument)
           /\ r[a][o] # <<>>
           /\ \A b \in Apps : \A u \in Options \cup Flags :
                 b # a \/ u # o => r[b][u] = results[b][u]
<1>1. \A b \in Apps : \A u \in Options \cup Flags : results[b][u] \in Seq(Argument)
  BY DEF ResultsType
<1>2. Append(results[a][o], v) \in Seq(Argument) /\ Append(results[a][o], v) # <<>>
      /\ Len(Append(results[a][o], v)) = Len(results[a][o]) + 1
  BY <1>1
<1>3. r = [results EXCEPT ![a] = [results[a] EXCEPT ![o] = Append(results[a][o], v)]]
  BY DEF AddResult
<1>4. \A b \in Apps : results[b] \in [Options \cup Flags -> Seq(Argument)]
  BY DEF ResultsType
<1>5. DOMAIN results = Apps
  BY DEF ResultsType
<1>6. /\ r[a] = [results[a] EXCEPT ![o] = Append(results[a][o], v)]
      /\ \A b \in Apps : b # a => r[b] = results[b]
      /\ DOMAIN r = Apps
  BY <1>3, <1>5
<1>7. r[a][o] = Append(results[a][o], v)
  BY <1>4, <1>6
<1>8. \A u \in Options \cup Flags : u # o => r[a][u] = results[a][u]
  BY <1>4, <1>6
<1>9. r \in ResultsType
  <2>1. r[a] \in [Options \cup Flags -> Seq(Argument)]
    BY <1>2, <1>4, <1>6
  <2>2. r = [b \in Apps |-> r[b]]
    BY <1>3, <1>5
  <2> QED
    BY <1>4, <1>6, <2>1, <2>2 DEF ResultsType
<1> QED
  BY <1>1, <1>2, <1>6, <1>7, <1>8, <1>9

\* A flag is added, a pair of short flags leaving the second one; or an option
\* with its value, or with the next argument; or that one is missing.
TookFlag(a, o, t, q) ==
    /\ o \in Flags
    /\ \/ args' = Rest(q)
       \/ \E h \in Argument : Made(h) /\ h.form = "short" /\ args' = <<h>> \o Rest(q)
    /\ \E v \in Argument : results' = AddResult(a, o, v)
    /\ pc' = pc /\ outcome' = outcome

TookOwn(a, o, t, q) ==
    /\ o \in Options /\ t.value # ""
    /\ args' = Rest(q) /\ results' = AddResult(a, o, Word(t.value))
    /\ pc' = pc /\ outcome' = outcome

TookNext(a, o, t, q) ==
    /\ o \in Options /\ t.value = ""
    /\ q \in 1 .. Len(argv) /\ q + 1 \in 1 .. (Len(argv) + 1) /\ argv[q] \in Tokens
    /\ args' = Rest(q + 1) /\ results' = AddResult(a, o, argv[q])
    /\ pc' = pc /\ outcome' = outcome

TookNone(a, o, t, q) ==
    /\ o \in Options /\ t.value = "" /\ Rest(q) = <<>>
    /\ pc' = "done" /\ outcome' = "ArgumentMismatch"
    /\ args' = args /\ results' = results

LEMMA TakeIs ==
    ASSUME argv \in Seq(Tokens), NEW a \in Apps, NEW t \in Argument, t.sub = "",
           NEW o \in Named(a, t), NEW q \in 1 .. (Len(argv) + 1), Take(a, o, t, Rest(q))
    PROVE  TookFlag(a, o, t, q) \/ TookOwn(a, o, t, q) \/ TookNext(a, o, t, q)
              \/ TookNone(a, o, t, q)
<1>1. o \in Options \cup Flags /\ Options \cap Flags = {}
  BY NamedIs, OptionsAre
<1>2. t.value \in Part /\ "true" \in Part /\ "" \in Part /\ t.form \in Forms
  BY DEF Argument, Part
<1>3. CASE o \in Flags
  <2>1. TakeFlag(a, o, t, Rest(q))
    BY <1>3 DEF Take
  <2>2. args' = Rest(q) \/ \E h \in Argument : Made(h) /\ h.form = "short" /\ args' = <<h>> \o Rest(q)
    <3> DEFINE h == [t EXCEPT !.name = t.value, !.value = ""]
    <3>1. CASE t.form = "short" /\ t.value # ""
      <4>1. h.form = "short" /\ h.sub = "" /\ h.value = "" /\ h \in Argument
        BY <1>2, <3>1 DEF Argument
      <4>2. args' = <<h>> \o Rest(q)
        BY <2>1, <3>1, Zenon DEF TakeFlag
      <4> HIDE DEF h
      <4> QED
        BY <4>1, <4>2 DEF Made
    <3>2. CASE ~ (t.form = "short" /\ t.value # "")
      BY <2>1, <3>2, Zenon DEF TakeFlag
    <3> QED
      BY <3>1, <3>2
  <2>3. \E v \in Argument : results' = AddResult(a, o, v)
    <3> DEFINE w == IF t.form = "short" THEN "" ELSE t.value
    <3>1. w \in Part
      BY <1>2
    <3>2. get_flag_value(w) \in Argument
      <4> HIDE DEF w
      <4>1. get_flag_value(w) = Word("true") \/ get_flag_value(w) = Word(w)
        BY DEF get_flag_value
      <4> QED
        BY <1>2, <3>1, <4>1, TokensAre
    <3>3. results' = AddResult(a, o, get_flag_value(w))
      BY <2>1, Zenon DEF TakeFlag
    <3> QED
      BY <3>2, <3>3, Zenon
  <2>4. pc' = pc /\ outcome' = outcome
    BY <2>1, Zenon DEF TakeFlag
  <2> QED
    BY <1>3, <2>2, <2>3, <2>4, Zenon DEF TookFlag
<1>4. CASE o \notin Flags
  <2>1. TakeValue(a, o, t, Rest(q)) /\ o \in Options
    BY <1>1, <1>4, Zenon DEF Take
  <2>2. CASE t.value # ""
    BY <2>1, <2>2, Zenon DEF TakeValue, TookOwn
  <2>3. CASE t.value = "" /\ Rest(q) # <<>>
    <3>1. args' = Tail(Rest(q)) /\ results' = AddResult(a, o, Head(Rest(q)))
          /\ pc' = pc /\ outcome' = outcome
      BY <2>1, <2>3, Zenon DEF TakeValue
    <3>2. /\ q \in 1 .. Len(argv) /\ q + 1 \in 1 .. (Len(argv) + 1) /\ argv[q] \in Tokens
          /\ Head(Rest(q)) = argv[q] /\ Tail(Rest(q)) = Rest(q + 1)
      BY <2>3, RestIs
    <3> QED
      BY <2>1, <2>3, <3>1, <3>2, Zenon DEF TookNext
  <2>4. CASE t.value = "" /\ Rest(q) = <<>>
    BY <2>1, <2>4, Zenon DEF TakeValue, TookNone, Throw
  <2> QED
    BY <2>2, <2>3, <2>4, Zenon
<1> QED
  BY <1>3, <1>4

LEMMA AppendRange ==
    ASSUME NEW S, NEW T, NEW s \in Seq(S), NEW v \in S, v \in T,
           \A j \in 1 .. Len(s) : s[j] \in T
    PROVE  \A i \in 1 .. Len(Append(s, v)) : Append(s, v)[i] \in T
<1>1. /\ Len(Append(s, v)) = Len(s) + 1 /\ Len(s) \in Nat /\ Append(s, v)[Len(s) + 1] = v
      /\ \A i \in 1 .. Len(s) : Append(s, v)[i] = s[i]
  BY AppendProperties
<1> QED
  BY <1>1

LEMMA TakeTypes ==
    ASSUME argv \in Seq(Tokens), argv' = argv, ArgsInv, ResultTypes, NEW a \in Apps,
           NEW t \in Argument, t.value # "" => \E u \in Tokens : u.value = t.value,
           NEW o \in Named(a, t), NEW q \in 1 .. (Len(argv) + 1),
           TookFlag(a, o, t, q) \/ TookOwn(a, o, t, q) \/ TookNext(a, o, t, q)
              \/ TookNone(a, o, t, q)
    PROVE  ArgsInv' /\ ResultTypes' /\ (pc' = pc \/ pc' = "done")
<1>1. results \in ResultsType
  BY DEF ResultTypes
<1>2. ASSUME NEW v \in Argument, v \in OptionValue, o \in Options, results' = AddResult(a, o, v)
      PROVE  ResultTypes'
  <2>1. o \in Options \cup Flags
    BY <1>2
  <2>2. /\ results' \in ResultsType /\ results'[a][o] = Append(results[a][o], v)
        /\ results[a][o] \in Seq(Argument)
        /\ \A b \in Apps : \A u \in Options \cup Flags :
              b # a \/ u # o => results'[b][u] = results[b][u]
    <3>1. v \in Argument /\ a \in Apps /\ results' = AddResult(a, o, v)
      BY <1>2
    <3> QED
      BY ONLY <1>1, <2>1, <3>1, AddResultIs
  <2>3. ASSUME NEW b \in Apps, NEW u \in Options, NEW i \in 1 .. Len(results'[b][u])
        PROVE  results'[b][u][i] \in OptionValue
    <3>1. CASE b # a \/ u # o
      <4>1. results'[b][u] = results[b][u]
        BY <2>2, <3>1
      <4> QED
        BY <2>3, <4>1 DEF ResultTypes
    <3>2. CASE b = a /\ u = o
      <4> DEFINE s == results[a][o]
      <4>1. /\ s \in Seq(Argument)
            /\ \A j \in 1 .. Len(s) : s[j] \in OptionValue
        BY <1>2, <2>2 DEF ResultTypes
      <4>2. results'[b][u] = Append(s, v) /\ i \in 1 .. Len(Append(s, v))
        BY <2>2, <2>3, <3>2
      <4> HIDE DEF s
      <4>3. Append(s, v)[i] \in OptionValue
        BY <1>2, <4>1, <4>2, AppendRange
      <4> QED
        BY <4>2, <4>3
    <3> QED
      BY <3>1, <3>2
  <2> QED
    BY <2>2, <2>3 DEF ResultTypes
<1>3. CASE TookFlag(a, o, t, q)
  <2>1. PICK v \in Argument : results' = AddResult(a, o, v)
    BY <1>3, Zenon DEF TookFlag
  <2>2. o \in Flags /\ o \in Options \cup Flags /\ Options \cap Flags = {} /\ pc' = pc
    BY <1>3, OptionsAre DEF TookFlag
  <2>3. /\ results' \in ResultsType
        /\ \A b \in Apps : \A u \in Options \cup Flags :
              b # a \/ u # o => results'[b][u] = results[b][u]
    <3>1. o \in Options \cup Flags /\ a \in Apps
      BY <2>2
    <3> QED
      BY ONLY <1>1, <2>1, <3>1, AddResultIs
  <2>4. \A b \in Apps : \A u \in Options : results'[b][u] = results[b][u]
    BY <2>2, <2>3
  <2>5. ResultTypes'
    BY <2>3, <2>4 DEF ResultTypes
  <2>6. ArgsInv'
    <3>1. \/ args' = Rest(q)
          \/ \E h \in Argument : Made(h) /\ h.form = "short" /\ args' = <<h>> \o Rest(q)
      BY <1>3, Zenon DEF TookFlag
    <3> QED
      BY <3>1, ArgsRest, ArgsMade
  <2> QED
    BY <2>2, <2>5, <2>6
<1>4. CASE TookOwn(a, o, t, q)
  <2>1. PICK u \in Tokens : u.value = t.value /\ u.value # ""
    BY <1>4 DEF TookOwn
  <2>2. Word(t.value) \in OptionValue
    BY <2>1 DEF OptionValue
  <2>3. Word(t.value) \in Argument
    <3>1. t.value \in Part
      BY DEF Argument
    <3> QED
      BY <3>1, TokensAre
  <2>4. ResultTypes'
    BY <1>2, <1>4, <2>2, <2>3 DEF TookOwn
  <2> QED
    BY <1>4, <2>4, ArgsRest DEF TookOwn
<1>5. CASE TookNext(a, o, t, q)
  <2>1. argv[q] \in Argument /\ argv[q] \in OptionValue
    BY <1>5, TokensAre DEF TookNext, OptionValue
  <2>2. ResultTypes'
    BY <1>2, <1>5, <2>1 DEF TookNext
  <2> QED
    BY <1>5, <2>2, ArgsRest DEF TookNext
<1>6. CASE TookNone(a, o, t, q)
  BY <1>6, ArgsSame DEF TookNone, ResultTypes
<1> QED
  BY <1>3, <1>4, <1>5, <1>6

LEMMA HeadIs ==
    ASSUME argv \in Seq(Tokens), ArgsInv, args # <<>>
    PROVE  /\ Head(args) \in Argument
           /\ Head(args) \in Tokens \/ Made(Head(args))
           /\ Head(args).value # "" => \E u \in Tokens : u.value = Head(args).value
           /\ Head(args).form = "word" => Head(args).value = ""
           /\ \E q \in 1 .. (Len(argv) + 1) : Tail(args) = Rest(q)
<1>1. PICK p \in 1 .. (Len(argv) + 1) : ArgsAt(p)
  BY DEF ArgsInv
<1>2. /\ Head(args) \in Argument
      /\ Head(args) \in Tokens \/ Made(Head(args))
      /\ \E q \in 1 .. (Len(argv) + 1) : Tail(args) = Rest(q)
  BY <1>1, NextArgs
<1>3. Head(args) \in Tokens => (Head(args).form = "word" => Head(args).value = "")
  BY TokensAre
<1>4. Made(Head(args)) => Head(args).value = ""
  BY DEF Made
<1> QED
  BY <1>2, <1>3, <1>4, Zenon

LEMMA SomeLargest ==
    ASSUME NEW A, A \subseteq 1 .. 8, A # {}
    PROVE  \E i \in A : \A j \in A : j <= i
<1> DEFINE R == OpToRel(<, Nat)
           U == {i \in 0 .. 8 : 8 - i \in A}
<1>1. IsWellFoundedOn(R, Nat)
  BY NatLessThanWellFounded
<1>2. R = {p \in Nat \X Nat : p[1] < p[2]}
  BY DEF OpToRel
<1> HIDE DEF R
<1>3. U \subseteq Nat /\ U # {}
  <2>1. PICK i \in 1 .. 8 : i \in A
    OBVIOUS
  <2>2. 8 - i \in 0 .. 8 /\ 8 - (8 - i) = i
    OBVIOUS
  <2>3. 8 - i \in U
    BY <2>1, <2>2, Zenon
  <2>4. 0 .. 8 \subseteq Nat
    OBVIOUS
  <2> QED
    BY <2>3, <2>4, Zenon
<1>4. PICK x \in U : \A y \in U : ~ (<<y, x>> \in R)
  BY <1>1, <1>3, WFMin, ZenonT(60)
<1>5. \A j \in A : j <= 8 - x
  <2> SUFFICES ASSUME NEW j \in A, ~ (j <= 8 - x) PROVE FALSE
    OBVIOUS
  <2>0. j \in 1 .. 8 /\ x \in 0 .. 8
    BY <1>4
  <2>1. 8 - j \in U /\ 8 - j \in Nat /\ x \in Nat /\ 8 - j < x
    <3>1. 8 - j \in 0 .. 8 /\ 8 - (8 - j) = j /\ 8 - j < x
      BY <2>0
    <3> QED
      BY <2>0, <3>1
  <2> QED
    BY <1>2, <1>4, <2>1
<1> QED
  BY <1>4, <1>5

\* The variables afterwards: the value of one of the subcommands, or as before.
LEMMA AssignIs ==
    ASSUME NEW o \in Options
    PROVE  \/ Assigned(o) = {} /\ Assign[o] = value[o]
           \/ \E i \in Assigned(o) : Assign[o] = results[CommandOrder[i]][o][1]
<1>1. Assign[o] = IF Assigned(o) = {} THEN value[o]
                  ELSE LET i == CHOOSE i \in Assigned(o) : \A j \in Assigned(o) : j <= i
                       IN  results[CommandOrder[i]][o][1]
  BY Zenon DEF Assign
<1>2. CASE Assigned(o) = {}
  BY <1>1, <1>2, Zenon
<1>3. CASE Assigned(o) # {}
  <2> DEFINE m == CHOOSE i \in Assigned(o) : \A j \in Assigned(o) : j <= i
  <2>1. Assigned(o) \subseteq 1 .. 8
    BY CommandsAre DEF Assigned
  <2>2. \E i \in Assigned(o) : \A j \in Assigned(o) : j <= i
    BY ONLY <1>3, <2>1, SomeLargest
  <2>3. m \in Assigned(o)
    BY <2>2, Zenon
  <2> QED
    BY <1>1, <1>3, <2>3, Zenon
<1> QED
  BY <1>2, <1>3

LEMMA AssignTypes ==
    ASSUME ResultTypes, ValueTypes, value' = Assign
    PROVE  ValueTypes'
<1> SUFFICES ASSUME NEW o \in Options PROVE Assign[o] \in OptionValue \cup {DefaultValue[o]}
  BY Zenon DEF ValueTypes
<1>1. CASE Assigned(o) = {} /\ Assign[o] = value[o]
  BY <1>1, Zenon DEF ValueTypes
<1>2. CASE \E i \in Assigned(o) : Assign[o] = results[CommandOrder[i]][o][1]
  <2>1. PICK i \in Assigned(o) : Assign[o] = results[CommandOrder[i]][o][1]
    BY <1>2
  <2> DEFINE c == CommandOrder[i]
  <2>2. c \in Apps /\ results[c][o] # <<>>
    BY Zenon DEF Assigned, Apps, Commands
  <2>3. results[c][o] \in Seq(Argument)
    BY <2>2 DEF ResultTypes, ResultsType
  <2>4. 1 \in 1 .. Len(results[c][o])
    <3> DEFINE s == results[c][o]
    <3> HIDE DEF s
    <3>1. s \in Seq(Argument) /\ s # <<>> => 1 \in 1 .. Len(s)
      OBVIOUS
    <3> QED
      BY <2>2, <2>3, <3>1 DEF s
  <2>5. results[c][o][1] \in OptionValue
    BY <2>2, <2>4, Zenon DEF ResultTypes
  <2> QED
    BY <2>1, <2>5, Zenon
<1> QED
  BY <1>1, <1>2, AssignIs, Zenon

LEMMA EnterTypes ==
    ASSUME NEW c \in Apps, parsed \in [Apps -> Nat], parsed' = [parsed EXCEPT ![c] = @ + 1]
    PROVE  /\ parsed' \in [Apps -> Nat] /\ parsed'[c] = parsed[c] + 1 /\ parsed'[c] > 0
           /\ \A a \in Apps : a # c => parsed'[a] = parsed[a]
  OBVIOUS

LEMMA SelectTypes ==
    ASSUME NEW c \in Commands, selected \in Seq(Commands), selected' = Append(selected, c)
    PROVE  selected' \in Seq(Commands) /\ Len(selected') = Len(selected) + 1
              /\ selected' # <<>>
  BY AppendProperties

LEMMA TypeNext == TypeInv /\ [Next]_vars => TypeInv'
<1> SUFFICES ASSUME TypeInv, [Next]_vars PROVE TypeInv'
  OBVIOUS
<1> USE DEF Throw
<1>1. argv \in Seq(Tokens) /\ ArgsInv /\ ParserTypes /\ ResultTypes /\ ValueTypes
  BY DEF TypeInv
<1>2. "root" \in Apps /\ Commands \subseteq Apps
  BY DEF Apps
<1>3. ASSUME argv' = argv, ArgsInv', ParserTypes', results' = results, value' = value
      PROVE  TypeInv'
  BY <1>1, <1>3 DEF TypeInv, ResultTypes, ValueTypes
<1>4. ASSUME argv' = argv, ArgsInv', ParserTypes', ResultTypes', value' = value
      PROVE  TypeInv'
  BY <1>1, <1>4 DEF TypeInv, ValueTypes
<1>5. ASSUME argv' = argv, args' = args, UNCHANGED <<at, positionalOnly, parsed, selected, extras>>,
             pc' \in {"parse", "callbacks", "help", "requirements", "extras", "run", "done"}
      PROVE  ArgsInv' /\ ParserTypes'
  BY <1>1, <1>5, ArgsSame DEF ParserTypes
<1>6. CASE Convert
  <2>1. argv' = argv /\ args' = args /\ results' = results /\ value' = value
    BY <1>6 DEF Convert
  <2>2. parsed' = parsed \/ parsed' = [parsed EXCEPT !["root"] = 1]
    BY <1>6 DEF Convert
  <2>3. ParserTypes'
    <3>1. parsed' \in [Apps -> Nat]
      BY <1>1, <1>2, <2>2 DEF ParserTypes
    <3>2. pc' \in {"parse", "done"} /\ UNCHANGED <<at, positionalOnly, selected, extras>>
      BY <1>6 DEF Convert
    <3> QED
      BY <1>1, <3>1, <3>2 DEF ParserTypes
  <2> QED
    BY <1>1, <1>3, <2>1, <2>3, ArgsSame
<1>7. ASSUME argv' = argv, pc = "parse", args # <<>>, args' = Tail(args) PROVE ArgsInv'
  <2>1. PICK q \in 1 .. (Len(argv) + 1) : Tail(args) = Rest(q)
    BY <1>1, <1>7, HeadIs
  <2> QED
    BY <1>7, <2>1, ArgsRest
<1>8. CASE PositionalMark
  <2>1. pc = "parse" /\ args # <<>>
    BY <1>8 DEF PositionalMark, Parsing
  <2>2. ParserTypes'
    BY <1>1, <1>2, <1>8 DEF PositionalMark, ParserTypes, BackToRoot
  <2> QED
    BY <1>3, <1>7, <1>8, <2>1, <2>2 DEF PositionalMark
<1>9. CASE Terminator
  <2>1. pc = "parse" /\ args # <<>>
    BY <1>9 DEF Terminator, Parsing
  <2>2. ParserTypes'
    BY <1>1, <1>2, <1>9 DEF Terminator, ParserTypes, BackToRoot
  <2> QED
    BY <1>3, <1>7, <1>9, <2>1, <2>2 DEF Terminator
<1>10. CASE _parse_subcommand
  <2> DEFINE t == Head(args)
             c == IF DottedSubcommand(t) THEN t.sub ELSE t.name
  <2>1. pc = "parse" /\ args # <<>> /\ (_valid_subcommand(t) \/ DottedSubcommand(t))
    BY <1>10, Recognized, Zenon DEF _parse_subcommand, Parsing
  <2>2. UNCHANGED <<argv, pc, positionalOnly, results, extras, value>>
    BY <1>10 DEF _parse_subcommand
  <2>3. CASE at # "root"
    <3>1. args' = args /\ selected' = selected /\ parsed' = parsed /\ at' = "root"
      BY <1>10, <2>3 DEF _parse_subcommand, BackToRoot
    <3> QED
      BY <1>1, <1>2, <1>3, <2>2, <3>1, ArgsSame DEF ParserTypes
  <2>4. CASE at = "root"
    <3>1. /\ args' = IF DottedSubcommand(t) THEN <<Word(t.name)>> \o Tail(args) ELSE Tail(args)
          /\ selected' = Append(selected, c) /\ at' = c
          /\ parsed' = [parsed EXCEPT ![c] = @ + 1]
      BY <1>10, <2>4, Zenon DEF _parse_subcommand, Enter
    <3>2. c \in Commands
      BY <2>1 DEF _valid_subcommand, DottedSubcommand, _find_subcommand, Word
    <3>3. c \in Apps
      BY <1>2, <3>2
    <3> HIDE DEF c
    <3>4. parsed' \in [Apps -> Nat] /\ selected' \in Seq(Commands)
      BY <1>1, <3>1, <3>2, <3>3, EnterTypes, SelectTypes DEF ParserTypes
    <3>5. ParserTypes'
      BY <1>1, <2>2, <3>1, <3>3, <3>4 DEF ParserTypes
    <3>6. PICK q \in 1 .. (Len(argv) + 1) : Tail(args) = Rest(q)
      BY <1>1, <2>1, HeadIs
    <3>7. t \in Argument
      BY <1>1, <2>1, HeadIs
    <3>8. Word(t.name) \in Argument /\ Made(Word(t.name))
      <4>1. t.name \in Part
        BY <3>7 DEF Argument
      <4>2. Word(t.name) \in Argument
        BY <4>1, TokensAre
      <4> QED
        BY <4>2 DEF Made, Word
    <3>9. ArgsInv'
      <4>1. args' = Rest(q) \/ args' = <<Word(t.name)>> \o Rest(q)
        BY <3>1, <3>6, Zenon
      <4>2. argv' = argv
        BY <2>2
      <4> QED
        BY <3>8, <4>1, <4>2, ArgsRest, ArgsMade
    <3> QED
      BY <1>3, <2>2, <3>5, <3>9
  <2> QED
    BY <2>3, <2>4
<1>11. CASE _parse_positional
  <2> DEFINE t == Head(args)
             known == _find_subcommand(t, FALSE) /\ MoreSubcommands
  <2>1. pc = "parse" /\ args # <<>>
    BY <1>11 DEF _parse_positional, Parsing
  <2>2. UNCHANGED <<argv, pc, positionalOnly, selected, results, value>>
    BY <1>11 DEF _parse_positional
  <2>3. \/ known /\ at' = t.name /\ parsed' = [parsed EXCEPT ![t.name] = @ + 1]
           /\ args' = Tail(args) /\ extras' = extras
        \/ at' = "root" /\ args' = args /\ parsed' = parsed /\ extras' = extras
        \/ extras' = extras \cup {at} /\ args' = Tail(args) /\ at' = at /\ parsed' = parsed
    BY <1>11, Zenon DEF _parse_positional, Enter, BackToRoot, _move_to_missing
  <2>4. known => t.name \in Apps
    BY <1>2 DEF _find_subcommand
  <2>5. ParserTypes'
    <3>1. parsed' \in [Apps -> Nat]
      BY <1>1, <2>3, <2>4, EnterTypes DEF ParserTypes
    <3>2. at' \in Apps /\ extras' \subseteq Apps
      BY <1>1, <1>2, <2>3, <2>4 DEF ParserTypes
    <3> QED
      BY <1>1, <2>2, <3>1, <3>2 DEF ParserTypes
  <2>6. ArgsInv'
    BY <1>1, <1>7, <2>1, <2>2, <2>3, ArgsSame
  <2> QED
    BY <1>3, <2>2, <2>5, <2>6
<1>12. CASE ParseOwnArg
  <2> DEFINE t == Head(args)
  <2>1. pc = "parse" /\ args # <<>> /\ t.sub = ""
    BY <1>12 DEF ParseOwnArg, Parsing
  <2>2. PICK o \in Named(at, t) : Take(at, o, t, Tail(args))
    BY <1>12 DEF ParseOwnArg
  <2>3. UNCHANGED <<argv, at, positionalOnly, parsed, selected, extras, value>>
    BY <1>12 DEF ParseOwnArg
  <2>4. PICK q \in 1 .. (Len(argv) + 1) : Tail(args) = Rest(q)
    BY <1>1, <2>1, HeadIs
  <2>5. t \in Argument /\ (t.value # "" => \E u \in Tokens : u.value = t.value)
    BY <1>1, <2>1, HeadIs
  <2>6. at \in Apps /\ argv' = argv /\ Take(at, o, t, Rest(q))
    BY <1>1, <2>2, <2>3, <2>4 DEF ParserTypes
  <2> HIDE DEF t
  <2>7. TookFlag(at, o, t, q) \/ TookOwn(at, o, t, q) \/ TookNext(at, o, t, q)
           \/ TookNone(at, o, t, q)
    BY ONLY <1>1, <2>1, <2>2, <2>4, <2>5, <2>6, TakeIs
  <2>8. ArgsInv' /\ ResultTypes' /\ (pc' = pc \/ pc' = "done")
    BY ONLY <1>1, <2>2, <2>4, <2>5, <2>6, <2>7, TakeTypes
  <2>9. ParserTypes'
    BY <1>1, <2>3, <2>8 DEF ParserTypes
  <2> QED
    BY <1>4, <2>3, <2>8, <2>9
<1>13. CASE ParseDottedArg
  <2> DEFINE t == Head(args)
             d == DottedArg(t)
             c == t.sub
  <2>1. pc = "parse" /\ args # <<>>
    BY <1>13 DEF ParseDottedArg, Parsing
  <2>2. PICK o \in DottedNames(t) : Take(c, o, d, Tail(args))
    BY <1>13 DEF ParseDottedArg
  <2>3. /\ UNCHANGED <<argv, at, positionalOnly, extras, value>>
        /\ selected' = Append(selected, c) /\ parsed' = [parsed EXCEPT !["root"] = @ + 1]
    BY <1>13, Zenon DEF ParseDottedArg
  <2>4. o \in Named(c, d) /\ c \in Commands
    BY <2>2 DEF DottedNames
  <2>5. PICK q \in 1 .. (Len(argv) + 1) : Tail(args) = Rest(q)
    BY <1>1, <2>1, HeadIs
  <2>6. t \in Argument /\ (t.value # "" => \E u \in Tokens : u.value = t.value)
    BY <1>1, <2>1, HeadIs
  <2>7. d \in Argument /\ d.sub = "" /\ d.value = t.value
    <3>1. "" \in Part /\ "short" \in Forms
      BY DEF Part, Forms
    <3> HIDE DEF t
    <3> QED
      BY <2>6, <3>1 DEF DottedArg, Argument
  <2>8. (d.value # "" => \E u \in Tokens : u.value = d.value) /\ c \in Apps
    BY <1>2, <2>4, <2>6, <2>7, Zenon
  <2>9. Take(c, o, d, Rest(q)) /\ argv' = argv
    BY <2>2, <2>3, <2>5, Zenon
  <2> HIDE DEF d, c
  <2>10. TookFlag(c, o, d, q) \/ TookOwn(c, o, d, q) \/ TookNext(c, o, d, q)
            \/ TookNone(c, o, d, q)
    BY ONLY <1>1, <2>4, <2>5, <2>7, <2>8, <2>9, TakeIs
  <2>11. ArgsInv' /\ ResultTypes' /\ (pc' = pc \/ pc' = "done")
    BY ONLY <1>1, <2>4, <2>5, <2>7, <2>8, <2>9, <2>10, TakeTypes
  <2>12. parsed' \in [Apps -> Nat] /\ selected' \in Seq(Commands)
    BY <1>1, <1>2, <2>3, <2>4, EnterTypes, SelectTypes DEF ParserTypes
  <2>13. ParserTypes'
    BY <1>1, <2>3, <2>11, <2>12 DEF ParserTypes
  <2> QED
    BY <1>4, <2>3, <2>11, <2>13
<1>14. CASE ParseUnknownArg
  <2>1. pc = "parse" /\ args # <<>>
    BY <1>14 DEF ParseUnknownArg, Parsing
  <2>2. ParserTypes'
    BY <1>1, <1>14 DEF ParseUnknownArg, ParserTypes, _move_to_missing
  <2> QED
    BY <1>3, <1>7, <1>14, <2>1, <2>2 DEF ParseUnknownArg
<1>15. CASE ParseEnds
  BY <1>3, <1>5, <1>15 DEF ParseEnds, parseVars
<1>16. CASE _process_callbacks
  <2>1. /\ argv' = argv /\ args' = args /\ results' = results
        /\ UNCHANGED <<at, positionalOnly, parsed, selected, extras>>
    BY <1>16 DEF _process_callbacks, parseVars
  <2>2. (pc' = "done" /\ value' = value) \/ (pc' = "help" /\ value' = Assign)
    BY <1>16, Zenon DEF _process_callbacks
  <2>3. ArgsInv' /\ ParserTypes'
    BY <1>5, <2>1, <2>2
  <2>4. ResultTypes'
    BY <1>1, <2>1 DEF ResultTypes
  <2>5. CASE value' = value
    BY <1>4, <2>1, <2>3, <2>4, <2>5
  <2>6. CASE value' = Assign
    <3>1. ValueTypes'
      BY <1>1, <2>6, AssignTypes
    <3> QED
      BY <1>1, <2>1, <2>3, <2>4, <3>1 DEF TypeInv
  <2> QED
    BY <2>2, <2>5, <2>6
<1>17. CASE _process_help_flags
  BY <1>3, <1>5, <1>17 DEF _process_help_flags, parseVars
<1>18. CASE _process_requirements
  BY <1>3, <1>5, <1>18 DEF _process_requirements, parseVars
<1>19. CASE _process_extras
  BY <1>3, <1>5, <1>19 DEF _process_extras, parseVars
<1>20. CASE run_callback
  BY <1>3, <1>5, <1>20 DEF run_callback, parseVars
<1>21. CASE UNCHANGED vars
  <2>1. /\ argv' = argv /\ args' = args /\ results' = results /\ value' = value /\ pc' = pc
        /\ UNCHANGED <<at, positionalOnly, parsed, selected, extras>>
    BY <1>21 DEF vars, parseVars
  <2>2. ParserTypes'
    BY <1>1, <2>1 DEF ParserTypes
  <2> QED
    BY <1>1, <1>3, <2>1, <2>2, ArgsSame
<1> QED
  BY <1>6, <1>8, <1>9, <1>10, <1>11, <1>12, <1>13, <1>14, <1>15, <1>16, <1>17, <1>18,
     <1>19, <1>20, <1>21 DEF Next, Parse, Done

-----------------------------------------------------------------------------
(* Induction over an interval, and functions defined by iteration.         *)

\* A set that has 0, and with a number below n the next one, has all up to n.
LEMMA IntervalInd ==
    ASSUME NEW n \in Nat, NEW T, 0 \in T, \A i \in 1 .. n : i - 1 \in T => i \in T
    PROVE  \A i \in 0 .. n : i \in T
<1> DEFINE R == OpToRel(<, Nat)
           U == {i \in 0 .. n : i \notin T}
<1> SUFFICES ASSUME U # {} PROVE FALSE
  OBVIOUS
<1>1. IsWellFoundedOn(R, Nat)
  BY NatLessThanWellFounded
<1>2. R = {p \in Nat \X Nat : p[1] < p[2]}
  BY DEF OpToRel
<1> HIDE DEF R
<1>3. U \subseteq Nat
  OBVIOUS
<1>4. PICK x \in U : \A y \in U : ~ (<<y, x>> \in R)
  BY <1>1, <1>3, WFMin
<1>5. x \in 1 .. n /\ x - 1 \in 0 .. n /\ x - 1 \in Nat /\ x \in Nat
  BY <1>4
<1>6. x - 1 \notin U
  <2>1. <<x - 1, x>> \in R
    BY <1>2, <1>5
  <2> QED
    BY <1>4, <2>1
<1> QED
  BY <1>4, <1>5, <1>6

\* g begins with b and takes the first k of the steps F.
Run(F, b, V, k, g) ==
    /\ g \in [0 .. k -> V] /\ g[0] = b
    /\ \A i \in 1 .. k : g[i] = F[i][g[i - 1]]

Runs(F, b, V, k) == \E g : Run(F, b, V, k, g)

LEMMA RunsExist ==
    ASSUME NEW n \in Nat, NEW V, NEW b \in V, NEW F \in [1 .. n -> [V -> V]]
    PROVE  Runs(F, b, V, n)
<1> DEFINE T == {k \in Nat : Runs(F, b, V, k)}
<1>1. 0 \in T
  <2> DEFINE z == [i \in 0 .. 0 |-> b]
  <2>1. z \in [0 .. 0 -> V] /\ z[0] = b /\ \A i \in 1 .. 0 : FALSE
    OBVIOUS
  <2> HIDE DEF z
  <2>2. Run(F, b, V, 0, z)
    BY <2>1 DEF Run
  <2> QED
    BY <2>2 DEF Runs
<1>2. ASSUME NEW k \in 1 .. n, Runs(F, b, V, k - 1) PROVE Runs(F, b, V, k)
  <2>1. PICK g : Run(F, b, V, k - 1, g)
    BY <1>2 DEF Runs
  <2>2. /\ g \in [0 .. k - 1 -> V] /\ g[0] = b
        /\ \A i \in 1 .. k - 1 : g[i] = F[i][g[i - 1]]
    BY <2>1 DEF Run
  <2>3. g[k - 1] \in V /\ F[k] \in [V -> V] /\ F[k][g[k - 1]] \in V
    BY <2>2
  <2> DEFINE h == [i \in 0 .. k |-> IF i = k THEN F[k][g[k - 1]] ELSE g[i]]
  <2>4. h \in [0 .. k -> V] /\ h[0] = b
    BY <2>2, <2>3
  <2>5. ASSUME NEW i \in 1 .. k PROVE h[i] = F[i][h[i - 1]]
    <3>1. CASE i = k
      <4>1. i - 1 \in 0 .. k /\ i - 1 # k
        BY <3>1
      <4> QED
        BY <3>1, <4>1
    <3>2. CASE i # k
      <4>1. i \in 1 .. k - 1 /\ i - 1 \in 0 .. k /\ i - 1 # k
        BY <3>2
      <4> QED
        BY <2>2, <3>2, <4>1
    <3> QED
      BY <3>1, <3>2
  <2> HIDE DEF h
  <2>6. Run(F, b, V, k, h)
    BY <2>4, <2>5 DEF Run
  <2> QED
    BY <2>6 DEF Runs
<1>3. \A k \in 1 .. n : k - 1 \in T => k \in T
  BY <1>2
<1> HIDE DEF T
<1>4. \A k \in 0 .. n : k \in T
  BY ONLY <1>1, <1>3, n \in Nat, IntervalInd
<1>5. n \in T
  BY <1>4
<1> QED
  BY <1>5 DEF T

-----------------------------------------------------------------------------
(* The callbacks that run.                                                 *)

\* Sequences of subcommands that were parsed.
ParsedOnly == {v \in Seq(Commands) : \A j \in 1 .. Len(v) : parsed[v[j]] > 0}

\* One step of the selection.
CalledNext(s, i, v) == IF parsed[s[i]] > 0 THEN Append(v, s[i]) ELSE v

LEMMA CalledNextIs ==
    ASSUME NEW s \in Seq(Commands), NEW i \in 1 .. Len(s), NEW v \in ParsedOnly
    PROVE  CalledNext(s, i, v) \in ParsedOnly
<1>1. s[i] \in Commands /\ v \in Seq(Commands)
  BY DEF ParsedOnly
<1>2. CASE parsed[s[i]] > 0
  <2> DEFINE T == {c \in Commands : parsed[c] > 0}
  <2>1. s[i] \in T /\ \A j \in 1 .. Len(v) : v[j] \in T
    BY <1>1, <1>2 DEF ParsedOnly
  <2>2. Append(v, s[i]) \in Seq(Commands)
    BY <1>1
  <2> HIDE DEF T
  <2>3. \A j \in 1 .. Len(Append(v, s[i])) : Append(v, s[i])[j] \in T
    BY ONLY <1>1, <2>1, AppendRange
  <2> QED
    BY <1>2, <2>2, <2>3 DEF T, ParsedOnly, CalledNext
<1>3. CASE ~ (parsed[s[i]] > 0)
  BY <1>3 DEF CalledNext
<1> QED
  BY <1>2, <1>3

\* The equations of Called.
LEMMA CalledEquation ==
    ASSUME NEW s \in Seq(Commands)
    PROVE  \E g \in [0 .. Len(s) -> ParsedOnly] :
              /\ g[0] = <<>> /\ Called(s) = g[Len(s)]
              /\ \A i \in 1 .. Len(s) : g[i] = CalledNext(s, i, g[i - 1])
<1> DEFINE n == Len(s)
           V == ParsedOnly
           F == [i \in 1 .. n |-> [v \in V |-> CalledNext(s, i, v)]]
<1>1. n \in Nat
  OBVIOUS
<1>2. F \in [1 .. n -> [V -> V]] /\ \A i \in 1 .. n : \A v \in V : F[i][v] = CalledNext(s, i, v)
  BY CalledNextIs
<1>3. <<>> \in V
  BY DEF ParsedOnly
<1> HIDE DEF n, V, F
<1>4. PICK g : Run(F, <<>>, V, n, g)
  <2>1. Runs(F, <<>>, V, n)
    BY ONLY <1>1, <1>2, <1>3, RunsExist
  <2> QED
    BY <2>1 DEF Runs
<1>5. g \in [0 .. n -> V] /\ g[0] = <<>> /\ \A i \in 1 .. n : g[i] = F[i][g[i - 1]]
  BY <1>4 DEF Run
<1>6. \A i \in 1 .. n : g[i] = CalledNext(s, i, g[i - 1])
  <2> SUFFICES ASSUME NEW i \in 1 .. n PROVE g[i] = CalledNext(s, i, g[i - 1])
    OBVIOUS
  <2>1. i - 1 \in 0 .. n
    BY <1>1
  <2> QED
    BY <1>2, <1>5, <2>1
<1> DEFINE Upto(f) == f = [i \in 0 .. n |->
                              IF i = 0 THEN <<>>
                              ELSE IF parsed[s[i]] > 0 THEN Append(f[i - 1], s[i]) ELSE f[i - 1]]
<1>7. Upto(g)
  <2>1. ASSUME NEW i \in 0 .. n
        PROVE  g[i] = IF i = 0 THEN <<>>
                      ELSE IF parsed[s[i]] > 0 THEN Append(g[i - 1], s[i]) ELSE g[i - 1]
    <3>1. CASE i = 0
      BY <1>5, <3>1
    <3>2. CASE i # 0
      <4>1. i \in 1 .. n
        BY <1>1, <3>2
      <4> QED
        BY <1>6, <3>2, <4>1 DEF CalledNext
    <3> QED
      BY <3>1, <3>2
  <2> QED
    BY <1>5, <2>1
<1>8. Called(s) = (CHOOSE f : Upto(f))[n]
  BY Zenon DEF Called, n
<1>9. Upto(CHOOSE f : Upto(f))
  BY <1>7, Zenon
<1> DEFINE h == CHOOSE f : Upto(f)
<1>10. h \in [0 .. n -> V] /\ h[0] = <<>> /\ \A i \in 1 .. n : h[i] = CalledNext(s, i, h[i - 1])
  <2>1. DOMAIN h = 0 .. n /\ h = [i \in 0 .. n |-> h[i]]
    BY <1>9, ZenonT(60)
  <2>2. h[0] = <<>>
    <3>1. 0 \in 0 .. n
      BY <1>1
    <3> QED
      BY <1>9, <3>1
  <2>3. ASSUME NEW i \in 1 .. n PROVE h[i] = CalledNext(s, i, h[i - 1])
    <3>1. i \in 0 .. n /\ i # 0
      BY <1>1
    <3> QED
      BY <1>9, <3>1 DEF CalledNext
  <2> DEFINE T == {k \in Nat : h[k] \in V}
  <2> HIDE DEF h
  <2>4. 0 \in T
    BY <1>3, <2>2
  <2>5. \A k \in 1 .. n : k - 1 \in T => k \in T
    <3> SUFFICES ASSUME NEW k \in 1 .. n, h[k - 1] \in V PROVE h[k] \in V
      BY <1>1
    <3> QED
      BY <2>3, CalledNextIs DEF n, V
  <2> HIDE DEF T
  <2>6. \A k \in 0 .. n : k \in T
    BY ONLY <1>1, <2>4, <2>5, IntervalInd
  <2> QED
    BY <2>1, <2>2, <2>3, <2>6 DEF T
<1> HIDE DEF Upto, h
<1>11. Called(s) = h[n]
  BY <1>8, Zenon DEF h
<1> QED
  BY <1>10, <1>11 DEF n, V

\* The callbacks that run are those of subcommands that were parsed; one that
\* was selected alone and parsed does run.
LEMMA CalledIs ==
    ASSUME NEW s \in Seq(Commands)
    PROVE  /\ Called(s) \in ParsedOnly
           /\ Len(s) = 1 /\ parsed[s[1]] > 0 => Called(s) = <<s[1]>>
<1>1. PICK g \in [0 .. Len(s) -> ParsedOnly] :
              /\ g[0] = <<>> /\ Called(s) = g[Len(s)]
              /\ \A i \in 1 .. Len(s) : g[i] = CalledNext(s, i, g[i - 1])
  BY CalledEquation
<1>2. Len(s) \in 0 .. Len(s)
  OBVIOUS
<1>3. ASSUME Len(s) = 1, parsed[s[1]] > 0 PROVE Called(s) = <<s[1]>>
  <2>1. 1 \in 1 .. Len(s) /\ 1 - 1 = 0
    BY <1>3
  <2>2. Called(s) = CalledNext(s, 1, <<>>)
    BY <1>1, <1>3, <2>1
  <2>3. Append(<<>>, s[1]) = <<s[1]>>
    OBVIOUS
  <2> QED
    BY <1>3, <2>2, <2>3 DEF CalledNext
<1> QED
  BY <1>1, <1>2, <1>3

\* As many callbacks run as the selection has subcommands that were parsed.
LEMMA CalledCount ==
    ASSUME NEW s \in Seq(Commands)
    PROVE  Len(Called(s)) = Cardinality({i \in 1 .. Len(s) : parsed[s[i]] > 0})
<1> DEFINE n == Len(s)
           P(k) == {i \in 1 .. k : parsed[s[i]] > 0}
<1>1. PICK g \in [0 .. n -> ParsedOnly] :
              /\ g[0] = <<>> /\ Called(s) = g[n]
              /\ \A i \in 1 .. n : g[i] = CalledNext(s, i, g[i - 1])
  BY CalledEquation
<1>2. n \in Nat
  OBVIOUS
<1> DEFINE T == {k \in Nat : Len(g[k]) = Cardinality(P(k))}
<1>3. 0 \in T
  <2>1. P(0) = {} /\ Len(<<>>) = 0
    OBVIOUS
  <2> QED
    BY <1>1, <2>1, FS_EmptySet
<1>4. ASSUME NEW k \in 1 .. n, Len(g[k - 1]) = Cardinality(P(k - 1))
      PROVE  Len(g[k]) = Cardinality(P(k))
  <2>1. g[k] = CalledNext(s, k, g[k - 1])
    BY <1>1
  <2>2. k - 1 \in 0 .. n /\ k \in Nat
    BY <1>2
  <2>3. g[k - 1] \in Seq(Commands) /\ s[k] \in Commands
    <3>1. g[k - 1] \in ParsedOnly
      BY <1>1, <2>2
    <3> QED
      BY <3>1 DEF ParsedOnly
  <2>4. IsFiniteSet(P(k - 1))
    <3>1. IsFiniteSet(1 .. (k - 1)) /\ P(k - 1) \in SUBSET (1 .. (k - 1))
      <4>1. 1 \in Int /\ k - 1 \in Int
        BY <2>2
      <4>2. IsFiniteSet(1 .. (k - 1))
        BY ONLY <4>1, FS_Interval
      <4> QED
        BY <4>2
    <3> HIDE DEF P
    <3> QED
      BY ONLY <3>1, FS_Subset
  <2>5. CASE parsed[s[k]] > 0
    <3>1. P(k) = P(k - 1) \cup {k} /\ k \notin P(k - 1)
      BY <2>2, <2>5
    <3>2. Len(g[k]) = Len(g[k - 1]) + 1
      <4>1. g[k] = Append(g[k - 1], s[k])
        BY <2>1, <2>5 DEF CalledNext
      <4> QED
        BY ONLY <2>3, <4>1, AppendProperties
    <3> HIDE DEF P
    <3>3. Cardinality(P(k)) = Cardinality(P(k - 1)) + 1
      BY ONLY <2>4, <3>1, FS_AddElement
    <3> QED
      BY <1>4, <3>2, <3>3
  <2>6. CASE ~ (parsed[s[k]] > 0)
    <3>1. P(k) = P(k - 1)
      BY <2>2, <2>6
    <3>2. g[k] = g[k - 1]
      BY <2>1, <2>6 DEF CalledNext
    <3> HIDE DEF P
    <3> QED
      BY <1>4, <3>1, <3>2
  <2> QED
    BY <2>5, <2>6
<1>5. \A k \in 1 .. n : k - 1 \in T => k \in T
  <2> SUFFICES ASSUME NEW k \in 1 .. n, k - 1 \in T PROVE k \in T
    OBVIOUS
  <2>1. k \in Nat
    BY <1>2
  <2> QED
    BY <1>4, <2>1
<1> HIDE DEF T
<1>6. \A k \in 0 .. n : k \in T
  BY ONLY <1>2, <1>3, <1>5, IntervalInd
<1>7. n \in T
  BY <1>2, <1>6
<1> QED
  BY <1>1, <1>7 DEF T

-----------------------------------------------------------------------------
(* At most one subcommand is both selected and parsed.                     *)

\* Without a mark a subcommand is parsed only once it is selected; the first
\* that is selected is the only one that may be parsed; without options written
\* through its name it is the only one selected, and it is parsed.
SelectInv ==
    /\ selected = <<>> /\ ~ positionalOnly => at = "root" /\ \A c \in Commands : parsed[c] = 0
    /\ selected # <<>> => \A c \in Commands : parsed[c] > 0 => c = selected[1]
    /\ Undotted => Len(selected) <= 1 /\ (selected # <<>> => parsed[selected[1]] > 0)

LEMMA SelectInit == Init => SelectInv
<1> SUFFICES ASSUME Init PROVE SelectInv
  OBVIOUS
<1>1. selected = <<>> /\ at = "root" /\ parsed = [a \in Apps |-> 0]
  BY DEF Init
<1> QED
  BY <1>1 DEF SelectInv, Apps

LEMMA MoreIs ==
    ASSUME selected \in Seq(Commands)
    PROVE  MoreSubcommands <=> selected = <<>>
  BY DEF MoreSubcommands, RequireSubcommand

LEMMA HeadUndotted ==
    ASSUME argv \in Seq(Tokens), ArgsInv, args # <<>>, Undotted, Head(args).form # "word"
    PROVE  Head(args).sub = ""
<1>1. PICK p \in 1 .. (Len(argv) + 1) : ArgsAt(p)
  BY DEF ArgsInv
<1>2. (p \in 1 .. Len(argv) /\ Head(args) = argv[p]) \/ Made(Head(args))
  BY <1>1, NextArgs
<1>3. 1 .. Len(argv) = DOMAIN argv
  OBVIOUS
<1> QED
  BY <1>2, <1>3 DEF Undotted, Made

LEMMA SelectNext == TypeInv /\ SelectInv /\ [Next]_vars => SelectInv'
<1> SUFFICES ASSUME TypeInv, SelectInv, [Next]_vars PROVE SelectInv'
  OBVIOUS
<1>1. argv \in Seq(Tokens) /\ ArgsInv /\ ParserTypes
  BY DEF TypeInv
<1>2. selected \in Seq(Commands) /\ parsed \in [Apps -> Nat] /\ at \in Apps
  BY <1>1 DEF ParserTypes
<1>3. "root" \in Apps /\ Commands \subseteq Apps /\ "root" \notin Commands
  BY CommandsAre DEF Apps
<1>4. ASSUME argv' = argv, selected' = selected, at' = at \/ at' = "root",
             positionalOnly' = positionalOnly \/ positionalOnly' = TRUE,
             \A c \in Commands : parsed'[c] = parsed[c]
      PROVE  SelectInv'
  <2>1. selected # <<>> => selected[1] \in Commands
    BY <1>2
  <2>2. Undotted' <=> Undotted
    BY <1>4 DEF Undotted
  <2> QED
    BY <1>4, <2>1, <2>2 DEF SelectInv
<1>5. CASE Convert
  <2>1. parsed' = parsed \/ parsed' = [parsed EXCEPT !["root"] = 1]
    BY <1>5 DEF Convert
  <2>2. \A c \in Commands : parsed'[c] = parsed[c]
    BY <1>2, <1>3, <2>1
  <2>3. UNCHANGED <<argv, at, positionalOnly, selected>>
    BY <1>5 DEF Convert
  <2> QED
    BY <1>4, <2>2, <2>3
<1>6. CASE PositionalMark
  <2>1. /\ UNCHANGED <<argv, parsed, selected>> /\ (at' = at \/ at' = "root")
        /\ (positionalOnly' = positionalOnly \/ positionalOnly' = TRUE)
    BY <1>6 DEF PositionalMark, BackToRoot
  <2> QED
    BY <1>4, <2>1
<1>7. CASE Terminator
  <2>1. UNCHANGED <<argv, parsed, selected, positionalOnly>> /\ at' = "root"
    BY <1>7 DEF Terminator, BackToRoot
  <2> QED
    BY <1>4, <2>1
<1>8. CASE _parse_subcommand
  <2> DEFINE t == Head(args)
             c == IF DottedSubcommand(t) THEN t.sub ELSE t.name
  <2>1. /\ _valid_subcommand(t) \/ DottedSubcommand(t)
        /\ ~ (at = "root" /\ positionalOnly)
    BY <1>8, Recognized, Zenon DEF _parse_subcommand, Parsing
  <2>2. UNCHANGED <<argv, positionalOnly>>
    BY <1>8 DEF _parse_subcommand
  <2>3. CASE at # "root"
    <3>1. selected' = selected /\ parsed' = parsed /\ at' = "root"
      BY <1>8, <2>3 DEF _parse_subcommand, BackToRoot
    <3> QED
      BY <1>4, <2>2, <3>1
  <2>4. CASE at = "root"
    <3>1. /\ selected' = Append(selected, c) /\ at' = c
          /\ parsed' = [parsed EXCEPT ![c] = @ + 1]
      BY <1>8, <2>4, Zenon DEF _parse_subcommand, Enter
    <3>2. c \in Commands /\ MoreSubcommands
      BY <2>1 DEF _valid_subcommand, DottedSubcommand, _find_subcommand, Word
    <3>3. selected = <<>> /\ ~ positionalOnly
      BY <1>2, <2>1, <2>4, <3>2, MoreIs
    <3>4. \A d \in Commands : parsed[d] = 0
      BY <3>3 DEF SelectInv
    <3> HIDE DEF c
    <3>5. selected' = <<c>>
      BY <3>1, <3>3
    <3>6. parsed'[c] > 0 /\ \A d \in Commands : d # c => parsed'[d] = 0
      BY <1>2, <1>3, <3>1, <3>2, <3>4
    <3> QED
      BY <3>5, <3>6 DEF SelectInv
  <2> QED
    BY <2>3, <2>4
<1>9. CASE _parse_positional
  <2> DEFINE t == Head(args)
             known == _find_subcommand(t, FALSE) /\ MoreSubcommands
  <2>1. UNCHANGED <<argv, positionalOnly, selected>>
    BY <1>9 DEF _parse_positional
  <2>2. \/ known /\ at' = t.name /\ parsed' = [parsed EXCEPT ![t.name] = @ + 1] /\ at = "root"
        \/ at' = "root" /\ parsed' = parsed
        \/ at' = at /\ parsed' = parsed
    BY <1>9, Zenon DEF _parse_positional, Enter, BackToRoot, _move_to_missing
  <2>3. CASE known /\ at' = t.name /\ parsed' = [parsed EXCEPT ![t.name] = @ + 1] /\ at = "root"
    <3>1. \/ positionalOnly
          \/ ~ _valid_subcommand(t)
      BY <1>9, Recognized, Zenon DEF _parse_positional, Parsing
    <3>2. selected = <<>> /\ t.name \in Commands
      BY <1>2, <2>3, MoreIs DEF _find_subcommand
    <3>3. positionalOnly
      <4> SUFFICES ASSUME ~ positionalOnly PROVE FALSE
        OBVIOUS
      <4>1. parsed[t.name] = 0
        BY <3>2 DEF SelectInv
      <4>2. _valid_subcommand(t)
        BY <2>3, <4>1 DEF _valid_subcommand, _find_subcommand
      <4> QED
        BY <3>1, <4>2
    <3>4. selected' = <<>> /\ positionalOnly' = positionalOnly
      BY <2>1, <3>2
    <3>5. Len(<<>>) = 0
      OBVIOUS
    <3> QED
      BY <3>3, <3>4, <3>5 DEF SelectInv
  <2> QED
    BY <1>4, <2>1, <2>2, <2>3
<1>10. CASE ParseOwnArg
  <2>1. UNCHANGED <<argv, at, positionalOnly, parsed, selected>>
    BY <1>10 DEF ParseOwnArg
  <2> QED
    BY <1>4, <2>1
<1>11. CASE ParseDottedArg
  <2> DEFINE t == Head(args)
             c == t.sub
  <2>1. args # <<>> /\ t.form \in {"long", "short", "windows"} /\ ~ (at = "root" /\ positionalOnly)
    BY <1>11, Recognized, Zenon DEF ParseDottedArg, Parsing
  <2>2. PICK o \in DottedNames(t) : TRUE
    BY <1>11 DEF ParseDottedArg
  <2>3. /\ UNCHANGED <<argv, at, positionalOnly>>
        /\ selected' = Append(selected, c) /\ parsed' = [parsed EXCEPT !["root"] = @ + 1]
    BY <1>11, Zenon DEF ParseDottedArg
  <2>4. at = "root" /\ t.form = "long" /\ c \in Commands
    BY <2>2 DEF DottedNames
  <2>5. \A d \in Commands : parsed'[d] = parsed[d]
    BY <1>2, <1>3, <2>3
  <2>6. ~ Undotted
    <3>1. c # ""
      BY <2>4, CommandsAre
    <3> QED
      BY <1>1, <2>1, <2>4, <3>1, HeadUndotted
  <2>7. ~ Undotted'
    BY <2>3, <2>6 DEF Undotted
  <2> HIDE DEF c
  <2>8. selected' # <<>> /\ (selected # <<>> => selected'[1] = selected[1])
    BY <1>2, <2>3, <2>4
  <2>9. CASE selected = <<>>
    <3>1. \A d \in Commands : parsed[d] = 0
      BY <2>1, <2>4, <2>9 DEF SelectInv
    <3> QED
      BY <2>5, <2>7, <2>8, <3>1 DEF SelectInv
  <2>10. CASE selected # <<>>
    BY <2>5, <2>7, <2>8, <2>10 DEF SelectInv
  <2> QED
    BY <2>9, <2>10
<1>12. ASSUME argv' = argv, UNCHANGED parseVars PROVE SelectInv'
  BY <1>4, <1>12 DEF parseVars
<1>13. CASE ParseUnknownArg
  <2>1. UNCHANGED <<argv, at, positionalOnly, parsed, selected>>
    BY <1>13 DEF ParseUnknownArg
  <2> QED
    BY <1>4, <2>1
<1>14. CASE \/ ParseEnds \/ _process_callbacks \/ _process_help_flags \/ _process_requirements
            \/ _process_extras \/ run_callback
  BY <1>12, <1>14 DEF ParseEnds, _process_callbacks, _process_help_flags,
     _process_requirements, _process_extras, run_callback
<1>15. CASE UNCHANGED vars
  BY <1>12, <1>15 DEF vars
<1> QED
  BY <1>5, <1>6, <1>7, <1>8, <1>9, <1>10, <1>11, <1>13, <1>14, <1>15 DEF Next, Parse, Done

-----------------------------------------------------------------------------
(* Behind the first, a subcommand is selected once for each option written *)
(* through its name.                                                       *)

\* The places behind the first where c is selected.
SelectedAgain(c) == {i \in 2 .. Len(selected) : selected[i] = c}

\* The options written through the name of c before position p.
DottedBefore(c, p) == {i \in 1 .. (p - 1) : argv[i].form = "long" /\ argv[i].sub = c}

Counted(p) ==
    \A c \in Commands : Cardinality(SelectedAgain(c)) <= Cardinality(DottedBefore(c, p))

\* Each of these places stands for one of these options that was parsed.
DotInv ==
    outcome \in {"none", "returned"} =>
        \E p \in 1 .. (Len(argv) + 1) : ArgsAt(p) /\ Counted(p)

LEMMA DotFinite ==
    ASSUME argv \in Seq(Tokens), selected \in Seq(Commands), NEW c,
           NEW p \in 1 .. (Len(argv) + 1)
    PROVE  /\ IsFiniteSet(SelectedAgain(c)) /\ Cardinality(SelectedAgain(c)) \in Nat
           /\ IsFiniteSet(DottedBefore(c, p)) /\ Cardinality(DottedBefore(c, p)) \in Nat
<1>1. Len(selected) \in Int /\ p - 1 \in Int
  OBVIOUS
<1>2. IsFiniteSet(2 .. Len(selected)) /\ IsFiniteSet(1 .. (p - 1))
  BY <1>1, FS_Interval
<1>3. SelectedAgain(c) \in SUBSET (2 .. Len(selected)) /\ DottedBefore(c, p) \in SUBSET (1 .. (p - 1))
  BY DEF SelectedAgain, DottedBefore
<1>4. IsFiniteSet(SelectedAgain(c)) /\ IsFiniteSet(DottedBefore(c, p))
  BY ONLY <1>2, <1>3, FS_Subset
<1> QED
  BY <1>4, FS_CardinalityType

\* The options further on only add to those behind.
LEMMA DotFurther ==
    ASSUME argv \in Seq(Tokens), NEW c, NEW p \in 1 .. (Len(argv) + 1),
           NEW r \in 1 .. (Len(argv) + 1), p <= r
    PROVE  Cardinality(DottedBefore(c, p)) <= Cardinality(DottedBefore(c, r))
<1>1. DottedBefore(c, p) \in SUBSET DottedBefore(c, r)
  BY DEF DottedBefore
<1>2. IsFiniteSet(DottedBefore(c, r))
  <2>1. r - 1 \in Int /\ IsFiniteSet(1 .. (r - 1))
    BY FS_Interval
  <2>2. DottedBefore(c, r) \in SUBSET (1 .. (r - 1))
    BY DEF DottedBefore
  <2> QED
    BY ONLY <2>1, <2>2, FS_Subset
<1> QED
  BY ONLY <1>1, <1>2, FS_Subset

\* A step that selects nothing and moves on.
LEMMA DotMoves ==
    ASSUME argv \in Seq(Tokens), selected \in Seq(Commands), argv' = argv,
           selected' = selected, NEW p \in 1 .. (Len(argv) + 1),
           NEW r \in 1 .. (Len(argv) + 1), p <= r, Counted(p), ArgsAt(r)'
    PROVE  DotInv'
<1>1. ASSUME NEW c \in Commands
      PROVE  Cardinality(SelectedAgain(c)) <= Cardinality(DottedBefore(c, r))
  <2>1. Cardinality(SelectedAgain(c)) <= Cardinality(DottedBefore(c, p))
    BY DEF Counted
  <2>2. Cardinality(DottedBefore(c, p)) <= Cardinality(DottedBefore(c, r))
    BY DotFurther
  <2>3. /\ Cardinality(SelectedAgain(c)) \in Nat
        /\ Cardinality(DottedBefore(c, p)) \in Nat /\ Cardinality(DottedBefore(c, r)) \in Nat
    BY DotFinite
  <2> QED
    BY ONLY <2>1, <2>2, <2>3
<1>2. \A c : SelectedAgain(c)' = SelectedAgain(c) /\ DottedBefore(c, r)' = DottedBefore(c, r)
  BY DEF SelectedAgain, DottedBefore
<1>3. Counted(r)'
  BY <1>1, <1>2, Zenon DEF Counted
<1> QED
  BY <1>3, Zenon DEF DotInv

\* A step that selects the first subcommand.
LEMMA DotFirst ==
    ASSUME argv \in Seq(Tokens), argv' = argv, Len(selected') <= 1,
           selected' \in Seq(Commands), ArgsInv'
    PROVE  DotInv'
<1>1. PICK p \in 1 .. (Len(argv') + 1) : ArgsAt(p)'
  BY Zenon DEF ArgsInv
<1>2. ASSUME NEW c PROVE Cardinality(SelectedAgain(c)') <= Cardinality(DottedBefore(c, p)')
  <2>1. SelectedAgain(c)' = {}
    BY DEF SelectedAgain
  <2>2. Cardinality(DottedBefore(c, p)') \in Nat
    <3>1. DottedBefore(c, p)' = DottedBefore(c, p)
      BY DEF DottedBefore
    <3>2. IsFiniteSet(DottedBefore(c, p))
      <4>1. 1 \in Int /\ p - 1 \in Int
        OBVIOUS
      <4>2. IsFiniteSet(1 .. (p - 1))
        BY ONLY <4>1, FS_Interval
      <4>3. DottedBefore(c, p) \in SUBSET (1 .. (p - 1))
        BY DEF DottedBefore
      <4> QED
        BY ONLY <4>2, <4>3, FS_Subset
    <3> QED
      BY <3>1, <3>2, FS_CardinalityType
  <2> QED
    BY <2>1, <2>2, FS_EmptySet
<1>3. Counted(p)'
  BY <1>2, Zenon DEF Counted
<1> QED
  BY <1>1, <1>3, Zenon DEF DotInv

\* A step that selects c for the option at position p, and moves on.
LEMMA DotAgain ==
    ASSUME argv \in Seq(Tokens), selected \in Seq(Commands), argv' = argv,
           NEW c \in Commands, selected' = Append(selected, c), selected # <<>>,
           NEW p \in 1 .. Len(argv), argv[p].form = "long", argv[p].sub = c,
           NEW r \in 1 .. (Len(argv) + 1), p + 1 <= r, Counted(p), ArgsAt(r)'
    PROVE  DotInv'
<1>1. p \in 1 .. (Len(argv) + 1) /\ p + 1 \in 1 .. (Len(argv) + 1) /\ p <= r
      /\ (p + 1) - 1 = p /\ p \in Nat
  OBVIOUS
<1> DEFINE m == Len(selected) + 1
<1>2. /\ m \in 2 .. m /\ Len(selected') = m /\ selected'[m] = c
      /\ m \notin 2 .. Len(selected) /\ 2 .. m = (2 .. Len(selected)) \cup {m}
      /\ \A i \in 2 .. Len(selected) : selected'[i] = selected[i]
  <2>1. /\ Len(selected') = m /\ selected'[m] = c
        /\ \A i \in 1 .. Len(selected) : selected'[i] = selected[i]
    BY AppendProperties
  <2>2. Len(selected) \in Nat /\ Len(selected) # 0
    OBVIOUS
  <2> QED
    BY <2>1, <2>2
<1> HIDE DEF m
<1>3. ASSUME NEW d \in Commands, d # c
      PROVE  Cardinality(SelectedAgain(d)') <= Cardinality(DottedBefore(d, r)')
  <2>1. SelectedAgain(d)' = SelectedAgain(d) /\ DottedBefore(d, r)' = DottedBefore(d, r)
    BY <1>2, <1>3 DEF SelectedAgain, DottedBefore
  <2>2. Cardinality(SelectedAgain(d)) <= Cardinality(DottedBefore(d, p))
    BY DEF Counted
  <2>3. Cardinality(DottedBefore(d, p)) <= Cardinality(DottedBefore(d, r))
    BY <1>1, DotFurther
  <2>4. /\ Cardinality(SelectedAgain(d)) \in Nat
        /\ Cardinality(DottedBefore(d, p)) \in Nat /\ Cardinality(DottedBefore(d, r)) \in Nat
    BY <1>1, DotFinite
  <2>5. Cardinality(SelectedAgain(d)) <= Cardinality(DottedBefore(d, r))
    BY ONLY <2>2, <2>3, <2>4
  <2> QED
    BY <2>1, <2>5
<1>4. Cardinality(SelectedAgain(c)') <= Cardinality(DottedBefore(c, r)')
  <2>1. SelectedAgain(c)' = SelectedAgain(c) \cup {m} /\ m \notin SelectedAgain(c)
    BY <1>2 DEF SelectedAgain
  <2>2. DottedBefore(c, p + 1) = DottedBefore(c, p) \cup {p} /\ p \notin DottedBefore(c, p)
    <3>1. 1 .. ((p + 1) - 1) = (1 .. (p - 1)) \cup {p} /\ p \notin 1 .. (p - 1)
      BY <1>1
    <3> QED
      BY <3>1 DEF DottedBefore
  <2>3. IsFiniteSet(SelectedAgain(c)) /\ IsFiniteSet(DottedBefore(c, p))
    BY <1>1, DotFinite
  <2>4. /\ Cardinality(SelectedAgain(c)') = Cardinality(SelectedAgain(c)) + 1
        /\ Cardinality(DottedBefore(c, p + 1)) = Cardinality(DottedBefore(c, p)) + 1
    BY ONLY <2>1, <2>2, <2>3, FS_AddElement
  <2>5. Cardinality(SelectedAgain(c)) <= Cardinality(DottedBefore(c, p))
    BY DEF Counted
  <2>6. Cardinality(DottedBefore(c, p + 1)) <= Cardinality(DottedBefore(c, r))
    BY <1>1, DotFurther
  <2>7. /\ Cardinality(SelectedAgain(c)) \in Nat
        /\ Cardinality(DottedBefore(c, p)) \in Nat /\ Cardinality(DottedBefore(c, r)) \in Nat
    BY <1>1, DotFinite
  <2>8. DottedBefore(c, r)' = DottedBefore(c, r)
    BY DEF DottedBefore
  <2>9. Cardinality(SelectedAgain(c)') <= Cardinality(DottedBefore(c, r))
    BY ONLY <2>4, <2>5, <2>6, <2>7
  <2> QED
    BY <2>8, <2>9
<1>5. Counted(r)'
  BY <1>3, <1>4, Zenon DEF Counted
<1> QED
  BY <1>5, Zenon DEF DotInv

LEMMA DotInit == Init => DotInv
<1> SUFFICES ASSUME Init PROVE DotInv
  OBVIOUS
<1>1. argv \in Seq(Tokens) /\ ArgsInv /\ selected = <<>>
  BY TypeInit DEF TypeInv, Init
<1>2. PICK p \in 1 .. (Len(argv) + 1) : ArgsAt(p)
  BY <1>1 DEF ArgsInv
<1>3. ASSUME NEW c PROVE Cardinality(SelectedAgain(c)) <= Cardinality(DottedBefore(c, p))
  <2>1. SelectedAgain(c) = {} /\ selected \in Seq(Commands)
    BY <1>1 DEF SelectedAgain
  <2>2. Cardinality(DottedBefore(c, p)) \in Nat
    BY <1>1, <2>1, DotFinite
  <2> QED
    BY <2>1, <2>2, FS_EmptySet
<1> QED
  BY <1>2, <1>3, Zenon DEF DotInv, Counted

-----------------------------------------------------------------------------
(* What each stage behind the last argument has established.               *)

Outcomes == {"none", "terminated", "ArgumentMismatch", "CallForVersion", "ConversionError",
             "CallForHelp", "RequiredError", "ExtrasError", "returned"}

\* The variables are the defaults or the values given, no option has too many.
ValuesTaken ==
    /\ \A o \in Options :
          \/ Assigned(o) = {} /\ value[o] = DefaultValue[o]
          \/ \E i \in Assigned(o) : value[o] = results[CommandOrder[i]][o][1]
    /\ \A c \in Commands : \A o \in OptionsOf(c) : ~ TooMany(results[c][o])

NoHelp ==
    /\ results["root"]["help"] = <<>>
    /\ \A i \in DOMAIN selected : results[selected[i]]["help"] = <<>>

NoneMissing ==
    /\ selected # <<>>
    /\ \A c \in Commands : parsed[c] > 0 => Missing(c) = {}

NoExtras == "root" \notin extras /\ \A c \in Commands : parsed[c] > 0 => c \notin extras

\* The commands that ran were parsed and were given the variables; there are as
\* many as were selected and parsed.
SelectedParsed == {i \in 1 .. Len(selected) : parsed[selected[i]] > 0}

RanParsed ==
    /\ \A m \in DOMAIN ran : /\ ran[m].cmd \in Commands /\ parsed[ran[m].cmd] > 0
                             /\ ran[m].given = value
    /\ Undotted => Len(ran) = 1
    /\ Len(ran) = Cardinality(SelectedParsed)

Past(S) == pc \in S \/ outcome = "returned"

StageInv ==
    /\ outcome \in Outcomes /\ (pc = "done" <=> outcome # "none")
    /\ outcome # "returned" => ran = <<>>
    /\ pc \in {"convert", "parse", "callbacks"} => value = DefaultValue
    /\ Past({"callbacks", "help", "requirements", "extras", "run"}) => args = <<>>
    /\ Past({"help", "requirements", "extras", "run"}) => ValuesTaken
    /\ Past({"requirements", "extras", "run"}) => NoHelp
    /\ Past({"extras", "run"}) => NoneMissing
    /\ Past({"run"}) => NoExtras
    /\ outcome = "returned" => RanParsed

LEMMA StageInit == Init => StageInv
  BY DEF Init, StageInv, Past, Outcomes

\* Later stages leave alone what the earlier ones have established.
LEMMA Established ==
    ASSUME UNCHANGED parseVars, value' = value
    PROVE  (ValuesTaken => ValuesTaken') /\ (NoHelp => NoHelp')
              /\ (NoneMissing => NoneMissing') /\ (NoExtras => NoExtras')
<1>1. results' = results /\ selected' = selected /\ parsed' = parsed /\ extras' = extras
  BY DEF parseVars
<1>2. \A o : Assigned(o)' = Assigned(o)
  BY <1>1 DEF Assigned
<1>3. \A c : Missing(c)' = Missing(c)
  BY <1>1 DEF Missing
<1>4. ValuesTaken => ValuesTaken'
  BY <1>1, <1>2, Zenon DEF ValuesTaken
<1> QED
  BY <1>1, <1>3, <1>4 DEF NoHelp, NoneMissing, NoExtras

LEMMA StageNext == TypeInv /\ SelectInv /\ StageInv /\ [Next]_vars => StageInv'
<1> SUFFICES ASSUME TypeInv, SelectInv, StageInv, [Next]_vars PROVE StageInv'
  OBVIOUS
<1> USE DEF Throw
\* A step of the parser goes on parsing, or ends with an exception.
<1>1. ASSUME pc \in {"convert", "parse"}, value' = value, ran' = ran,
             \/ pc' \in {"convert", "parse"} /\ outcome' = outcome
             \/ pc' = "done" /\ outcome' \in {"terminated", "ArgumentMismatch"}
      PROVE  StageInv'
  <2>1. outcome = "none" /\ ran = <<>> /\ value = DefaultValue
    BY <1>1 DEF StageInv
  <2>2. outcome' # "returned" /\ outcome' \in Outcomes /\ (pc' = "done" <=> outcome' # "none")
    BY <1>1, <2>1 DEF Outcomes
  <2>3. pc' \notin {"callbacks", "help", "requirements", "extras", "run"}
    BY <1>1
  <2> QED
    BY <1>1, <2>1, <2>2, <2>3 DEF StageInv, Past
<1>2. CASE Convert
  BY <1>1, <1>2 DEF Convert
<1>3. CASE PositionalMark
  BY <1>1, <1>3 DEF PositionalMark, Parsing
<1>4. CASE Terminator
  BY <1>1, <1>4 DEF Terminator, Parsing
<1>5. CASE _parse_subcommand
  <2>1. pc = "parse" /\ UNCHANGED <<pc, outcome, value, ran>>
    BY <1>5 DEF _parse_subcommand, Parsing
  <2> QED
    BY <1>1, <2>1
<1>6. CASE _parse_positional
  <2>1. pc = "parse" /\ UNCHANGED <<pc, outcome, value, ran>>
    BY <1>6 DEF _parse_positional, Parsing
  <2> QED
    BY <1>1, <2>1
<1>7. ASSUME NEW a, NEW o, NEW t, NEW rest, Take(a, o, t, rest)
      PROVE  \/ pc' = pc /\ outcome' = outcome
             \/ pc' = "done" /\ outcome' = "ArgumentMismatch"
  BY <1>7, Zenon DEF Take, TakeFlag, TakeValue
<1>8. CASE ParseOwnArg
  <2>1. pc = "parse" /\ UNCHANGED <<value, ran>>
    BY <1>8 DEF ParseOwnArg, Parsing
  <2>2. PICK o \in Named(at, Head(args)) : Take(at, o, Head(args), Tail(args))
    BY <1>8 DEF ParseOwnArg
  <2> QED
    BY <1>1, <1>7, <2>1, <2>2
<1>9. CASE ParseDottedArg
  <2>1. pc = "parse" /\ UNCHANGED <<value, ran>>
    BY <1>9 DEF ParseDottedArg, Parsing
  <2>2. PICK o \in DottedNames(Head(args)) :
               Take(Head(args).sub, o, DottedArg(Head(args)), Tail(args))
    BY <1>9 DEF ParseDottedArg
  <2> QED
    BY <1>1, <1>7, <2>1, <2>2
<1>10. CASE ParseUnknownArg
  <2>1. pc = "parse" /\ UNCHANGED <<pc, outcome, value, ran>>
    BY <1>10 DEF ParseUnknownArg, Parsing
  <2> QED
    BY <1>1, <2>1
<1>11. CASE ParseEnds
  <2>1. pc = "parse" /\ pc' = "callbacks" /\ args' = <<>> /\ UNCHANGED <<value, ran, outcome>>
    BY <1>11 DEF ParseEnds
  <2> QED
    BY <2>1 DEF StageInv, Past
\* An exception after the last argument.
<1>12. ASSUME pc \in {"callbacks", "help", "requirements", "extras"}, pc' = "done",
              outcome' \in Outcomes \ {"none", "returned"}, ran' = ran
       PROVE  StageInv'
  <2>1. ran = <<>>
    BY <1>12 DEF StageInv
  <2> QED
    BY <1>12, <2>1 DEF StageInv, Past
<1>13. CASE _process_callbacks
  <2> DEFINE version == results["root"]["version"]
  <2>1. pc = "callbacks" /\ args' = args /\ ran' = ran /\ UNCHANGED parseVars
    BY <1>13 DEF _process_callbacks
  <2>2. args = <<>> /\ value = DefaultValue /\ outcome = "none" /\ ran = <<>>
    BY <2>1 DEF StageInv, Past
  <2>3. \/ pc' = "done" /\ outcome' \in {"CallForVersion", "ConversionError", "ArgumentMismatch"}
        \/ /\ pc' = "help" /\ value' = Assign /\ outcome' = outcome
           /\ ~ \E c \in Commands : \E o \in OptionsOf(c) : TooMany(results[c][o])
    <3>1. \/ pc' = "done" /\ outcome' = "CallForVersion"
          \/ pc' = "done" /\ outcome' = "ConversionError"
          \/ pc' = "done" /\ outcome' = "ArgumentMismatch"
          \/ /\ pc' = "help" /\ value' = Assign /\ outcome' = outcome
             /\ ~ \E c \in Commands : \E o \in OptionsOf(c) : TooMany(results[c][o])
      BY <1>13, Zenon DEF _process_callbacks
    <3> QED
      BY <3>1, Zenon
  <2>4. CASE pc' = "done" /\ outcome' \in {"CallForVersion", "ConversionError", "ArgumentMismatch"}
    BY <1>12, <2>1, <2>4 DEF Outcomes
  <2>5. CASE /\ pc' = "help" /\ value' = Assign /\ outcome' = outcome
             /\ ~ \E c \in Commands : \E o \in OptionsOf(c) : TooMany(results[c][o])
    <3>1. results' = results
      BY <2>1 DEF parseVars
    <3>2. \A o : Assigned(o)' = Assigned(o)
      BY <3>1 DEF Assigned
    <3>3. ASSUME NEW o \in Options
          PROVE  \/ Assigned(o) = {} /\ value'[o] = DefaultValue[o]
                 \/ \E i \in Assigned(o) : value'[o] = results[CommandOrder[i]][o][1]
      <4>1. \/ Assigned(o) = {} /\ Assign[o] = value[o]
            \/ \E i \in Assigned(o) : Assign[o] = results[CommandOrder[i]][o][1]
        BY AssignIs
      <4>2. value'[o] = Assign[o] /\ value[o] = DefaultValue[o]
        BY <2>2, <2>5, Zenon
      <4> QED
        BY <4>1, <4>2, Zenon
    <3>4. ValuesTaken'
      BY <2>5, <3>1, <3>2, <3>3, Zenon DEF ValuesTaken
    <3> QED
      BY <2>1, <2>2, <2>5, <3>4 DEF StageInv, Past, Outcomes
  <2> QED
    BY <2>3, <2>4, <2>5
<1>14. CASE _process_help_flags
  <2>1. pc = "help" /\ args' = args /\ ran' = ran /\ value' = value /\ UNCHANGED parseVars
    BY <1>14 DEF _process_help_flags
  <2>2. args = <<>> /\ ValuesTaken /\ outcome = "none" /\ ran = <<>>
    BY <2>1 DEF StageInv, Past
  <2>3. \/ pc' = "done" /\ outcome' = "CallForHelp"
        \/ pc' = "requirements" /\ outcome' = outcome /\ NoHelp
    BY <1>14, Zenon DEF _process_help_flags, NoHelp
  <2>4. CASE pc' = "done" /\ outcome' = "CallForHelp"
    BY <1>12, <2>1, <2>4 DEF Outcomes
  <2>5. CASE pc' = "requirements" /\ outcome' = outcome /\ NoHelp
    BY <2>1, <2>2, <2>5, Established DEF StageInv, Past, Outcomes
  <2> QED
    BY <2>3, <2>4, <2>5
<1>15. CASE _process_requirements
  <2>1. pc = "requirements" /\ args' = args /\ ran' = ran /\ value' = value /\ UNCHANGED parseVars
    BY <1>15 DEF _process_requirements
  <2>2. args = <<>> /\ ValuesTaken /\ NoHelp /\ outcome = "none" /\ ran = <<>>
    BY <2>1 DEF StageInv, Past
  <2>3. \/ pc' = "done" /\ outcome' = "RequiredError"
        \/ /\ pc' = "extras" /\ outcome' = outcome /\ ~ (Len(selected) < RequireSubcommand)
           /\ \A c \in Commands : parsed[c] > 0 => Missing(c) = {}
    BY <1>15, Zenon DEF _process_requirements
  <2>4. CASE pc' = "done" /\ outcome' = "RequiredError"
    BY <1>12, <2>1, <2>4 DEF Outcomes
  <2>5. CASE /\ pc' = "extras" /\ outcome' = outcome /\ ~ (Len(selected) < RequireSubcommand)
             /\ \A c \in Commands : parsed[c] > 0 => Missing(c) = {}
    <3>1. selected # <<>>
      BY <2>5 DEF RequireSubcommand
    <3>2. NoneMissing
      BY <2>5, <3>1 DEF NoneMissing
    <3> QED
      BY <2>1, <2>2, <2>5, <3>2, Established DEF StageInv, Past, Outcomes
  <2> QED
    BY <2>3, <2>4, <2>5
<1>16. CASE _process_extras
  <2>1. pc = "extras" /\ args' = args /\ ran' = ran /\ value' = value /\ UNCHANGED parseVars
    BY <1>16 DEF _process_extras
  <2>2. args = <<>> /\ ValuesTaken /\ NoHelp /\ NoneMissing /\ outcome = "none" /\ ran = <<>>
    BY <2>1 DEF StageInv, Past
  <2>3. \/ pc' = "done" /\ outcome' = "ExtrasError"
        \/ pc' = "run" /\ outcome' = outcome /\ NoExtras
    BY <1>16, Zenon DEF _process_extras, NoExtras
  <2>4. CASE pc' = "done" /\ outcome' = "ExtrasError"
    BY <1>12, <2>1, <2>4 DEF Outcomes
  <2>5. CASE pc' = "run" /\ outcome' = outcome /\ NoExtras
    BY <2>1, <2>2, <2>5, Established DEF StageInv, Past, Outcomes
  <2> QED
    BY <2>3, <2>4, <2>5
<1>17. CASE run_callback
  <2> DEFINE called == Called(selected)
  <2>1. /\ pc = "run" /\ pc' = "done" /\ outcome' = "returned"
        /\ argv' = argv /\ args' = args /\ value' = value /\ UNCHANGED parseVars
        /\ ran' = [i \in DOMAIN called |-> [cmd |-> called[i], given |-> value]]
    BY <1>17, Zenon DEF run_callback
  <2>2. args = <<>> /\ ValuesTaken /\ NoHelp /\ NoneMissing /\ NoExtras
    BY <2>1 DEF StageInv, Past
  <2>3. selected \in Seq(Commands) /\ parsed' = parsed
    BY <2>1 DEF TypeInv, ParserTypes, parseVars
  <2>4. called \in ParsedOnly
    BY <2>3, CalledIs
  <2>5. Undotted => called = <<selected[1]>>
    <3>1. Undotted => Len(selected) = 1 /\ parsed[selected[1]] > 0
      <4>1. selected # <<>> /\ (Undotted => Len(selected) <= 1 /\ parsed[selected[1]] > 0)
        BY <2>2, Zenon DEF SelectInv, NoneMissing
      <4>2. Len(selected) \in Nat /\ Len(selected) # 0
        BY <2>3, <4>1
      <4> QED
        BY <4>1, <4>2
    <3> QED
      BY <2>3, <3>1, CalledIs
  <2> HIDE DEF called
  <2>6. called \in Seq(Commands) /\ \A j \in 1 .. Len(called) : parsed[called[j]] > 0
    BY <2>4 DEF ParsedOnly
  <2>7. ASSUME NEW m \in DOMAIN ran'
        PROVE  ran'[m].cmd \in Commands /\ parsed'[ran'[m].cmd] > 0 /\ ran'[m].given = value'
    <3>1. m \in 1 .. Len(called) /\ called[m] \in Commands
      BY <2>1, <2>6
    <3>2. ran'[m].cmd = called[m] /\ ran'[m].given = value
      BY <2>1, <2>6, <3>1
    <3> QED
      BY <2>1, <2>3, <2>6, <3>1, <3>2
  <2>8. Undotted => Len(ran') = 1
    <3> SUFFICES ASSUME Undotted PROVE Len(ran') = 1
      OBVIOUS
    <3>1. DOMAIN called = 1 .. 1
      BY <2>5
    <3>2. ran' = [i \in 1 .. 1 |-> [cmd |-> called[i], given |-> value]]
      BY <2>1, <3>1
    <3> DEFINE e == [i \in 1 .. 1 |-> [cmd |-> called[i], given |-> value]]
               S == {[cmd |-> called[1], given |-> value]}
    <3>3. 1 \in Nat /\ e \in [1 .. 1 -> S]
      OBVIOUS
    <3> HIDE DEF e, S
    <3>4. Len(e) = 1
      BY ONLY <3>3
    <3> QED
      BY <3>2, <3>4 DEF e
  <2>9. Len(ran') = Cardinality(SelectedParsed)
    <3>1. Len(called) = Cardinality(SelectedParsed)
      BY <2>3, CalledCount DEF called, SelectedParsed
    <3> DEFINE k == Len(called)
               e == [i \in 1 .. k |-> [cmd |-> called[i], given |-> value]]
               S == {[cmd |-> called[i], given |-> value] : i \in 1 .. k}
    <3>2. k \in Nat /\ e \in [1 .. k -> S] /\ DOMAIN called = 1 .. k
      BY <2>6
    <3>3. ran' = e
      BY <2>1, <3>2, Zenon
    <3> HIDE DEF e, S, k
    <3>4. Len(e) = k
      BY ONLY <3>2
    <3> QED
      BY <3>1, <3>3, <3>4 DEF k
  <2>10. RanParsed'
    <3>1. Undotted' <=> Undotted
      BY <2>1 DEF Undotted
    <3>2. SelectedParsed' = SelectedParsed
      BY <2>1 DEF SelectedParsed, parseVars
    <3> QED
      BY <2>7, <2>8, <2>9, <3>1, <3>2, Zenon DEF RanParsed
  <2> QED
    BY <2>1, <2>2, <2>10, Established DEF StageInv, Past, Outcomes
<1>18. CASE UNCHANGED vars
  <2>1. UNCHANGED <<argv, args, pc, value, ran, outcome>> /\ UNCHANGED parseVars
    BY <1>18 DEF vars
  <2>2. RanParsed => RanParsed'
    <3>1. (Undotted' <=> Undotted) /\ parsed' = parsed
      BY <2>1 DEF Undotted, parseVars
    <3>2. SelectedParsed' = SelectedParsed
      BY <2>1 DEF SelectedParsed, parseVars
    <3> QED
      BY <2>1, <3>1, <3>2, Zenon DEF RanParsed
  <2>3. \A S : Past(S)' <=> Past(S)
    BY <2>1 DEF Past
  <2> QED
    BY <2>1, <2>2, <2>3, Established, Zenon DEF StageInv
<1> QED
  BY <1>2, <1>3, <1>4, <1>5, <1>6, <1>8, <1>9, <1>10, <1>11, <1>13, <1>14, <1>15,
     <1>16, <1>17, <1>18 DEF Next, Parse, Done

\* What a step takes keeps the count.
LEMMA DotTaken ==
    ASSUME argv \in Seq(Tokens), argv' = argv, NEW a, NEW o, NEW t,
           NEW q \in 1 .. (Len(argv) + 1),
           TookFlag(a, o, t, q) \/ TookOwn(a, o, t, q) \/ TookNext(a, o, t, q)
              \/ TookNone(a, o, t, q)
    PROVE  \/ outcome' = "ArgumentMismatch"
           \/ \E r \in 1 .. (Len(argv) + 1) : q <= r /\ ArgsAt(r)'
<1>1. \A p : Rest(p)' = Rest(p)
  BY DEF Rest
<1>2. CASE args' = Rest(q) \/ \E h \in Argument : Made(h) /\ args' = <<h>> \o Rest(q)
  <2>1. ArgsAt(q)'
    BY <1>1, <1>2, Zenon DEF ArgsAt
  <2>2. q <= q
    OBVIOUS
  <2> QED
    BY <2>1, <2>2
<1>3. CASE q + 1 \in 1 .. (Len(argv) + 1) /\ args' = Rest(q + 1)
  <2>1. ArgsAt(q + 1)'
    BY <1>1, <1>3, Zenon DEF ArgsAt
  <2>2. q <= q + 1
    OBVIOUS
  <2> QED
    BY <1>3, <2>1, <2>2, Zenon
<1> QED
  BY <1>2, <1>3, Zenon DEF TookFlag, TookOwn, TookNext, TookNone

LEMMA DotNext == TypeInv /\ SelectInv /\ StageInv /\ DotInv /\ [Next]_vars => DotInv'
<1> SUFFICES ASSUME TypeInv, SelectInv, StageInv, DotInv, [Next]_vars PROVE DotInv'
  OBVIOUS
<1>1. argv \in Seq(Tokens) /\ selected \in Seq(Commands) /\ ArgsInv /\ ParserTypes
  BY DEF TypeInv, ParserTypes
<1>2. TypeInv'
  BY TypeNext
\* Nothing is selected and nothing taken; the outcome may be known now.
<1>3. ASSUME argv' = argv, args' = args, selected' = selected,
             outcome' \in {"none", "returned"} => outcome \in {"none", "returned"}
      PROVE  DotInv'
  <2> SUFFICES ASSUME outcome' \in {"none", "returned"} PROVE DotInv'
    BY DEF DotInv
  <2>1. PICK p \in 1 .. (Len(argv) + 1) : ArgsAt(p) /\ Counted(p)
    BY <1>3 DEF DotInv
  <2>2. ArgsAt(p)'
    BY <1>3, <2>1, Zenon DEF ArgsAt, Rest
  <2>3. p <= p
    OBVIOUS
  <2> QED
    BY <1>1, <1>3, <2>1, <2>2, <2>3, DotMoves
\* The parser looks at the next argument.
<1>4. ASSUME pc = "parse", args # <<>>
      PROVE  \E p \in 1 .. (Len(argv) + 1) : \E q \in 1 .. (Len(argv) + 1) :
                /\ Counted(p) /\ p <= q /\ Tail(args) = Rest(q)
                /\ Head(args).form = "long" /\ Head(args).sub # "" =>
                      q = p + 1 /\ p \in 1 .. Len(argv) /\ Head(args) = argv[p]
  <2>1. outcome = "none"
    BY <1>4 DEF StageInv
  <2>2. PICK p \in 1 .. (Len(argv) + 1) : ArgsAt(p) /\ Counted(p)
    BY <2>1 DEF DotInv
  <2>3. PICK q \in 1 .. (Len(argv) + 1) :
                 /\ Tail(args) = Rest(q)
                 /\ \/ q = p + 1 /\ p \in 1 .. Len(argv) /\ Head(args) = argv[p]
                    \/ q = p /\ Made(Head(args))
    BY <1>1, <1>4, <2>2, NextArgs, Zenon
  <2>4. p <= q
    BY <2>3
  <2>5. Head(args).sub # "" => ~ Made(Head(args))
    BY DEF Made
  <2> QED
    BY <2>2, <2>3, <2>4, <2>5, Zenon
\* The next argument is passed over.
<1>5. ASSUME argv' = argv, args' = Tail(args), selected' = selected, pc = "parse", args # <<>>
      PROVE  DotInv'
  <2>1. PICK p \in 1 .. (Len(argv) + 1) : \E q \in 1 .. (Len(argv) + 1) :
                Counted(p) /\ p <= q /\ Tail(args) = Rest(q)
    BY <1>4, <1>5, Zenon
  <2>2. PICK q \in 1 .. (Len(argv) + 1) : Counted(p) /\ p <= q /\ Tail(args) = Rest(q)
    BY <2>1
  <2>3. ArgsAt(q)'
    <3>1. Rest(q)' = Rest(q)
      BY <1>5 DEF Rest
    <3> QED
      BY <1>5, <2>2, <3>1, Zenon DEF ArgsAt
  <2> QED
    BY <1>1, <1>5, <2>2, <2>3, DotMoves
<1>6. CASE Convert
  <2>1. UNCHANGED <<argv, args, selected>> /\ pc = "convert"
    BY <1>6 DEF Convert
  <2>2. outcome = "none"
    BY <2>1 DEF StageInv
  <2> QED
    BY <1>3, <2>1, <2>2
<1>7. CASE PositionalMark
  BY <1>5, <1>7 DEF PositionalMark, Parsing
<1>8. CASE Terminator
  BY <1>5, <1>8 DEF Terminator, Parsing
<1>9. CASE _parse_subcommand
  <2> DEFINE t == Head(args)
             c == IF DottedSubcommand(t) THEN t.sub ELSE t.name
  <2>1. _valid_subcommand(t) \/ DottedSubcommand(t)
    BY <1>9, Recognized, Zenon DEF _parse_subcommand, Parsing
  <2>2. UNCHANGED <<argv, outcome>>
    BY <1>9 DEF _parse_subcommand
  <2>3. CASE at # "root"
    <3>1. selected' = selected /\ args' = args
      BY <1>9, <2>3 DEF _parse_subcommand
    <3> QED
      BY <1>3, <2>2, <3>1
  <2>4. CASE at = "root"
    <3>1. selected' = Append(selected, c)
      BY <1>9, <2>4, Zenon DEF _parse_subcommand
    <3>2. MoreSubcommands
      BY <2>1 DEF _valid_subcommand, DottedSubcommand
    <3>3. selected = <<>>
      BY <1>1, <3>2, MoreIs
    <3> HIDE DEF c
    <3>4. selected' = <<c>>
      BY <3>1, <3>3
    <3>5. Len(<<c>>) = 1
      OBVIOUS
    <3>6. selected' \in Seq(Commands) /\ ArgsInv'
      BY <1>2 DEF TypeInv, ParserTypes
    <3> QED
      BY <1>1, <2>2, <3>4, <3>5, <3>6, DotFirst
  <2> QED
    BY <2>3, <2>4
<1>10. CASE _parse_positional
  <2>1. UNCHANGED <<argv, selected, outcome>> /\ pc = "parse" /\ args # <<>>
    BY <1>10 DEF _parse_positional, Parsing
  <2>2. args' = Tail(args) \/ args' = args
    BY <1>10, Zenon DEF _parse_positional
  <2> QED
    BY <1>3, <1>5, <2>1, <2>2
<1>11. CASE ParseOwnArg
  <2> DEFINE t == Head(args)
  <2>1. pc = "parse" /\ args # <<>> /\ t.sub = "" /\ UNCHANGED <<argv, selected>>
    BY <1>11 DEF ParseOwnArg, Parsing
  <2>2. PICK o \in Named(at, t) : Take(at, o, t, Tail(args))
    BY <1>11 DEF ParseOwnArg
  <2>3. PICK p \in 1 .. (Len(argv) + 1) : \E q \in 1 .. (Len(argv) + 1) :
                Counted(p) /\ p <= q /\ Tail(args) = Rest(q)
    BY <1>4, <2>1, Zenon
  <2>4. PICK q \in 1 .. (Len(argv) + 1) : Counted(p) /\ p <= q /\ Tail(args) = Rest(q)
    BY <2>3
  <2>5. t \in Argument /\ at \in Apps /\ Take(at, o, t, Rest(q)) /\ argv' = argv
    BY <1>1, <2>1, <2>2, <2>4, HeadIs DEF ParserTypes
  <2> HIDE DEF t
  <2>6. TookFlag(at, o, t, q) \/ TookOwn(at, o, t, q) \/ TookNext(at, o, t, q)
           \/ TookNone(at, o, t, q)
    BY ONLY <1>1, <2>1, <2>2, <2>4, <2>5, TakeIs
  <2>7. \/ outcome' = "ArgumentMismatch"
        \/ \E r \in 1 .. (Len(argv) + 1) : q <= r /\ ArgsAt(r)'
    BY ONLY <1>1, <2>4, <2>5, <2>6, DotTaken
  <2>8. CASE outcome' = "ArgumentMismatch"
    BY <2>8 DEF DotInv
  <2>9. ASSUME NEW r \in 1 .. (Len(argv) + 1), q <= r, ArgsAt(r)' PROVE DotInv'
    <3>1. p <= r
      BY <2>4, <2>9
    <3> QED
      BY <1>1, <2>1, <2>4, <2>9, <3>1, DotMoves
  <2> QED
    BY <2>7, <2>8, <2>9
<1>12. CASE ParseDottedArg
  <2> DEFINE t == Head(args)
             d == DottedArg(t)
             c == t.sub
  <2>1. pc = "parse" /\ args # <<>> /\ argv' = argv
    BY <1>12 DEF ParseDottedArg, Parsing
  <2>2. PICK o \in DottedNames(t) : Take(c, o, d, Tail(args))
    BY <1>12 DEF ParseDottedArg
  <2>3. selected' = Append(selected, c)
    BY <1>12, Zenon DEF ParseDottedArg
  <2>4. o \in Named(c, d) /\ c \in Commands /\ c \in Apps /\ t.form = "long" /\ c # ""
    BY <2>2, CommandsAre DEF DottedNames, Apps
  <2>5. PICK p \in 1 .. (Len(argv) + 1) : \E q \in 1 .. (Len(argv) + 1) :
                /\ Counted(p) /\ p <= q /\ Tail(args) = Rest(q)
                /\ q = p + 1 /\ p \in 1 .. Len(argv) /\ t = argv[p]
    BY <1>4, <2>1, <2>4, Zenon
  <2>6. PICK q \in 1 .. (Len(argv) + 1) :
                /\ Counted(p) /\ Tail(args) = Rest(q)
                /\ q = p + 1 /\ p \in 1 .. Len(argv) /\ t = argv[p]
    BY <2>5
  <2>7. t \in Argument
    BY <1>1, <2>1, HeadIs
  <2>8. d \in Argument /\ d.sub = ""
    <3>1. "" \in Part /\ "short" \in Forms
      BY DEF Part, Forms
    <3> HIDE DEF t
    <3> QED
      BY <2>7, <3>1 DEF DottedArg, Argument
  <2>9. Take(c, o, d, Rest(q))
    BY <2>2, <2>6, Zenon
  <2>10. t.form = "long" /\ t.sub = c
    BY <2>4
  <2> HIDE DEF d, c, t
  <2>11. TookFlag(c, o, d, q) \/ TookOwn(c, o, d, q) \/ TookNext(c, o, d, q)
            \/ TookNone(c, o, d, q)
    BY ONLY <1>1, <2>4, <2>6, <2>8, <2>9, TakeIs
  <2>12. \/ outcome' = "ArgumentMismatch"
         \/ \E r \in 1 .. (Len(argv) + 1) : q <= r /\ ArgsAt(r)'
    BY ONLY <1>1, <2>1, <2>6, <2>11, DotTaken
  <2>13. CASE outcome' = "ArgumentMismatch"
    BY <2>13 DEF DotInv
  <2>14. ASSUME NEW r \in 1 .. (Len(argv) + 1), q <= r, ArgsAt(r)' PROVE DotInv'
    <3>1. CASE selected = <<>>
      <4>1. selected' = <<c>> /\ Len(<<c>>) = 1
        BY <2>3, <3>1
      <4>2. selected' \in Seq(Commands) /\ ArgsInv'
        BY <1>2 DEF TypeInv, ParserTypes
      <4> QED
        BY <1>1, <2>1, <4>1, <4>2, DotFirst
    <3>2. CASE selected # <<>>
      <4>1. argv[p].form = "long" /\ argv[p].sub = c /\ p + 1 <= r
        BY <2>6, <2>10, <2>14
      <4> QED
        BY <1>1, <2>1, <2>3, <2>4, <2>6, <2>14, <3>2, <4>1, DotAgain
    <3> QED
      BY <3>1, <3>2
  <2> QED
    BY <2>12, <2>13, <2>14
<1>13. CASE ParseUnknownArg
  BY <1>5, <1>13 DEF ParseUnknownArg, Parsing
<1>14. CASE \/ ParseEnds \/ _process_callbacks \/ _process_help_flags \/ _process_requirements
            \/ _process_extras \/ run_callback
  <2>1. UNCHANGED <<argv, args, selected>>
    BY <1>14 DEF ParseEnds, _process_callbacks, _process_help_flags,
       _process_requirements, _process_extras, run_callback, parseVars
  <2>2. pc # "done"
    BY <1>14 DEF ParseEnds, _process_callbacks, _process_help_flags,
       _process_requirements, _process_extras, run_callback
  <2>3. outcome = "none"
    BY <2>2 DEF StageInv
  <2> QED
    BY <1>3, <2>1, <2>3
<1>15. CASE UNCHANGED vars
  BY <1>3, <1>15 DEF vars, parseVars
<1> QED
  BY <1>6, <1>7, <1>8, <1>9, <1>10, <1>11, <1>12, <1>13, <1>14, <1>15 DEF Next, Parse, Done

-----------------------------------------------------------------------------
(* Types, and one command at most.                                         *)

ParseInv == TypeInv /\ SelectInv /\ StageInv /\ DotInv

\* The inductive invariant of the parser and of the stages behind it: App::parse
\* and everything it calls.
THEOREM ParseInvariant == Spec => []ParseInv
<1>1. Init => ParseInv
  BY TypeInit, SelectInit, StageInit, DotInit DEF ParseInv
<1>2. ParseInv /\ [Next]_vars => ParseInv'
  BY TypeNext, SelectNext, StageNext, DotNext DEF ParseInv
<1> QED
  BY <1>1, <1>2, PTL DEF Spec

\* The types hold for every command line; in particular _parse_arg gives an
\* option nothing but an argument or the value written behind its name.
THEOREM CommandLineTypeCorrect == Spec => []TypeOK
<1>1. ParseInv => TypeOK
  <2> SUFFICES ASSUME ParseInv PROVE TypeOK
    OBVIOUS
  <2>1. ParserTypes /\ ValueTypes
    BY DEF ParseInv, TypeInv
  <2>2. \A i \in DOMAIN selected : selected[i] \in Commands
    BY <2>1 DEF ParserTypes
  <2>3. \A o \in Options :
           value[o] \in Tokens \cup {DefaultValue[o]}
                               \cup {Word(t.value) : t \in {t \in Tokens : t.value # ""}}
    BY <2>1, Zenon DEF ValueTypes, OptionValue
  <2>4. /\ pc \in {"convert", "parse", "callbacks", "help", "requirements", "extras",
                   "run", "done"}
        /\ at \in Apps /\ positionalOnly \in BOOLEAN
        /\ parsed \in [Apps -> Nat] /\ extras \subseteq Apps
    BY <2>1, Zenon DEF ParserTypes
  <2> QED
    BY <2>2, <2>3, <2>4, Zenon DEF TypeOK
<1> QED
  BY <1>1, ParseInvariant, PTL

\* No command line makes App::run_callback call the callbacks of two different
\* commands, one that ends with an exception runs none, and one that succeeds runs
\* one, once, unless an option was written through the name of its subcommand:
\* then it may run none, or the same one again, once more at most for each option
\* written through its name.
THEOREM OneCommandAlways == Spec => []OneCommand
<1>1. ParseInv => OneCommand
  <2> SUFFICES ASSUME ParseInv PROVE OneCommand
    OBVIOUS
  <2>1. SelectInv /\ StageInv
    BY DEF ParseInv
  <2>2. CASE outcome = "returned"
    <3>1. RanParsed /\ selected # <<>>
      BY <2>1, <2>2 DEF StageInv, Past, NoneMissing
    <3>2. \A m \in DOMAIN ran : ran[m].cmd = selected[1]
      BY <2>1, <3>1, Zenon DEF RanParsed, SelectInv
    <3>3. ExitCode = "HRESULT"
      BY <2>2 DEF ExitCode
    <3> DEFINE c == selected[1]
    <3>4. argv \in Seq(Tokens) /\ selected \in Seq(Commands) /\ c \in Commands
      BY <3>1 DEF ParseInv, TypeInv, ParserTypes
    <3>5. Len(ran) <= 1 + Cardinality(DottedFor(c))
      <4>1. PICK p \in 1 .. (Len(argv) + 1) : Counted(p)
        BY <2>2 DEF ParseInv, DotInv
      <4>2. Cardinality(SelectedAgain(c)) <= Cardinality(DottedBefore(c, p))
        BY <3>4, <4>1 DEF Counted
      <4>3. /\ IsFiniteSet(SelectedAgain(c)) /\ Cardinality(SelectedAgain(c)) \in Nat
            /\ Cardinality(DottedBefore(c, p)) \in Nat
        BY <3>4, DotFinite
      <4>4. SelectedParsed \in SUBSET (SelectedAgain(c) \cup {1})
        BY <2>1, <3>1, <3>4 DEF SelectedParsed, SelectedAgain, SelectInv
      <4>5. /\ IsFiniteSet(SelectedAgain(c) \cup {1})
            /\ Cardinality(SelectedAgain(c) \cup {1}) <= Cardinality(SelectedAgain(c)) + 1
            /\ Cardinality(SelectedAgain(c) \cup {1}) \in Nat
        <5>1. /\ IsFiniteSet(SelectedAgain(c) \cup {1})
              /\ Cardinality(SelectedAgain(c) \cup {1}) =
                    IF 1 \in SelectedAgain(c) THEN Cardinality(SelectedAgain(c))
                                              ELSE Cardinality(SelectedAgain(c)) + 1
          BY ONLY <4>3, FS_AddElement
        <5> QED
          BY ONLY <4>3, <5>1
      <4>6. IsFiniteSet(DottedFor(c)) /\ DottedBefore(c, p) \in SUBSET DottedFor(c)
        <5>1. DottedFor(c) \in SUBSET (1 .. Len(argv)) /\ Len(argv) \in Int
          BY <3>4 DEF DottedFor
        <5>2. DottedBefore(c, p) \in SUBSET DottedFor(c)
          BY <3>4 DEF DottedBefore, DottedFor
        <5>3. IsFiniteSet(1 .. Len(argv))
          BY <5>1, FS_Interval
        <5>4. IsFiniteSet(DottedFor(c))
          BY ONLY <5>1, <5>3, FS_Subset
        <5> QED
          BY <5>2, <5>4
      <4>7. Cardinality(DottedBefore(c, p)) <= Cardinality(DottedFor(c))
        BY ONLY <4>6, FS_Subset
      <4>8. Cardinality(DottedFor(c)) \in Nat
        BY ONLY <4>6, FS_CardinalityType
      <4>9. /\ IsFiniteSet(SelectedParsed)
            /\ Cardinality(SelectedParsed) <= Cardinality(SelectedAgain(c) \cup {1})
        BY ONLY <4>4, <4>5, FS_Subset
      <4>10. Cardinality(SelectedParsed) \in Nat
        BY ONLY <4>9, FS_CardinalityType
      <4>11. Len(ran) = Cardinality(SelectedParsed)
        BY <3>1, Zenon DEF RanParsed
      <4> QED
        BY ONLY <4>2, <4>3, <4>5, <4>7, <4>8, <4>9, <4>10, <4>11
    <3> HIDE DEF c
    <3>6. \A m \in DOMAIN ran : ran[m].cmd = c
      BY <3>2 DEF c
    <3> QED
      BY <3>1, <3>3, <3>5, <3>6, Zenon DEF OneCommand, RanParsed
  <2>3. CASE outcome # "returned"
    <3>1. ran = <<>> /\ outcome \in Outcomes
      BY <2>1, <2>3 DEF StageInv
    <3>2. ExitCode # "HRESULT"
      BY <2>3, <3>1 DEF ExitCode, Outcomes
    <3>3. DOMAIN ran = {}
      BY <3>1
    <3> QED
      BY <3>1, <3>2, <3>3 DEF OneCommand
  <2> QED
    BY <2>2, <2>3
<1> QED
  BY <1>1, ParseInvariant, PTL

-----------------------------------------------------------------------------
(* Following the command line behind the name of a subcommand.             *)

\* Position i has the value of the option before it.
ValueAt(c, k, V, i) ==
    /\ i - 1 > k /\ i - 1 \notin V
    /\ argv[i - 1].value = "" /\ argv[i - 1].sub = ""
    /\ Named(c, argv[i - 1]) \cap Options # {}

\* Subcommand c is at position k, V are the positions of values before p, and
\* there is no value at p.
Along(c, k, p, V) ==
    /\ k \in 1 .. Len(argv) /\ p \in 1 .. (Len(argv) + 1) /\ k < p
    /\ V \subseteq 1 .. (p - 1)
    /\ \A i \in 1 .. p : i \in V <=> ValueAt(c, k, V, i)

\* Where option o is written before p.
WrittenBefore(c, o, k, p, V) ==
    {i \in 1 .. (p - 1) : i \notin V /\ i > k /\ argv[i].sub = "" /\ o \in Named(c, argv[i])}

\* r is the operands at the positions W, in their order.
Enumerates(s, W, r) ==
    /\ s \in Seq(Nat) /\ Len(s) = Len(r)
    /\ \A m \in 1 .. Len(s) : s[m] \in W /\ r[m] = Operand(s[m])
    /\ \A i \in W : \E m \in 1 .. Len(s) : s[m] = i
    /\ \A m, n \in 1 .. Len(s) : m < n => s[m] < s[n]

\* The results of the options of c are their operands before p.
Given(c, k, p, V, r) ==
    \A o \in OptionsOf(c) : \E s : Enumerates(s, WrittenBefore(c, o, k, p, V), r[o])

NoHelpWritten(c, p, V) ==
    \A i \in 1 .. (p - 1) : i \notin V /\ argv[i].sub = "" => "help" \notin Named(c, argv[i])

\* At the name of the subcommand.
LEMMA AlongFirst ==
    ASSUME argv \in Seq(Tokens), NEW c, NEW k \in 1 .. Len(argv), NEW r,
           \A o \in OptionsOf(c) : r[o] = <<>>
    PROVE  Along(c, k, k + 1, {}) /\ Given(c, k, k + 1, {}, r)
<1>1. Len(argv) \in Nat /\ k + 1 \in 1 .. (Len(argv) + 1) /\ k < k + 1 /\ (k + 1) - 1 = k
  OBVIOUS
<1>2. \A i \in 1 .. (k + 1) : ~ (i - 1 > k)
  OBVIOUS
<1>3. Along(c, k, k + 1, {})
  BY <1>1, <1>2 DEF Along, ValueAt
<1>4. ASSUME NEW o \in OptionsOf(c)
      PROVE  \E s : Enumerates(s, WrittenBefore(c, o, k, k + 1, {}), r[o])
  <2>1. \A i \in 1 .. ((k + 1) - 1) : ~ (i > k)
    BY <1>1
  <2>2. WrittenBefore(c, o, k, k + 1, {}) = {}
    BY <2>1, Zenon DEF WrittenBefore
  <2>3. <<>> \in Seq(Nat) /\ Len(<<>>) = 0 /\ 1 .. 0 = {}
    OBVIOUS
  <2>4. Enumerates(<<>>, {}, <<>>)
    BY <2>3 DEF Enumerates
  <2> QED
    BY <2>2, <2>4, Zenon
<1> QED
  BY <1>3, <1>4 DEF Given

\* An argument that c does not know is passed by.
LEMMA AlongSkip ==
    ASSUME argv \in Seq(Tokens), NEW c, NEW k, NEW p, NEW V, Along(c, k, p, V),
           p \in 1 .. Len(argv), Named(c, argv[p]) = {}, NEW r, Given(c, k, p, V, r),
           NoHelpWritten(c, p, V)
    PROVE  /\ Along(c, k, p + 1, V) /\ Given(c, k, p + 1, V, r) /\ NoHelpWritten(c, p + 1, V)
<1>1. /\ Len(argv) \in Nat /\ k \in 1 .. Len(argv) /\ k < p /\ V \subseteq 1 .. (p - 1)
      /\ p \in 1 .. Len(argv)
      /\ \A i \in 1 .. p : i \in V <=> ValueAt(c, k, V, i)
  BY DEF Along
<1>2. /\ p + 1 \in 1 .. (Len(argv) + 1) /\ k < p + 1 /\ (p + 1) - 1 = p
      /\ 1 .. (p + 1) = (1 .. p) \cup {p + 1} /\ 1 .. p = (1 .. (p - 1)) \cup {p}
      /\ p + 1 \notin 1 .. (p - 1) /\ p \notin 1 .. (p - 1)
  BY <1>1
<1>3. Along(c, k, p + 1, V)
  <2>1. p + 1 \notin V /\ V \subseteq 1 .. ((p + 1) - 1)
    BY <1>1, <1>2, Zenon
  <2>2. ~ ValueAt(c, k, V, p + 1)
    <3>1. argv[(p + 1) - 1] = argv[p]
      BY <1>2, Zenon
    <3> QED
      BY <3>1 DEF ValueAt
  <2>3. \A i \in 1 .. (p + 1) : i \in V <=> ValueAt(c, k, V, i)
    BY <1>1, <1>2, <2>1, <2>2, Zenon
  <2> QED
    BY <1>1, <1>2, <2>1, <2>3, Zenon DEF Along
<1>4. ASSUME NEW o PROVE WrittenBefore(c, o, k, p + 1, V) = WrittenBefore(c, o, k, p, V)
  <2>1. \A i : i \in 1 .. ((p + 1) - 1) <=> i \in 1 .. (p - 1) \/ i = p
    BY <1>2, Zenon
  <2> QED
    BY <2>1, Zenon DEF WrittenBefore
<1>5. Given(c, k, p + 1, V, r)
  BY <1>4, Zenon DEF Given
<1>6. NoHelpWritten(c, p + 1, V)
  BY <1>2, Zenon DEF NoHelpWritten
<1> QED
  BY <1>3, <1>5, <1>6

LEMMA Positions ==
    ASSUME NEW n \in Nat, NEW k \in 1 .. n, NEW p \in 1 .. n, k < p
    PROVE  /\ p + 1 \in 1 .. (n + 1) /\ k < p + 1 /\ (p + 1) - 1 = p
           /\ 1 .. (p + 1) = (1 .. p) \cup {p + 1} /\ 1 .. p = (1 .. (p - 1)) \cup {p}
           /\ p + 1 \notin 1 .. (p - 1) /\ p \notin 1 .. (p - 1) /\ p > k /\ p + 1 \notin 1 .. p
           /\ (p + 2) - 1 = p + 1 /\ 1 .. (p + 2) = (1 .. (p + 1)) \cup {p + 2}
           /\ p + 2 \notin 1 .. (p + 1) /\ k < p + 2 /\ p + 1 # p
  OBVIOUS

\* The option at p and its value end before p2; the value is in V2 if it is an
\* argument of its own.
TakenUpTo(p, V, p2, V2) ==
    \/ argv[p].value # "" /\ p2 = p + 1 /\ V2 = V
    \/ argv[p].value = "" /\ p + 1 \in 1 .. Len(argv) /\ p2 = p + 2 /\ V2 = V \cup {p + 1}

\* Option o, and no other, is written between p and p2: at p.
WrittenMore(c, o, k, p, V, p2, V2) ==
    /\ WrittenBefore(c, o, k, p2, V2) = WrittenBefore(c, o, k, p, V) \cup {p}
    /\ \A u : u # o => WrittenBefore(c, u, k, p2, V2) = WrittenBefore(c, u, k, p, V)

\* An option of c with its own value, or with the next argument.
LEMMA AlongTake ==
    ASSUME argv \in Seq(Tokens), NEW c \in Apps, NEW k, NEW p, NEW V, Along(c, k, p, V),
           p \in 1 .. Len(argv), argv[p].sub = "", NEW o, o \in Named(c, argv[p]), o \in Options,
           NoHelpWritten(c, p, V), NEW p2, NEW V2, TakenUpTo(p, V, p2, V2)
    PROVE  /\ Along(c, k, p2, V2) /\ NoHelpWritten(c, p2, V2)
           /\ WrittenMore(c, o, k, p, V, p2, V2)
<1>1. /\ Len(argv) \in Nat /\ k \in 1 .. Len(argv) /\ k < p /\ V \subseteq 1 .. (p - 1)
      /\ p \in 1 .. Len(argv)
      /\ \A i \in 1 .. p : i \in V <=> ValueAt(c, k, V, i)
  <2>1. Len(argv) \in Nat
    BY ONLY argv \in Seq(Tokens)
  <2> QED
    BY <2>1, Zenon DEF Along
<1>2. /\ p + 1 \in 1 .. (Len(argv) + 1) /\ k < p + 1 /\ (p + 1) - 1 = p
      /\ 1 .. (p + 1) = (1 .. p) \cup {p + 1} /\ 1 .. p = (1 .. (p - 1)) \cup {p}
      /\ p + 1 \notin 1 .. (p - 1) /\ p \notin 1 .. (p - 1) /\ p > k /\ p + 1 \notin 1 .. p
      /\ (p + 2) - 1 = p + 1 /\ 1 .. (p + 2) = (1 .. (p + 1)) \cup {p + 2}
      /\ p + 2 \notin 1 .. (p + 1) /\ k < p + 2 /\ p + 1 # p
  BY ONLY <1>1, Positions
<1>3. p \notin V /\ p + 1 \notin V /\ p + 2 \notin V
  BY <1>1, <1>2
<1>4. Named(c, argv[p]) = {o} /\ o # "help"
  BY NamedIs, OptionsAre
<1>5. CASE argv[p].value # "" /\ p2 = p + 1 /\ V2 = V
  <2>1. ~ ValueAt(c, k, V, p + 1)
    <3>1. argv[(p + 1) - 1] = argv[p]
      BY <1>2, Zenon
    <3> QED
      BY <1>5, <3>1, Zenon DEF ValueAt
  <2>2. Along(c, k, p + 1, V)
    BY <1>1, <1>2, <1>3, <2>1, Zenon DEF Along
  <2>3. \A i : i \in 1 .. ((p + 1) - 1) <=> i \in 1 .. (p - 1) \/ i = p
    BY <1>2, Zenon
  <2>4. NoHelpWritten(c, p + 1, V)
    BY <1>4, <2>3, Zenon DEF NoHelpWritten
  <2>5. ASSUME NEW u PROVE WrittenBefore(c, u, k, p + 1, V) =
                              WrittenBefore(c, u, k, p, V) \cup (IF u = o THEN {p} ELSE {})
    <3>1. CASE u = o
      BY <1>2, <1>3, <1>4, <2>3, <3>1, Zenon DEF WrittenBefore
    <3>2. CASE u # o
      BY <1>2, <1>3, <1>4, <2>3, <3>2, Zenon DEF WrittenBefore
    <3> QED
      BY <3>1, <3>2
  <2> QED
    BY <1>5, <2>2, <2>4, <2>5 DEF WrittenMore
<1>6. CASE argv[p].value = "" /\ p + 1 \in 1 .. Len(argv) /\ p2 = p + 2 /\ V2 = V \cup {p + 1}
  <2>0. argv[(p + 1) - 1] = argv[p] /\ argv[(p + 2) - 1] = argv[p + 1]
    BY <1>2, Zenon
  <2>1. ValueAt(c, k, V2, p + 1) /\ ~ ValueAt(c, k, V2, p + 2)
    <3>1. p \notin V2 /\ p + 1 \in V2
      BY <1>2, <1>3, <1>6, Zenon
    <3>2. Named(c, argv[p]) \cap Options # {}
      BY <1>4
    <3> QED
      BY <1>2, <1>6, <2>0, <3>1, <3>2, Zenon DEF ValueAt
  <2>2. ASSUME NEW i \in 1 .. p PROVE i \in V2 <=> ValueAt(c, k, V2, i)
    <3>1. (i \in V2 <=> i \in V) /\ (i - 1 \in V2 <=> i - 1 \in V)
      <4>1. i # p + 1 /\ i - 1 # p + 1
        BY ONLY <1>1, i \in 1 .. p
      <4> QED
        BY <1>6, <4>1, Zenon
    <3>2. ValueAt(c, k, V2, i) <=> ValueAt(c, k, V, i)
      BY <3>1, Zenon DEF ValueAt
    <3> QED
      BY <1>1, <3>1, <3>2, Zenon
  <2>3. Along(c, k, p + 2, V2)
    <3>0. p + 1 \in 1 .. Len(argv)
      BY <1>6
    <3>1. p + 2 \in 1 .. (Len(argv) + 1)
      BY ONLY <1>1, <3>0
    <3>2. V2 \subseteq 1 .. ((p + 2) - 1) /\ p + 1 \in V2 /\ p + 2 \notin V2
      <4>1. V2 = V \cup {p + 1}
        BY <1>6
      <4> QED
        BY ONLY <1>1, <1>2, <4>1
    <3>3. \A i \in 1 .. (p + 2) : i \in V2 <=> ValueAt(c, k, V2, i)
      BY <1>2, <2>1, <2>2, <3>2, Zenon
    <3> QED
      BY <1>1, <1>2, <3>1, <3>2, <3>3, Zenon DEF Along
  <2>4. \A i : i \in 1 .. ((p + 2) - 1) <=> i \in 1 .. (p - 1) \/ i = p \/ i = p + 1
    BY <1>2, Zenon
  <2>5. \A i : i \in 1 .. (p - 1) => (i \in V2 <=> i \in V)
    BY <1>2, <1>6, Zenon
  <2>6. p \notin V2 /\ p + 1 \in V2
    BY <1>2, <1>3, <1>6, Zenon
  <2>7. NoHelpWritten(c, p + 2, V2)
    BY <1>4, <2>4, <2>5, <2>6, Zenon DEF NoHelpWritten
  <2>8. ASSUME NEW u PROVE WrittenBefore(c, u, k, p + 2, V2) =
                              WrittenBefore(c, u, k, p, V) \cup (IF u = o THEN {p} ELSE {})
    <3>1. CASE u = o
      BY <1>2, <1>3, <1>4, <2>4, <2>5, <2>6, <3>1, Zenon DEF WrittenBefore
    <3>2. CASE u # o
      BY <1>2, <1>3, <1>4, <2>4, <2>5, <2>6, <3>2, Zenon DEF WrittenBefore
    <3> QED
      BY <3>1, <3>2
  <2> QED
    BY <1>6, <2>3, <2>7, <2>8 DEF WrittenMore
<1> QED
  BY <1>5, <1>6 DEF TakenUpTo

LEMMA EnumerateAppend ==
    ASSUME NEW s, NEW W, NEW S, NEW r \in Seq(S), NEW v \in S, Enumerates(s, W, r),
           NEW p \in Nat, \A i \in W : i < p, v = Operand(p)
    PROVE  Enumerates(Append(s, p), W \cup {p}, Append(r, v))
<1> DEFINE n == Len(s)
           z == Append(s, p)
           y == Append(r, v)
<1>1. /\ s \in Seq(Nat) /\ n \in Nat /\ Len(r) = n
      /\ \A m \in 1 .. n : s[m] \in W /\ r[m] = Operand(s[m])
      /\ \A i \in W : \E m \in 1 .. n : s[m] = i
      /\ \A m, j \in 1 .. n : m < j => s[m] < s[j]
  <2>1. s \in Seq(Nat)
    BY DEF Enumerates
  <2>2. n \in Nat
    BY ONLY <2>1
  <2> QED
    BY <2>1, <2>2, Zenon DEF Enumerates
<1>2. z \in Seq(Nat) /\ Len(z) = n + 1 /\ z[n + 1] = p /\ \A m \in 1 .. n : z[m] = s[m]
  BY ONLY <1>1, p \in Nat, AppendProperties
<1>3. Len(y) = n + 1 /\ y[n + 1] = v /\ \A m \in 1 .. n : y[m] = r[m]
  BY ONLY <1>1, r \in Seq(S), v \in S, AppendProperties
<1>4. 1 .. (n + 1) = (1 .. n) \cup {n + 1} /\ n + 1 \notin 1 .. n
  BY <1>1
<1> HIDE DEF n, z, y
<1>5. \A m \in 1 .. (n + 1) : z[m] \in W \cup {p} /\ y[m] = Operand(z[m])
  BY <1>1, <1>2, <1>3, <1>4, Zenon
<1>6. \A i \in W \cup {p} : \E m \in 1 .. (n + 1) : z[m] = i
  BY <1>1, <1>2, <1>4, Zenon
<1>7. ASSUME NEW m \in 1 .. (n + 1), NEW j \in 1 .. (n + 1), m < j PROVE z[m] < z[j]
  <2>1. m \in 1 .. n
    BY <1>1, <1>7
  <2>2. CASE j = n + 1
    BY <1>1, <1>2, <2>1, <2>2
  <2>3. CASE j \in 1 .. n
    BY <1>1, <1>2, <1>7, <2>1, <2>3
  <2> QED
    BY <1>4, <2>2, <2>3
<1>8. Enumerates(z, W \cup {p}, y)
  BY <1>2, <1>3, <1>5, <1>6, <1>7 DEF Enumerates
<1> QED
  BY <1>8 DEF z, y

\* The operand of the option that is taken is added to its results.
LEMMA GivenTake ==
    ASSUME results \in ResultsType, NEW c \in Apps, NEW k, NEW p, NEW V, NEW p2, NEW V2,
           NEW o, o \in Options, p \in Nat, NEW v \in Argument, v = Operand(p),
           WrittenMore(c, o, k, p, V, p2, V2),
           Given(c, k, p, V, results[c]), NEW r, r = AddResult(c, o, v)
    PROVE  Given(c, k, p2, V2, r[c])
<1>1. o \in Options \cup Flags /\ OptionsOf(c) \subseteq Options
  BY OptionsAre
<1>2. /\ r[c][o] = Append(results[c][o], v) /\ results[c][o] \in Seq(Argument)
      /\ \A b \in Apps : \A u \in Options \cup Flags : b # c \/ u # o => r[b][u] = results[b][u]
  <2>1. c \in Apps /\ v \in Argument /\ results \in ResultsType /\ r = AddResult(c, o, v)
    OBVIOUS
  <2> QED
    BY ONLY <1>1, <2>1, AddResultIs
<1>3. ASSUME NEW u \in OptionsOf(c)
      PROVE  \E s : Enumerates(s, WrittenBefore(c, u, k, p2, V2), r[c][u])
  <2>1. PICK s : Enumerates(s, WrittenBefore(c, u, k, p, V), results[c][u])
    BY Zenon DEF Given
  <2>2. CASE u = o
    <3> DEFINE W == WrittenBefore(c, o, k, p, V)
               e == results[c][o]
    <3>1. \A i \in W : i < p
      <4>1. \A i \in 1 .. (p - 1) : i < p
        BY ONLY p \in Nat
      <4> QED
        BY <4>1, Zenon DEF WrittenBefore
    <3>2. Enumerates(s, W, e) /\ e \in Seq(Argument) /\ v \in Argument /\ p \in Nat /\ v = Operand(p)
      BY <1>2, <2>1, <2>2
    <3> HIDE DEF W, e
    <3>3. Enumerates(Append(s, p), W \cup {p}, Append(e, v))
      BY ONLY <3>1, <3>2, EnumerateAppend
    <3> QED
      BY <1>2, <2>2, <3>3, Zenon DEF W, e, WrittenMore
  <2>3. CASE u # o
    <3>1. r[c][u] = results[c][u]
      BY <1>1, <1>2, <2>3
    <3> QED
      BY <2>1, <2>3, <3>1, Zenon DEF WrittenMore
  <2> QED
    BY <2>2, <2>3
<1> QED
  BY <1>3, Zenon DEF Given

\* What the invariant says of subcommand c, selected at position k.
Following(c, k, p, V) ==
    /\ argv[k] = Word(c) /\ Along(c, k, p, V)
    /\ Given(c, k, p, V, results[c]) /\ NoHelpWritten(c, p, V)

LEMMA GivenPrime ==
    ASSUME argv' = argv, NEW c, NEW k, NEW p, NEW V, Given(c, k, p, V, results'[c])
    PROVE  Given(c, k, p, V, results[c])'
<1>1. \A o : WrittenBefore(c, o, k, p, V)' = WrittenBefore(c, o, k, p, V)
  BY DEF WrittenBefore, Named
<1>2. \A i : Operand(i)' = Operand(i)
  BY DEF Operand
<1>3. ASSUME NEW o \in OptionsOf(c)
      PROVE  \E s : Enumerates(s, WrittenBefore(c, o, k, p, V), results[c][o])'
  <2>1. PICK s : Enumerates(s, WrittenBefore(c, o, k, p, V), results'[c][o])
    BY Zenon DEF Given
  <2>2. Enumerates(s, WrittenBefore(c, o, k, p, V), results[c][o])'
    BY <1>1, <1>2, <2>1 DEF Enumerates
  <2> QED
    BY <2>2, Zenon
<1> QED
  BY <1>3, Zenon DEF Given

LEMMA FollowingPrime ==
    ASSUME argv' = argv, NEW c, NEW k, NEW p, NEW V, argv[k] = Word(c), Along(c, k, p, V),
           Given(c, k, p, V, results'[c]), NoHelpWritten(c, p, V)
    PROVE  Following(c, k, p, V)'
<1>1. Along(c, k, p, V)'
  <2>1. \A i : ValueAt(c, k, V, i)' <=> ValueAt(c, k, V, i)
    BY Zenon DEF ValueAt, Named
  <2> QED
    BY <2>1, Zenon DEF Along
<1>2. NoHelpWritten(c, p, V)'
  BY Zenon DEF NoHelpWritten, Named
<1>3. Given(c, k, p, V, results[c])'
  BY ONLY argv' = argv, Given(c, k, p, V, results'[c]), GivenPrime
<1> QED
  BY <1>1, <1>2, <1>3, Zenon DEF Following

-----------------------------------------------------------------------------
(* Where the parser is on the command line.                                *)

\* The second letter of a pair of short flags is left over.
ShortAt(p) == \E h \in Argument : Made(h) /\ h.form = "short" /\ args = <<h>> \o Rest(p)

\* App a has an argument it does not know, or was asked for help.
Refused(a) == a \in extras \/ results[a]["help"] # <<>>

\* No command will run: one of the later stages throws.
Doomed(c) ==
    \/ Refused("root") \/ Refused(c)
    \/ at = c /\ args # <<>> /\ Head(args).form = "word"

\* Before a subcommand is selected only the version flag may have been written.
BeforeSelection ==
    /\ \A c \in Commands : \A o \in Options \cup Flags : results[c][o] = <<>>
    /\ \/ Refused("root")
       \/ \E p \in 1 .. (Len(argv) + 1) :
             /\ args = Rest(p) \/ ShortAt(p)
             /\ \A i \in 1 .. (p - 1) : \A c \in Commands : Named(c, argv[i]) = {}

\* Behind the subcommand its options have been given their operands.
BehindSelection(c) ==
    /\ at \in {"root", c}
    /\ \A d \in Commands : \A o \in Options \cup Flags : d # c => results[d][o] = <<>>
    /\ \/ Doomed(c)
       \/ \E k \in 1 .. Len(argv) : \E p \in 1 .. (Len(argv) + 1) : \E V \in SUBSET (1 .. Len(argv)) :
             /\ Following(c, k, p, V)
             /\ args = Rest(p) \/ (at = "root" /\ ShortAt(p))

FollowInv ==
    Undotted => /\ selected = <<>> /\ ~ positionalOnly => BeforeSelection
                /\ \A c \in Commands : selected = <<c>> => BehindSelection(c)

-----------------------------------------------------------------------------
(* The steps, as far as they matter for the command line.                  *)

\* Nothing is consumed.
Stays == UNCHANGED <<args, at, positionalOnly, selected, results, extras>>

\* `--` or `++`.
Leaves ==
    /\ args # <<>> /\ Head(args).form \in {"mark", "terminator"} /\ args' = Tail(args)
    /\ at' = "root" /\ (at = "root" => positionalOnly')
    /\ positionalOnly' = positionalOnly \/ positionalOnly' = TRUE
    /\ UNCHANGED <<selected, results, extras>>

\* The application selects a subcommand.
Selects(c) ==
    /\ at = "root" /\ ~ positionalOnly /\ selected = <<>> /\ args # <<>>
    /\ \/ Head(args).form = "word" /\ args' = <<Word(Head(args).name)>> \o Tail(args)
       \/ /\ Head(args).form = "word" /\ Head(args).sub = "" /\ Head(args).name = c
          /\ args' = Tail(args)
    /\ selected' = <<c>> /\ at' = c
    /\ UNCHANGED <<positionalOnly, results, extras>>

\* A subcommand that was not selected leaves a name to the application.
Returns ==
    /\ at # "root" /\ selected = <<>>
    /\ UNCHANGED <<args, positionalOnly, selected, results, extras>>

\* A subcommand is entered behind the mark.
Unselected ==
    /\ positionalOnly /\ selected = <<>>
    /\ UNCHANGED <<positionalOnly, selected, results, extras>>

LeftOver ==
    /\ args # <<>> /\ args' = Tail(args) /\ extras' = extras \cup {at}
    /\ UNCHANGED <<at, positionalOnly, selected, results>>

\* A flag or an option of the App that is parsing.
Takes(o, q) ==
    /\ ~ (at = "root" /\ positionalOnly) /\ args # <<>>
    /\ Head(args).form \in {"long", "short", "windows"} /\ Head(args).sub = ""
    /\ o \in Named(at, Head(args)) /\ q \in 1 .. (Len(argv) + 1) /\ Tail(args) = Rest(q)
    /\ \/ TookFlag(at, o, Head(args), q) \/ TookOwn(at, o, Head(args), q)
       \/ TookNext(at, o, Head(args), q)
    /\ UNCHANGED <<at, positionalOnly, selected, extras>>

LEMMA StepKinds ==
    ASSUME TypeInv, SelectInv, Undotted, [Next]_vars
    PROVE  /\ argv' = argv
           /\ \/ Stays \/ Leaves \/ Returns \/ Unselected \/ LeftOver
              \/ \E c \in Commands : Selects(c)
              \/ \E o, q : Takes(o, q)
<1> USE DEF Throw
<1>1. argv \in Seq(Tokens) /\ ArgsInv /\ ParserTypes
  BY DEF TypeInv
<1>2. selected \in Seq(Commands) /\ at \in Apps /\ "root" \in Apps
  BY <1>1 DEF ParserTypes, Apps
<1>3. CASE Convert
  BY <1>3 DEF Convert, Stays
<1>4. CASE PositionalMark
  <2>1. args # <<>> /\ Head(args).form = "mark"
    BY <1>4, Recognized, Zenon DEF PositionalMark, Parsing
  <2>2. /\ args' = Tail(args) /\ at' = "root" /\ (at = "root" => positionalOnly')
        /\ positionalOnly' = positionalOnly \/ positionalOnly' = TRUE
        /\ UNCHANGED <<argv, selected, results, extras>>
    BY <1>4 DEF PositionalMark, BackToRoot
  <2> QED
    BY <2>1, <2>2 DEF Leaves
<1>5. CASE Terminator
  <2>1. args # <<>> /\ Head(args).form = "terminator" /\ at # "root"
    BY <1>5, Recognized, Zenon DEF Terminator, Parsing
  <2>2. /\ args' = Tail(args) /\ at' = "root"
        /\ UNCHANGED <<argv, positionalOnly, selected, results, extras>>
    BY <1>5 DEF Terminator, BackToRoot
  <2> QED
    BY <2>1, <2>2 DEF Leaves
<1>6. CASE _parse_subcommand
  <2> DEFINE t == Head(args)
             c == IF DottedSubcommand(t) THEN t.sub ELSE t.name
  <2>1. /\ args # <<>> /\ (_valid_subcommand(t) \/ DottedSubcommand(t))
        /\ ~ (at = "root" /\ positionalOnly)
    BY <1>6, Recognized, Zenon DEF _parse_subcommand, Parsing
  <2>2. UNCHANGED <<argv, positionalOnly, results, extras>>
    BY <1>6 DEF _parse_subcommand
  <2>3. selected = <<>>
    <3>1. MoreSubcommands
      BY <2>1, Zenon DEF _valid_subcommand, DottedSubcommand
    <3> QED
      BY <1>2, <3>1, MoreIs
  <2>4. CASE at # "root"
    <3>1. args' = args /\ selected' = selected
      BY <1>6, <2>4 DEF _parse_subcommand
    <3> QED
      BY <2>2, <2>3, <2>4, <3>1 DEF Returns
  <2>5. CASE at = "root"
    <3>1. /\ args' = IF DottedSubcommand(t) THEN <<Word(t.name)>> \o Tail(args) ELSE Tail(args)
          /\ selected' = Append(selected, c) /\ at' = c
      BY <1>6, <2>5, Zenon DEF _parse_subcommand, Enter
    <3>2. c \in Commands /\ t.form = "word"
      BY <2>1 DEF _valid_subcommand, DottedSubcommand, _find_subcommand, Word
    <3>3. ~ DottedSubcommand(t) => t.sub = "" /\ t.name = c
      BY <2>1 DEF _valid_subcommand, _find_subcommand
    <3> HIDE DEF c
    <3>4. selected' = <<c>>
      BY <2>3, <3>1
    <3>5. Selects(c)
      BY <2>1, <2>2, <2>3, <2>5, <3>1, <3>2, <3>3, <3>4, Zenon DEF Selects
    <3> QED
      BY <2>2, <3>2, <3>5
  <2> QED
    BY <2>4, <2>5
<1>7. CASE _parse_positional
  <2> DEFINE t == Head(args)
             known == _find_subcommand(t, FALSE) /\ MoreSubcommands
  <2>1. UNCHANGED <<argv, positionalOnly, selected, results>> /\ args # <<>>
    BY <1>7 DEF _parse_positional, Parsing
  <2>2. \/ known /\ at = "root" /\ extras' = extras
        \/ known /\ at # "root" /\ args' = args /\ extras' = extras
        \/ extras' = extras \cup {at} /\ args' = Tail(args) /\ at' = at
    BY <1>7, Zenon DEF _parse_positional, _move_to_missing
  <2>3. known => selected = <<>>
    BY <1>2, MoreIs
  <2>4. CASE known /\ at = "root" /\ extras' = extras
    <3>1. positionalOnly \/ ~ _valid_subcommand(t)
      BY <1>7, Recognized, Zenon DEF _parse_positional, Parsing
    <3>2. positionalOnly
      <4> SUFFICES ASSUME ~ positionalOnly PROVE FALSE
        OBVIOUS
      <4>1. t.name \in Commands
        BY <2>4 DEF _find_subcommand
      <4>2. parsed[t.name] = 0
        BY <2>3, <2>4, <4>1 DEF SelectInv
      <4>3. _valid_subcommand(t)
        BY <2>4, <4>2 DEF _valid_subcommand, _find_subcommand
      <4> QED
        BY <3>1, <4>3
    <3> QED
      BY <2>1, <2>3, <2>4, <3>2 DEF Unselected
  <2>5. CASE known /\ at # "root" /\ args' = args /\ extras' = extras
    BY <2>1, <2>3, <2>5 DEF Returns
  <2>6. CASE extras' = extras \cup {at} /\ args' = Tail(args) /\ at' = at
    BY <2>1, <2>6 DEF LeftOver
  <2> QED
    BY <2>2, <2>4, <2>5, <2>6
<1>8. CASE ParseOwnArg
  <2> DEFINE t == Head(args)
  <2>1. /\ args # <<>> /\ t.sub = "" /\ t.form \in {"long", "short", "windows"}
        /\ ~ (at = "root" /\ positionalOnly)
    BY <1>8, Recognized, Zenon DEF ParseOwnArg, Parsing
  <2>2. PICK o \in Named(at, t) : Take(at, o, t, Tail(args))
    BY <1>8 DEF ParseOwnArg
  <2>3. UNCHANGED <<argv, at, positionalOnly, selected, extras>>
    BY <1>8 DEF ParseOwnArg
  <2>4. PICK q \in 1 .. (Len(argv) + 1) : Tail(args) = Rest(q)
    BY <1>1, <2>1, HeadIs
  <2>5. t \in Argument /\ Take(at, o, t, Rest(q))
    BY <1>1, <2>1, <2>2, <2>4, HeadIs
  <2> HIDE DEF t
  <2>6. TookFlag(at, o, t, q) \/ TookOwn(at, o, t, q) \/ TookNext(at, o, t, q)
           \/ TookNone(at, o, t, q)
    BY ONLY <1>1, <1>2, <2>1, <2>2, <2>4, <2>5, TakeIs
  <2>7. CASE TookNone(at, o, t, q)
    BY <2>3, <2>7 DEF TookNone, Stays
  <2>8. CASE TookFlag(at, o, t, q) \/ TookOwn(at, o, t, q) \/ TookNext(at, o, t, q)
    <3>1. Takes(o, q)
      BY <2>1, <2>2, <2>3, <2>4, <2>8, Zenon DEF Takes, t
    <3> QED
      BY <2>3, <3>1, Zenon
  <2> QED
    BY <2>6, <2>7, <2>8
<1>9. CASE ParseDottedArg
  <2> DEFINE t == Head(args)
  <2>1. args # <<>> /\ t.form \in {"long", "short", "windows"}
    BY <1>9, Recognized, Zenon DEF ParseDottedArg, Parsing
  <2>2. PICK o \in DottedNames(t) : TRUE
    BY <1>9 DEF ParseDottedArg
  <2>3. t.sub \in Commands
    BY <2>2 DEF DottedNames
  <2>4. t.sub = ""
    BY <1>1, <2>1, HeadUndotted
  <2> QED
    BY <2>3, <2>4, CommandsAre
<1>10. CASE ParseUnknownArg
  BY <1>10 DEF ParseUnknownArg, Parsing, _move_to_missing, LeftOver
<1>11. CASE \/ ParseEnds \/ _process_callbacks \/ _process_help_flags \/ _process_requirements
            \/ _process_extras \/ run_callback
  BY <1>11 DEF ParseEnds, _process_callbacks, _process_help_flags,
     _process_requirements, _process_extras, run_callback, parseVars, Stays
<1>12. CASE UNCHANGED vars
  BY <1>12 DEF vars, parseVars, Stays
<1> QED
  BY <1>3, <1>4, <1>5, <1>6, <1>7, <1>8, <1>9, <1>10, <1>11, <1>12 DEF Next, Parse, Done

\* Once refused, always refused.
LEMMA RefusedStays ==
    ASSUME TypeInv, NEW a \in Apps, Refused(a),
           \/ results' = results /\ extras \subseteq extras'
           \/ \E o \in Options \cup Flags : \E v \in Argument :
                 results' = AddResult(at, o, v) /\ extras' = extras
    PROVE  Refused(a)'
<1>1. results \in ResultsType /\ at \in Apps
  BY DEF TypeInv, ResultTypes, ParserTypes
<1>2. CASE results' = results /\ extras \subseteq extras'
  BY <1>2 DEF Refused
<1>3. CASE \E o \in Options \cup Flags : \E v \in Argument :
              results' = AddResult(at, o, v) /\ extras' = extras
  <2>1. PICK o \in Options \cup Flags : \E v \in Argument :
               results' = AddResult(at, o, v) /\ extras' = extras
    BY <1>3
  <2>2. PICK v \in Argument : results' = AddResult(at, o, v) /\ extras' = extras
    BY <2>1
  <2>3. /\ results'[at][o] # <<>>
        /\ \A b \in Apps : \A u \in Options \cup Flags :
              b # at \/ u # o => results'[b][u] = results[b][u]
    BY ONLY <1>1, <2>1, <2>2, AddResultIs
  <2>4. "help" \in Options \cup Flags
    BY OptionsAre
  <2> QED
    BY <2>2, <2>3, <2>4 DEF Refused
<1> QED
  BY <1>2, <1>3

\* What a flag or an option does to the results.
LEMMA TakesResults ==
    ASSUME TypeInv, NEW o, NEW q, Takes(o, q)
    PROVE  /\ o \in Options \cup Flags
           /\ \E v \in Argument : results' = AddResult(at, o, v)
           /\ results'[at][o] # <<>>
           /\ \A b \in Apps : \A u \in Options \cup Flags :
                 b # at \/ u # o => results'[b][u] = results[b][u]
<1> DEFINE t == Head(args)
<1>1. /\ argv \in Seq(Tokens) /\ ArgsInv /\ results \in ResultsType /\ at \in Apps
      /\ args # <<>> /\ o \in Named(at, t)
  BY Zenon DEF TypeInv, ResultTypes, ParserTypes, Takes
<1>2. o \in Options \cup Flags
  BY <1>1, NamedIs
<1>3. \E v \in Argument : results' = AddResult(at, o, v)
  <2>1. TookFlag(at, o, t, q) \/ TookOwn(at, o, t, q) \/ TookNext(at, o, t, q)
    BY Zenon DEF Takes
  <2>2. CASE TookFlag(at, o, t, q)
    BY <2>2, Zenon DEF TookFlag
  <2>3. CASE TookOwn(at, o, t, q)
    <3>1. t \in Argument
      BY <1>1, HeadIs
    <3>2. Word(t.value) \in Argument
      <4>1. t.value \in Part
        BY <3>1 DEF Argument
      <4> QED
        BY <4>1, TokensAre
    <3> QED
      BY <2>3, <3>2, Zenon DEF TookOwn
  <2>4. CASE TookNext(at, o, t, q)
    <3>1. argv[q] \in Argument
      BY <2>4, TokensAre DEF TookNext
    <3> QED
      BY <2>4, <3>1, Zenon DEF TookNext
  <2> QED
    BY <2>1, <2>2, <2>3, <2>4
<1>4. PICK v \in Argument : results' = AddResult(at, o, v)
  BY <1>3
<1>5. /\ results'[at][o] # <<>>
      /\ \A b \in Apps : \A u \in Options \cup Flags :
            b # at \/ u # o => results'[b][u] = results[b][u]
  BY ONLY <1>1, <1>2, <1>4, AddResultIs
<1> QED
  BY <1>2, <1>3, <1>5

LEMMA RestPrime ==
    ASSUME argv' = argv
    PROVE  \A p : Rest(p)' = Rest(p)
  BY DEF Rest

\* How to show that the parser is behind the subcommand.
LEMMA BehindAt ==
    ASSUME argv \in Seq(Tokens), argv' = argv, NEW c \in Commands, at' \in {"root", c},
           \A d \in Commands : \A o \in Options \cup Flags : d # c => results'[d][o] = <<>>,
           NEW k, NEW p, NEW V, argv[k] = Word(c), Along(c, k, p, V),
           Given(c, k, p, V, results'[c]), NoHelpWritten(c, p, V),
           \/ args' = Rest(p)
           \/ at' = "root" /\ \E h \in Argument : Made(h) /\ h.form = "short" /\ args' = <<h>> \o Rest(p)
    PROVE  BehindSelection(c)'
<1>1. /\ k \in 1 .. Len(argv) /\ p \in 1 .. (Len(argv) + 1) /\ V \subseteq 1 .. (p - 1)
  BY Zenon DEF Along
<1>2. V \in SUBSET (1 .. Len(argv))
  <2>1. 1 .. (p - 1) \subseteq 1 .. Len(argv)
    <3>1. Len(argv) \in Nat
      BY ONLY argv \in Seq(Tokens)
    <3> QED
      BY ONLY <1>1, <3>1
  <2> QED
    BY <1>1, <2>1
<1>3. Following(c, k, p, V)'
  BY ONLY FollowingPrime, argv' = argv, argv[k] = Word(c), Along(c, k, p, V),
          Given(c, k, p, V, results'[c]), NoHelpWritten(c, p, V)
<1>4. (args = Rest(p) \/ (at = "root" /\ ShortAt(p)))'
  BY RestPrime, Zenon DEF ShortAt
<1> QED
  BY <1>1, <1>2, <1>3, <1>4, Zenon DEF BehindSelection

LEMMA BeforeAt ==
    ASSUME argv' = argv, NEW p \in 1 .. (Len(argv) + 1),
           \A c \in Commands : \A o \in Options \cup Flags : results'[c][o] = <<>>,
           \/ args' = Rest(p)
           \/ \E h \in Argument : Made(h) /\ h.form = "short" /\ args' = <<h>> \o Rest(p),
           \A i \in 1 .. (p - 1) : \A c \in Commands : Named(c, argv[i]) = {}
    PROVE  BeforeSelection'
<1>1. (args = Rest(p) \/ ShortAt(p))'
  BY RestPrime, Zenon DEF ShortAt
<1>2. \A i \in 1 .. (p - 1) : \A c \in Commands : Named(c, argv[i])' = {}
  BY Zenon DEF Named
<1> QED
  BY <1>1, <1>2, Zenon DEF BeforeSelection

\* Nothing moves.
LEMMA FollowStays ==
    ASSUME TypeInv, argv' = argv, Stays, FollowInv
    PROVE  FollowInv'
<1>1. /\ argv \in Seq(Tokens) /\ UNCHANGED <<args, at, positionalOnly, selected, results, extras>>
  BY DEF TypeInv, Stays
<1>2. Undotted' <=> Undotted
  BY DEF Undotted
<1>3. \A a : Refused(a)' <=> Refused(a)
  BY <1>1 DEF Refused
<1>4. BeforeSelection => BeforeSelection'
  <2> SUFFICES ASSUME BeforeSelection PROVE BeforeSelection'
    OBVIOUS
  <2>1. \A c \in Commands : \A o \in Options \cup Flags : results'[c][o] = <<>>
    BY <1>1, Zenon DEF BeforeSelection
  <2>2. CASE Refused("root")
    BY <1>3, <2>1, <2>2, Zenon DEF BeforeSelection
  <2>3. CASE ~ Refused("root")
    <3>1. PICK p \in 1 .. (Len(argv) + 1) :
             /\ args = Rest(p) \/ ShortAt(p)
             /\ \A i \in 1 .. (p - 1) : \A c \in Commands : Named(c, argv[i]) = {}
      BY <2>3, Zenon DEF BeforeSelection
    <3>2. \/ args' = Rest(p)
          \/ \E h \in Argument : Made(h) /\ h.form = "short" /\ args' = <<h>> \o Rest(p)
      BY <1>1, <3>1, Zenon DEF ShortAt
    <3> QED
      BY <2>1, <3>1, <3>2, BeforeAt
  <2> QED
    BY <2>2, <2>3
<1>5. ASSUME NEW c \in Commands, BehindSelection(c) PROVE BehindSelection(c)'
  <2>1. /\ at' \in {"root", c}
        /\ \A d \in Commands : \A o \in Options \cup Flags : d # c => results'[d][o] = <<>>
    BY <1>1, <1>5 DEF BehindSelection
  <2>2. CASE Doomed(c)
    <3>1. Doomed(c)'
      BY <1>1, <1>3, <2>2 DEF Doomed
    <3> QED
      BY <2>1, <3>1, Zenon DEF BehindSelection
  <2>3. CASE ~ Doomed(c)
    <3>1. PICK k \in 1 .. Len(argv) : \E p \in 1 .. (Len(argv) + 1) : \E V \in SUBSET (1 .. Len(argv)) :
             /\ Following(c, k, p, V)
             /\ args = Rest(p) \/ (at = "root" /\ ShortAt(p))
      BY <1>5, <2>3, Zenon DEF BehindSelection
    <3>2. PICK p \in 1 .. (Len(argv) + 1) : \E V \in SUBSET (1 .. Len(argv)) :
             /\ Following(c, k, p, V)
             /\ args = Rest(p) \/ (at = "root" /\ ShortAt(p))
      BY <3>1
    <3>3. PICK V \in SUBSET (1 .. Len(argv)) :
             /\ Following(c, k, p, V)
             /\ args = Rest(p) \/ (at = "root" /\ ShortAt(p))
      BY <3>2
    <3>4. /\ argv[k] = Word(c) /\ Along(c, k, p, V) /\ NoHelpWritten(c, p, V)
          /\ Given(c, k, p, V, results'[c])
      BY <1>1, <3>3, Zenon DEF Following
    <3>5. \/ args' = Rest(p)
          \/ at' = "root" /\ \E h \in Argument : Made(h) /\ h.form = "short" /\ args' = <<h>> \o Rest(p)
      BY <1>1, <3>3, Zenon DEF ShortAt
    <3> QED
      BY ONLY <1>1, <1>5, argv' = argv, <2>1, <3>4, <3>5, BehindAt
  <2> QED
    BY <2>2, <2>3
<1> QED
  BY <1>1, <1>2, <1>4, <1>5, Zenon DEF FollowInv

LEMMA RestInjective ==
    ASSUME argv \in Seq(Tokens), NEW p \in 1 .. (Len(argv) + 1), NEW q \in 1 .. (Len(argv) + 1),
           Rest(p) = Rest(q)
    PROVE  p = q
<1> DEFINE n == Len(argv)
<1>1. n \in Nat
  BY ONLY argv \in Seq(Tokens)
<1>2. n + 1 - p \in Nat /\ n + 1 - q \in Nat
  BY <1>1
<1>3. DOMAIN Rest(p) = 1 .. (n + 1 - p) /\ DOMAIN Rest(q) = 1 .. (n + 1 - q)
  BY DEF Rest
<1>4. 1 .. (n + 1 - p) = 1 .. (n + 1 - q)
  BY <1>3
<1> HIDE DEF n
<1>5. \A x, y \in Nat : 1 .. x = 1 .. y => x = y
  OBVIOUS
<1>6. n + 1 - p = n + 1 - q
  BY <1>2, <1>4, <1>5
<1> QED
  BY <1>1, <1>6

\* The head of what is left: at p, or made in front of p.
LEMMA HeadAt ==
    ASSUME argv \in Seq(Tokens), NEW p \in 1 .. (Len(argv) + 1), args # <<>>,
           args = Rest(p) \/ ShortAt(p)
    PROVE  \/ /\ args = Rest(p) /\ p \in 1 .. Len(argv) /\ p + 1 \in 1 .. (Len(argv) + 1)
              /\ Head(args) = argv[p] /\ argv[p] \in Tokens /\ Tail(args) = Rest(p + 1)
           \/ Head(args).form = "short" /\ Tail(args) = Rest(p) /\ ShortAt(p)
<1>1. CASE args = Rest(p)
  BY <1>1, RestIs, SMTT(40)
<1>2. CASE ShortAt(p)
  <2>1. PICK h \in Argument : h.form = "short" /\ args = <<h>> \o Rest(p)
    BY <1>2 DEF ShortAt
  <2>2. Rest(p) \in Seq(Argument)
    BY RestIs
  <2>3. Head(args) = h /\ Tail(args) = Rest(p)
    BY ONLY <2>1, <2>2, InFront
  <2> QED
    BY <1>2, <2>1, <2>3
<1> QED
  BY <1>1, <1>2

LEMMA NotNamed ==
    ASSUME NEW t, t.form \notin {"long", "short", "windows"}, NEW c \in Commands
    PROVE  Named(c, t) = {}
<1>1. c \in Apps
  BY DEF Apps
<1> QED
  BY <1>1, NamedIs, Zenon

\* Before a subcommand is selected.
LEMMA FollowBefore ==
    ASSUME TypeInv, SelectInv, Undotted, [Next]_vars, ~ Stays,
           selected = <<>>, ~ positionalOnly, BeforeSelection
    PROVE  /\ selected' = <<>> /\ ~ positionalOnly' => BeforeSelection'
           /\ \A c \in Commands : selected' = <<c>> => BehindSelection(c)'
<1>1. /\ argv \in Seq(Tokens) /\ ArgsInv /\ ParserTypes /\ results \in ResultsType
      /\ at = "root" /\ "root" \in Apps /\ Commands \subseteq Apps /\ "root" \notin Commands
  BY CommandsAre DEF TypeInv, SelectInv, ResultTypes, Apps
<1>2. argv' = argv
  BY StepKinds
<1>3. \A c \in Commands : \A o \in Options \cup Flags : results[c][o] = <<>>
  BY DEF BeforeSelection
<1>4. \A c : <<c>> # <<>>
  OBVIOUS
<1>5. CASE Leaves
  BY <1>1, <1>4, <1>5 DEF Leaves
<1>6. CASE LeftOver
  <2>1. Refused("root")' /\ results' = results /\ selected' = <<>>
    BY <1>1, <1>6 DEF LeftOver, Refused
  <2>2. BeforeSelection'
    BY <1>3, <2>1, Zenon DEF BeforeSelection
  <2> QED
    BY <1>4, <2>1, <2>2
<1>7. ASSUME NEW c \in Commands, Selects(c)
      PROVE  selected' = <<c>> /\ BehindSelection(c)'
  <2> DEFINE t == Head(args)
  <2>1. /\ args # <<>> /\ selected' = <<c>> /\ at' = c /\ results' = results /\ extras' = extras
        /\ t.form = "word"
    BY <1>7, Zenon DEF Selects
  <2>2. \A d \in Commands : \A o \in Options \cup Flags : d # c => results'[d][o] = <<>>
    BY <1>3, <2>1
  <2>3. ASSUME Doomed(c)' PROVE BehindSelection(c)'
    <3>1. at' \in {"root", c}
      BY <2>1
    <3> QED
      BY <2>2, <2>3, <3>1, Zenon DEF BehindSelection
  <2>4. CASE args' = <<Word(t.name)>> \o Tail(args)
    <3>1. t \in Argument /\ \E q \in 1 .. (Len(argv) + 1) : Tail(args) = Rest(q)
      BY <1>1, <2>1, HeadIs
    <3>2. PICK q \in 1 .. (Len(argv) + 1) : Tail(args) = Rest(q)
      BY <3>1
    <3>3. Tail(args) \in Seq(Argument)
      BY <1>1, <3>2, RestIs
    <3>4. Word(t.name) \in Argument
      <4>1. t.name \in Part
        BY <3>1 DEF Argument
      <4> QED
        BY <4>1, TokensAre
    <3>5. args' # <<>> /\ Head(args') = Word(t.name)
      BY ONLY <2>4, <3>3, <3>4, InFront
    <3>6. Head(args').form = "word"
      <4>1. Word(t.name).form = "word"
        BY DEF Word
      <4> QED
        BY ONLY <3>5, <4>1
    <3>7. Doomed(c)'
      BY <2>1, <3>5, <3>6, Zenon DEF Doomed
    <3> QED
      BY <2>1, <2>3, <3>7
  <2>5. CASE t.sub = "" /\ t.name = c /\ args' = Tail(args)
    <3>1. CASE Refused("root")
      <4>1. Refused("root")'
        BY <1>1, <2>1, <3>1, RefusedStays
      <4>2. Doomed(c)'
        BY <4>1 DEF Doomed
      <4> QED
        BY <2>1, <2>3, <4>2
    <3>2. CASE ~ Refused("root")
      <4>1. PICK p \in 1 .. (Len(argv) + 1) :
               /\ args = Rest(p) \/ ShortAt(p)
               /\ \A i \in 1 .. (p - 1) : \A d \in Commands : Named(d, argv[i]) = {}
        BY <3>2, Zenon DEF BeforeSelection
      <4>2. /\ p \in 1 .. Len(argv) /\ p + 1 \in 1 .. (Len(argv) + 1)
            /\ t = argv[p] /\ argv[p] \in Tokens /\ Tail(args) = Rest(p + 1)
        BY <1>1, <2>1, <4>1, HeadAt
      <4>3. argv[p] = Word(c)
        <5>1. t \in Argument /\ t.value = ""
          BY <2>1, <4>2, TokensAre
        <5> HIDE DEF t
        <5>2. t = Word(c)
          BY <2>1, <2>5, <5>1 DEF Argument, Word
        <5> QED
          BY <4>2, <5>2
      <4>4. \A o \in OptionsOf(c) : results'[c][o] = <<>>
        BY <1>1, <1>3, <2>1, OptionsAre
      <4>5. Along(c, p, p + 1, {}) /\ Given(c, p, p + 1, {}, results'[c])
        BY ONLY <1>1, <4>2, <4>4, AlongFirst
      <4>6. NoHelpWritten(c, p + 1, {})
        <5>1. Named(c, argv[p]) = {}
          BY <2>1, <4>2, NotNamed
        <5>2. \A i \in 1 .. ((p + 1) - 1) : i \in 1 .. (p - 1) \/ i = p
          BY <4>2
        <5> QED
          BY <4>1, <5>1, <5>2, Zenon DEF NoHelpWritten
      <4>7. at' \in {"root", c} /\ args' = Rest(p + 1)
        BY <2>1, <2>5, <4>2
      <4> QED
        BY ONLY <1>1, <1>2, <1>7, <2>1, <2>2, <4>3, <4>5, <4>6, <4>7, BehindAt
    <3> QED
      BY <3>1, <3>2
  <2> QED
    BY <1>7, <2>4, <2>5, Zenon DEF Selects
<1>8. ASSUME NEW o, NEW q, Takes(o, q) PROVE selected' = <<>> /\ BeforeSelection'
  <2> DEFINE t == Head(args)
  <2>1. /\ args # <<>> /\ o \in Named("root", t) /\ Tail(args) = Rest(q)
        /\ selected' = <<>> /\ extras' = extras
    BY <1>1, <1>8, Zenon DEF Takes
  <2>2. /\ o \in Options \cup Flags
        /\ \E v \in Argument : results' = AddResult(at, o, v)
        /\ results'["root"][o] # <<>>
        /\ \A b \in Apps : \A u \in Options \cup Flags :
              b # "root" \/ u # o => results'[b][u] = results[b][u]
    BY <1>1, <1>8, TakesResults
  <2>3. \A c \in Commands : \A u \in Options \cup Flags : results'[c][u] = <<>>
    BY <1>1, <1>3, <2>2
  <2>4. o \in Flags /\ o \notin Options
    BY <1>1, <2>1, <2>2, NamedIs, OptionsAre
  <2>5. CASE Refused("root")
    <3>1. Refused("root")'
      BY <1>1, <2>1, <2>2, <2>5, RefusedStays
    <3> QED
      BY <2>1, <2>3, <3>1, Zenon DEF BeforeSelection
  <2>6. CASE o = "help"
    <3>1. Refused("root")'
      BY <2>2, <2>6 DEF Refused
    <3> QED
      BY <2>1, <2>3, <3>1, Zenon DEF BeforeSelection
  <2>7. CASE ~ Refused("root") /\ o = "version"
    <3>1. PICK p \in 1 .. (Len(argv) + 1) :
             /\ args = Rest(p) \/ ShortAt(p)
             /\ \A i \in 1 .. (p - 1) : \A d \in Commands : Named(d, argv[i]) = {}
      BY <2>7, Zenon DEF BeforeSelection
    <3>2. TookFlag(at, o, t, q)
      BY <1>8, <2>4, Zenon DEF Takes, TookOwn, TookNext
    <3>3. \/ args' = Tail(args)
          \/ \E h \in Argument : Made(h) /\ h.form = "short" /\ args' = <<h>> \o Tail(args)
      BY <2>1, <3>2, Zenon DEF TookFlag
    <3>4. CASE /\ p \in 1 .. Len(argv) /\ p + 1 \in 1 .. (Len(argv) + 1)
               /\ t = argv[p] /\ Tail(args) = Rest(p + 1)
      <4>1. \A d \in Commands : Named(d, argv[p]) = {}
        BY <2>1, <2>7, <3>4, NamedVersion
      <4>2. \A i \in 1 .. ((p + 1) - 1) : i \in 1 .. (p - 1) \/ i = p
        BY <3>4
      <4>3. \A i \in 1 .. ((p + 1) - 1) : \A d \in Commands : Named(d, argv[i]) = {}
        BY <3>1, <4>1, <4>2, Zenon
      <4>4. \/ args' = Rest(p + 1)
            \/ \E h \in Argument : Made(h) /\ h.form = "short" /\ args' = <<h>> \o Rest(p + 1)
        BY <3>3, <3>4, Zenon
      <4>5. BeforeSelection'
        BY ONLY <1>2, <2>3, <3>4, <4>3, <4>4, BeforeAt
      <4> QED
        BY <2>1, <4>5
    <3>5. CASE Tail(args) = Rest(p)
      <4>1. \/ args' = Rest(p)
            \/ \E h \in Argument : Made(h) /\ h.form = "short" /\ args' = <<h>> \o Rest(p)
        BY <3>3, <3>5, Zenon
      <4>2. BeforeSelection'
        BY ONLY <1>2, <2>3, <3>1, <4>1, BeforeAt
      <4> QED
        BY <2>1, <4>2
    <3> QED
      BY <1>1, <2>1, <3>1, <3>4, <3>5, HeadAt
  <2> QED
    BY <2>4, <2>5, <2>6, <2>7 DEF Flags
<1>9. \/ Leaves \/ LeftOver
      \/ \E c \in Commands : Selects(c)
      \/ \E o, q : Takes(o, q)
  <2>1. ~ Returns /\ ~ Unselected
    BY <1>1 DEF Returns, Unselected
  <2> QED
    BY <2>1, StepKinds, Zenon
<1>10. ASSUME NEW c \in Commands, Selects(c)
       PROVE  /\ selected' = <<>> /\ ~ positionalOnly' => BeforeSelection'
              /\ \A d \in Commands : selected' = <<d>> => BehindSelection(d)'
  <2>1. \A d : <<d>> = <<c>> => d = c
    OBVIOUS
  <2> QED
    BY <1>4, <1>7, <1>10, <2>1, Zenon
<1> QED
  BY <1>4, <1>5, <1>6, <1>8, <1>9, <1>10, Zenon

\* Behind the subcommand.
LEMMA FollowBehind ==
    ASSUME TypeInv, SelectInv, Undotted, [Next]_vars, ~ Stays,
           NEW c \in Commands, selected = <<c>>, BehindSelection(c)
    PROVE  selected' = <<c>> /\ BehindSelection(c)'
<1>1. /\ argv \in Seq(Tokens) /\ ArgsInv /\ ParserTypes /\ results \in ResultsType
      /\ "root" \in Apps /\ c \in Apps /\ Commands \subseteq Apps /\ c # "root"
      /\ at \in {"root", c} /\ at \in Apps
  BY CommandsAre DEF TypeInv, ResultTypes, Apps, BehindSelection
<1>2. argv' = argv
  BY StepKinds
<1>3. \A d \in Commands : \A o \in Options \cup Flags : d # c => results[d][o] = <<>>
  BY DEF BehindSelection
<1>4. \/ Leaves \/ LeftOver
      \/ \E o, q : Takes(o, q)
  <2>1. selected # <<>>
    OBVIOUS
  <2>2. ~ Returns /\ ~ Unselected /\ \A d : ~ Selects(d)
    BY <2>1, Zenon DEF Returns, Unselected, Selects
  <2> QED
    BY <2>2, StepKinds, Zenon
<1>5. ASSUME NEW u, Refused(u)', u \in {"root", c}, at' \in {"root", c},
             \A d \in Commands : \A o \in Options \cup Flags : d # c => results'[d][o] = <<>>
      PROVE  BehindSelection(c)'
  <2>1. Doomed(c)'
    BY <1>5 DEF Doomed
  <2> QED
    BY <1>5, <2>1, Zenon DEF BehindSelection
<1>6. ASSUME ~ Refused("root"), ~ Refused(c), args # <<>>, Head(args).form # "word"
      PROVE  \E k \in 1 .. Len(argv) : \E p \in 1 .. (Len(argv) + 1) : \E V \in SUBSET (1 .. Len(argv)) :
                /\ Following(c, k, p, V)
                /\ args = Rest(p) \/ (at = "root" /\ ShortAt(p))
  BY <1>6, Zenon DEF BehindSelection, Doomed
<1>7. CASE LeftOver
  <2>1. results' = results /\ at' = at /\ selected' = <<c>> /\ Refused(at)'
    BY <1>7 DEF LeftOver, Refused
  <2>2. \A d \in Commands : \A o \in Options \cup Flags : d # c => results'[d][o] = <<>>
    BY <1>3, <2>1
  <2> QED
    BY <1>1, <1>5, <2>1, <2>2
<1>8. CASE Leaves
  <2>1. /\ args # <<>> /\ Head(args).form \in {"mark", "terminator"} /\ args' = Tail(args)
        /\ at' = "root" /\ selected' = <<c>> /\ results' = results /\ extras' = extras
    BY <1>8 DEF Leaves
  <2>2. \A d \in Commands : \A o \in Options \cup Flags : d # c => results'[d][o] = <<>>
    BY <1>3, <2>1
  <2>3. ASSUME NEW u \in {"root", c}, Refused(u) PROVE BehindSelection(c)'
    <3>1. u \in Apps /\ extras \subseteq extras'
      BY <1>1, <2>1
    <3>2. Refused(u)'
      BY <2>1, <2>3, <3>1, RefusedStays
    <3> QED
      BY <1>5, <2>1, <2>2, <3>2
  <2>4. CASE ~ Refused("root") /\ ~ Refused(c)
    <3>1. Head(args).form \notin {"word", "long", "short", "windows"}
      BY <2>1
    <3>2. PICK k \in 1 .. Len(argv) : \E p \in 1 .. (Len(argv) + 1) : \E V \in SUBSET (1 .. Len(argv)) :
             /\ Following(c, k, p, V)
             /\ args = Rest(p) \/ (at = "root" /\ ShortAt(p))
      BY <1>6, <2>1, <2>4, <3>1
    <3>3. PICK p \in 1 .. (Len(argv) + 1) : \E V \in SUBSET (1 .. Len(argv)) :
             /\ Following(c, k, p, V)
             /\ args = Rest(p) \/ (at = "root" /\ ShortAt(p))
      BY <3>2
    <3>4. PICK V \in SUBSET (1 .. Len(argv)) :
             /\ Following(c, k, p, V)
             /\ args = Rest(p) \/ (at = "root" /\ ShortAt(p))
      BY <3>3
    <3>5. p \in 1 .. Len(argv) /\ Head(args) = argv[p] /\ Tail(args) = Rest(p + 1)
      BY <1>1, <2>1, <3>1, <3>4, HeadAt
    <3>6. Named(c, argv[p]) = {}
      BY <3>1, <3>5, NotNamed
    <3>7. /\ argv[k] = Word(c) /\ Along(c, k, p, V) /\ NoHelpWritten(c, p, V)
          /\ Given(c, k, p, V, results'[c])
      BY <2>1, <3>4, Zenon DEF Following
    <3>8. Along(c, k, p + 1, V) /\ Given(c, k, p + 1, V, results'[c]) /\ NoHelpWritten(c, p + 1, V)
      BY ONLY <1>1, <3>5, <3>6, <3>7, AlongSkip
    <3>9. at' \in {"root", c} /\ args' = Rest(p + 1)
      BY <2>1, <3>5
    <3>10. BehindSelection(c)'
      BY ONLY <1>1, <1>2, c \in Commands, <2>2, <3>7, <3>8, <3>9, BehindAt
    <3> QED
      BY <2>1, <3>10
  <2> QED
    BY <2>1, <2>3, <2>4
<1>9. ASSUME NEW o, NEW q, Takes(o, q) PROVE selected' = <<c>> /\ BehindSelection(c)'
  <2> DEFINE t == Head(args)
  <2>1. /\ args # <<>> /\ o \in Named(at, t) /\ Tail(args) = Rest(q) /\ q \in 1 .. (Len(argv) + 1)
        /\ t.form \in {"long", "short", "windows"} /\ t.sub = ""
        /\ selected' = <<c>> /\ extras' = extras /\ at' = at
    BY <1>9, Zenon DEF Takes
  <2>2. /\ o \in Options \cup Flags
        /\ \E v \in Argument : results' = AddResult(at, o, v)
        /\ results'[at][o] # <<>>
        /\ \A b \in Apps : \A u \in Options \cup Flags :
              b # at \/ u # o => results'[b][u] = results[b][u]
    BY <1>9, TakesResults
  <2>3. \A d \in Commands : \A u \in Options \cup Flags : d # c => results'[d][u] = <<>>
    <3>1. \A d \in Commands : d # c => d # at /\ d \in Apps
      BY <1>1, CommandsAre
    <3> QED
      BY <1>3, <2>2, <3>1, Zenon
  <2>4. at' \in {"root", c}
    BY <1>1, <2>1
  <2>5. ASSUME NEW u \in {"root", c}, Refused(u) PROVE BehindSelection(c)'
    <3>1. u \in Apps
      BY <1>1
    <3>2. Refused(u)'
      BY <2>1, <2>2, <2>5, <3>1, RefusedStays
    <3> QED
      BY <1>5, <2>3, <2>4, <3>2
  <2>6. CASE o = "help"
    <3>1. Refused(at)'
      BY <2>1, <2>2, <2>6 DEF Refused
    <3> QED
      BY <1>1, <1>5, <2>1, <2>3, <2>4, <3>1
  <2>7. CASE ~ Refused("root") /\ ~ Refused(c) /\ o # "help"
    <3>1. t.form # "word"
      BY <2>1
    <3>2. PICK k \in 1 .. Len(argv) : \E p \in 1 .. (Len(argv) + 1) : \E V \in SUBSET (1 .. Len(argv)) :
             /\ Following(c, k, p, V)
             /\ args = Rest(p) \/ (at = "root" /\ ShortAt(p))
      BY <1>6, <2>1, <2>7, <3>1
    <3>3. PICK p \in 1 .. (Len(argv) + 1) : \E V \in SUBSET (1 .. Len(argv)) :
             /\ Following(c, k, p, V)
             /\ args = Rest(p) \/ (at = "root" /\ ShortAt(p))
      BY <3>2
    <3>4. PICK V \in SUBSET (1 .. Len(argv)) :
             /\ Following(c, k, p, V)
             /\ args = Rest(p) \/ (at = "root" /\ ShortAt(p))
      BY <3>3
    <3>5. /\ argv[k] = Word(c) /\ Along(c, k, p, V) /\ NoHelpWritten(c, p, V)
          /\ Given(c, k, p, V, results[c])
      BY <3>4, Zenon DEF Following
    <3>6. CASE at = "root"
      <4>1. o \in Flags /\ o \notin Options /\ o = "version"
        BY <1>1, <2>1, <2>2, <2>7, <3>6, NamedIs, OptionsAre DEF Flags
      <4>2. \A u \in OptionsOf(c) : results'[c][u] = results[c][u]
        <5>1. OptionsOf(c) \subseteq Options
          BY <1>1, OptionsAre
        <5> QED
          BY <1>1, <2>2, <3>6, <5>1
      <4>3. Given(c, k, p, V, results'[c])
        BY <3>5, <4>2 DEF Given
      <4>4. TookFlag(at, o, t, q)
        BY <1>9, <4>1, Zenon DEF Takes, TookOwn, TookNext
      <4>5. \/ args' = Tail(args)
            \/ \E h \in Argument : Made(h) /\ h.form = "short" /\ args' = <<h>> \o Tail(args)
        BY <2>1, <4>4, Zenon DEF TookFlag
      <4>6. CASE p \in 1 .. Len(argv) /\ t = argv[p] /\ Tail(args) = Rest(p + 1)
        <5>1. Named(c, argv[p]) = {}
          BY <2>1, <3>6, <4>1, <4>6, NamedVersion
        <5>2. Along(c, k, p + 1, V) /\ Given(c, k, p + 1, V, results'[c]) /\ NoHelpWritten(c, p + 1, V)
          BY ONLY <1>1, <3>5, <4>3, <4>6, <5>1, AlongSkip
        <5>3. \/ args' = Rest(p + 1)
              \/ at' = "root" /\ \E h \in Argument : Made(h) /\ h.form = "short" /\ args' = <<h>> \o Rest(p + 1)
          BY <2>1, <3>6, <4>5, <4>6, Zenon
        <5>4. BehindSelection(c)'
          BY ONLY <1>1, <1>2, c \in Commands, <2>3, <2>4, <3>5, <5>2, <5>3, BehindAt
        <5> QED
          BY <2>1, <5>4
      <4>7. CASE Tail(args) = Rest(p)
        <5>1. \/ args' = Rest(p)
              \/ at' = "root" /\ \E h \in Argument : Made(h) /\ h.form = "short" /\ args' = <<h>> \o Rest(p)
          BY <2>1, <3>6, <4>5, <4>7, Zenon
        <5>2. BehindSelection(c)'
          BY ONLY <1>1, <1>2, c \in Commands, <2>3, <2>4, <3>5, <4>3, <5>1, BehindAt
        <5> QED
          BY <2>1, <5>2
      <4> QED
        BY <1>1, <2>1, <3>4, <4>6, <4>7, HeadAt
    <3>7. CASE at = c
      <4>1. args = Rest(p)
        BY <1>1, <3>4, <3>7
      <4>2. /\ p \in 1 .. Len(argv) /\ p + 1 \in 1 .. (Len(argv) + 1) /\ argv[p] \in Argument
            /\ t = argv[p] /\ Tail(args) = Rest(p + 1)
        BY <1>1, <2>1, <4>1, RestIs
      <4>3. q = p + 1
        BY <1>1, <2>1, <4>2, RestInjective
      <4>4. o \in Options /\ o \notin Flags
        <5>1. o \in Flags => o \in FlagsOf(c)
          BY ONLY <1>1, <2>1, <3>7, NamedIs
        <5>2. FlagsOf(c) = {"help"}
          BY OptionsAre
        <5> QED
          BY ONLY <2>2, <2>7, <5>1, <5>2
      <4>5. o \in Named(c, argv[p]) /\ argv[p].sub = ""
        BY <2>1, <3>7, <4>2
      <4>6. p \in Nat /\ (p + 1) + 1 = p + 2
        BY ONLY p \in 1 .. (Len(argv) + 1)
      <4>7. TookOwn(c, o, argv[p], p + 1) \/ TookNext(c, o, argv[p], p + 1)
        BY <1>9, <3>7, <4>2, <4>3, <4>4, Zenon DEF Takes, TookFlag
      <4>8. ASSUME NEW v \in Argument, v = Operand(p), results' = AddResult(c, o, v),
                   NEW p2, NEW V2, args' = Rest(p2), TakenUpTo(p, V, p2, V2)
            PROVE  BehindSelection(c)'
        <5>1. /\ Along(c, k, p2, V2) /\ NoHelpWritten(c, p2, V2)
              /\ WrittenMore(c, o, k, p, V, p2, V2)
          <6>1. /\ argv \in Seq(Tokens) /\ c \in Apps /\ p \in 1 .. Len(argv) /\ o \in Options
                /\ Along(c, k, p, V) /\ NoHelpWritten(c, p, V)
            BY <1>1, <3>5, <4>2, <4>4
          <6>2. argv[p].sub = "" /\ o \in Named(c, argv[p]) /\ TakenUpTo(p, V, p2, V2)
            BY <4>5, <4>8, Zenon
          <6> QED
            BY ONLY <6>1, <6>2, AlongTake
        <5>2. Given(c, k, p2, V2, results'[c])
          BY ONLY <1>1, <3>5, <4>4, <4>6, <4>8, <5>1, GivenTake
        <5> QED
          BY ONLY <1>1, <1>2, c \in Commands, <2>3, <2>4, <3>5, <4>8, <5>1, <5>2, BehindAt
      <4>9. CASE TookOwn(c, o, argv[p], p + 1)
        <5>1. argv[p].value # "" /\ args' = Rest(p + 1) /\ results' = AddResult(c, o, Word(argv[p].value))
          BY <4>9 DEF TookOwn
        <5>2. Word(argv[p].value) \in Argument /\ Word(argv[p].value) = Operand(p)
          <6>1. argv[p].value \in Part
            BY <4>2 DEF Argument
          <6> QED
            BY <5>1, <6>1, TokensAre DEF Operand
        <5> QED
          BY <2>1, <4>8, <5>1, <5>2 DEF TakenUpTo
      <4>10. CASE TookNext(c, o, argv[p], p + 1)
        <5>1. /\ argv[p].value = "" /\ p + 1 \in 1 .. Len(argv) /\ args' = Rest(p + 2)
              /\ argv[p + 1] \in Tokens /\ results' = AddResult(c, o, argv[p + 1])
          BY <4>6, <4>10 DEF TookNext
        <5>2. argv[p + 1] \in Argument /\ argv[p + 1] = Operand(p)
          BY <5>1, TokensAre DEF Operand
        <5> QED
          BY <2>1, <4>8, <5>1, <5>2 DEF TakenUpTo
      <4> QED
        BY <4>7, <4>9, <4>10
    <3> QED
      BY <1>1, <3>6, <3>7
  <2> QED
    BY <2>1, <2>5, <2>6, <2>7
<1> QED
  BY <1>4, <1>7, <1>8, <1>9, Zenon

LEMMA ArgvStays == ASSUME [Next]_vars PROVE argv' = argv
  BY Zenon DEF Next, Parse, Convert, PositionalMark, Terminator, _parse_subcommand,
     _parse_positional, ParseOwnArg, ParseDottedArg, ParseUnknownArg, ParseEnds,
     _process_callbacks, _process_help_flags, _process_requirements, _process_extras,
     run_callback, Done, vars

LEMMA FollowInit == Init => FollowInv
<1> SUFFICES ASSUME Init PROVE FollowInv
  OBVIOUS
<1>1. /\ argv \in Seq(Tokens) /\ args = argv /\ selected = <<>>
      /\ \A a \in Apps : \A o \in Options \cup Flags : results[a][o] = <<>>
  <2>1. argv \in Seq(Tokens)
    BY TypeInit DEF TypeInv
  <2> QED
    BY <2>1 DEF Init
<1>2. args = Rest(1) /\ 1 \in 1 .. (Len(argv) + 1)
  BY <1>1, RestFirst
<1>3. \A i \in 1 .. (1 - 1) : \A c \in Commands : Named(c, argv[i]) = {}
  <2>1. 1 .. (1 - 1) = {}
    OBVIOUS
  <2> QED
    BY <2>1
<1>4. BeforeSelection
  BY <1>1, <1>2, <1>3, Zenon DEF BeforeSelection, Apps
<1>5. \A c : selected # <<c>>
  BY <1>1
<1> QED
  BY <1>4, <1>5, Zenon DEF FollowInv

LEMMA FollowNext == TypeInv /\ SelectInv /\ FollowInv /\ [Next]_vars => FollowInv'
<1> SUFFICES ASSUME TypeInv, SelectInv, FollowInv, [Next]_vars PROVE FollowInv'
  OBVIOUS
<1>1. argv' = argv
  BY ArgvStays
<1>2. Undotted' <=> Undotted
  BY <1>1, Zenon DEF Undotted
<1>3. CASE Stays
  BY <1>1, <1>3, FollowStays
<1>4. CASE ~ Undotted
  BY <1>2, <1>4, Zenon DEF FollowInv
<1>5. CASE Undotted /\ ~ Stays /\ selected = <<>> /\ ~ positionalOnly
  <2>1. BeforeSelection
    BY <1>5, Zenon DEF FollowInv
  <2>2. /\ selected' = <<>> /\ ~ positionalOnly' => BeforeSelection'
        /\ \A c \in Commands : selected' = <<c>> => BehindSelection(c)'
    BY <1>5, <2>1, FollowBefore
  <2> QED
    BY <2>2, Zenon DEF FollowInv
<1>6. CASE Undotted /\ ~ Stays /\ selected = <<>> /\ positionalOnly
  <2>1. positionalOnly \in BOOLEAN
    BY DEF TypeInv, ParserTypes
  <2>2. selected' = <<>> /\ positionalOnly'
    <3>1. \A c : ~ Selects(c)
      BY <1>6, Zenon DEF Selects
    <3>2. \/ Leaves \/ Returns \/ Unselected \/ LeftOver
          \/ \E o, q : Takes(o, q)
      BY <1>6, <3>1, StepKinds, Zenon
    <3>3. selected' = selected
      BY <3>2 DEF Leaves, Returns, Unselected, LeftOver, Takes
    <3>4. positionalOnly' = positionalOnly \/ positionalOnly' = TRUE
      BY <3>2, Zenon DEF Leaves, Returns, Unselected, LeftOver, Takes
    <3> QED
      BY <1>6, <3>3, <3>4, Zenon
  <2>3. \A c : selected' # <<c>>
    BY <2>2
  <2> QED
    BY <2>2, <2>3, Zenon DEF FollowInv
<1>7. CASE Undotted /\ ~ Stays /\ selected # <<>>
  <2>1. selected \in Seq(Commands) /\ Len(selected) <= 1
    BY <1>7 DEF TypeInv, ParserTypes, SelectInv
  <2>2. Len(selected) = 1 /\ selected[1] \in Commands
    <3>1. selected # <<>>
      BY <1>7
    <3>2. Len(selected) \in Nat /\ Len(selected) # 0
      BY ONLY <2>1, <3>1, EmptySeq
    <3>3. Len(selected) = 1
      <4>1. \A n \in Nat : n # 0 /\ n <= 1 => n = 1
        OBVIOUS
      <4> QED
        BY ONLY <2>1, <3>2, <4>1, Zenon
    <3> QED
      BY ONLY <2>1, <3>3
  <2>3. selected = <<selected[1]>>
    BY ONLY <2>1, <2>2
  <2>4. PICK c \in Commands : selected = <<c>>
    BY <2>2, <2>3
  <2>5. BehindSelection(c)
    BY <1>7, <2>4, Zenon DEF FollowInv
  <2>6. selected' = <<c>> /\ BehindSelection(c)'
    BY <1>7, <2>4, <2>5, FollowBehind
  <2>7. selected' # <<>> /\ \A d : selected' = <<d>> => d = c
    BY <2>6
  <2> QED
    BY <2>6, <2>7, Zenon DEF FollowInv
<1> QED
  BY <1>3, <1>4, <1>5, <1>6, <1>7

\* What App::_parse has read of the command line at any moment: the subcommand
\* at its position, behind it the options with their operands, and what was put
\* into results_ is those operands in their order, unless the parse is bound to
\* fail or to show the help.
THEOREM FollowInvariant == Spec => [](ParseInv /\ FollowInv)
<1>1. Init => ParseInv /\ FollowInv
  BY TypeInit, SelectInit, StageInit, DotInit, FollowInit DEF ParseInv
<1>2. ParseInv /\ FollowInv /\ [Next]_vars => (ParseInv /\ FollowInv)'
  BY TypeNext, SelectNext, StageNext, DotNext, FollowNext DEF ParseInv
<1> QED
  BY <1>1, <1>2, PTL DEF Spec

-----------------------------------------------------------------------------
(* The command that runs.                                                  *)

\* The positions of values are determined by the command line.
LEMMA PositionsUnique ==
    ASSUME argv \in Seq(Tokens), NEW c, NEW k,
           NEW V1 \in SUBSET (1 .. Len(argv)), NEW V2 \in SUBSET (1 .. Len(argv)),
           \A i \in 1 .. Len(argv) : i \in V1 <=> ValueAt(c, k, V1, i),
           \A i \in 1 .. Len(argv) : i \in V2 <=> ValueAt(c, k, V2, i)
    PROVE  V1 = V2
<1> DEFINE n == Len(argv)
           T == {i \in 0 .. n : i \in V1 <=> i \in V2}
<1>1. n \in Nat
  BY ONLY argv \in Seq(Tokens)
<1>2. 0 \in T
  <2>1. 0 \notin 1 .. n /\ 0 \in 0 .. n
    BY <1>1
  <2> QED
    BY <2>1, Zenon
<1>3. ASSUME NEW i \in 1 .. n, i - 1 \in T PROVE i \in T
  <2>1. i \in 0 .. n
    BY <1>1
  <2>2. i - 1 \in V1 <=> i - 1 \in V2
    BY <1>3, Zenon
  <2>3. ValueAt(c, k, V1, i) <=> ValueAt(c, k, V2, i)
    BY <2>2, Zenon DEF ValueAt
  <2> QED
    BY <1>3, <2>1, <2>3, Zenon
<1> HIDE DEF T
<1>4. \A i \in 0 .. n : i \in T
  BY ONLY <1>1, <1>2, <1>3, IntervalInd
<1>5. \A i \in 1 .. n : i \in V1 <=> i \in V2
  <2>1. \A i \in 1 .. n : i \in 0 .. n
    BY <1>1
  <2> QED
    BY <1>4, <2>1, Zenon DEF T
<1> QED
  BY <1>5, Zenon

\* Behind the last argument they are the ones that the command line determines.
LEMMA AlongAll ==
    ASSUME argv \in Seq(Tokens), NEW c, NEW k, NEW V, Along(c, k, Len(argv) + 1, V)
    PROVE  /\ ValuePositions(c, k) = V
           /\ \A o : Written(c, o, k, V) = WrittenBefore(c, o, k, Len(argv) + 1, V)
           /\ NoHelpWritten(c, Len(argv) + 1, V) =>
                 \A i \in DOMAIN argv \ V : argv[i].sub = "" => "help" \notin Named(c, argv[i])
<1>1. Len(argv) \in Nat /\ DOMAIN argv = 1 .. Len(argv)
  BY ONLY argv \in Seq(Tokens)
<1>2. (Len(argv) + 1) - 1 = Len(argv) /\ 1 .. Len(argv) \subseteq 1 .. (Len(argv) + 1)
  BY ONLY <1>1
<1>3. /\ V \in SUBSET (1 .. Len(argv))
      /\ \A i \in 1 .. Len(argv) : i \in V <=> ValueAt(c, k, V, i)
  BY <1>2, Zenon DEF Along
<1> DEFINE P(U) == \A i \in DOMAIN argv : i \in U <=> ValueAt(c, k, U, i)
<1>4. ValuePositions(c, k) = CHOOSE U \in SUBSET DOMAIN argv : P(U)
  BY DEF ValuePositions, ValueAt
<1>5. V \in SUBSET DOMAIN argv /\ P(V)
  BY <1>1, <1>3, Zenon
<1>6. ASSUME NEW U \in SUBSET DOMAIN argv, P(U) PROVE U = V
  BY ONLY argv \in Seq(Tokens), <1>1, <1>3, <1>6, PositionsUnique
<1> HIDE DEF P
<1>7. ValuePositions(c, k) = V
  BY <1>4, <1>5, <1>6
<1>8. ASSUME NEW o PROVE Written(c, o, k, V) = WrittenBefore(c, o, k, Len(argv) + 1, V)
  BY <1>1, <1>2, Zenon DEF Written, WrittenBefore
<1>9. ASSUME NoHelpWritten(c, Len(argv) + 1, V)
      PROVE  \A i \in DOMAIN argv \ V : argv[i].sub = "" => "help" \notin Named(c, argv[i])
  BY <1>1, <1>2, <1>9, Zenon DEF NoHelpWritten
<1> QED
  BY <1>7, <1>8, <1>9, Zenon

\* The results of an option and the places where it is written.
LEMMA EnumeratedOnce ==
    ASSUME NEW s, NEW W, NEW r \in Seq(Argument), Enumerates(s, W, r)
    PROVE  /\ W = {} => r = <<>>
           /\ W # {} => r # <<>>
           /\ W # {} /\ ~ TooMany(r) =>
                 \E i \in W : WrittenOnce(W, i) /\ r[1] = Operand(i)
<1>1. /\ s \in Seq(Nat) /\ Len(s) = Len(r) /\ Len(s) \in Nat
      /\ \A m \in 1 .. Len(s) : s[m] \in W /\ r[m] = Operand(s[m])
      /\ \A i \in W : \E m \in 1 .. Len(s) : s[m] = i
      /\ \A m, n \in 1 .. Len(s) : m < n => s[m] < s[n]
  <2>1. s \in Seq(Nat)
    BY Zenon DEF Enumerates
  <2>2. Len(s) \in Nat
    BY ONLY <2>1
  <2> QED
    BY <2>1, <2>2, Zenon DEF Enumerates
<1> DEFINE l == Len(s)
<1>2. l \in Nat /\ Len(r) = l /\ (r = <<>> <=> l = 0)
  <2>1. r = <<>> <=> Len(r) = 0
    BY ONLY r \in Seq(Argument), EmptySeq
  <2> QED
    BY <1>1, <2>1
<1> HIDE DEF l
<1>3. ASSUME l # 0 PROVE 1 \in 1 .. l
  BY ONLY <1>2, <1>3
<1>4. ASSUME W = {} PROVE r = <<>>
  BY <1>1, <1>2, <1>3, <1>4 DEF l
<1>5. ASSUME W # {} PROVE l # 0
  <2>1. PICK i \in W : \E m \in 1 .. l : s[m] = i
    BY <1>1, <1>5 DEF l
  <2>2. PICK m \in 1 .. l : s[m] = i
    BY <2>1
  <2> QED
    BY ONLY <1>2, <2>2
<1>6. ASSUME W # {}, ~ TooMany(r)
      PROVE  \E i \in W : WrittenOnce(W, i) /\ r[1] = Operand(i)
  <2>1. l # 0 /\ 1 \in 1 .. l
    BY <1>3, <1>5, <1>6
  <2>2. s[1] \in W /\ r[1] = Operand(s[1])
    BY <1>1, <2>1 DEF l
  <2>3. CASE ~ (Len(r) > 1)
    <3>1. \A m \in Nat : m # 0 /\ ~ (m > 1) => m = 1
      OBVIOUS
    <3>2. l = 1
      BY ONLY <1>2, <2>1, <2>3, <3>1
    <3>3. \A m \in 1 .. 1 : m = 1
      OBVIOUS
    <3>4. \A i \in W : i = s[1]
      BY <1>1, <3>2, <3>3 DEF l
    <3>5. W = {s[1]}
      BY ONLY <2>2, <3>4
    <3> QED
      BY <2>2, <3>5, Zenon DEF WrittenOnce
  <2>4. CASE r = <<Word("{}"), Word("%%")>>
    <3>1. Len(r) = 2 /\ r[1] = Word("{}") /\ r[2] = Word("%%")
      BY <2>4
    <3>2. l = 2
      BY <1>2, <3>1
    <3>3. /\ 1 \in 1 .. 2 /\ 2 \in 1 .. 2 /\ 1 < 2
          /\ \A m \in 1 .. 2 : m = 1 \/ m = 2
      OBVIOUS
    <3>4. /\ s[2] \in W /\ r[2] = Operand(s[2]) /\ s[1] < s[2]
          /\ \A i \in W : i = s[1] \/ i = s[2]
      BY <1>1, <3>2, <3>3, Zenon DEF l
    <3>5. W = {s[1], s[2]}
      BY ONLY <2>2, <3>4
    <3>6. Operand(s[1]) = Word("{}") /\ Operand(s[2]) = Word("%%")
      BY <2>2, <3>1, <3>4
    <3> QED
      BY <2>2, <3>4, <3>5, <3>6, Zenon DEF WrittenOnce
  <2> QED
    BY <1>6, <2>3, <2>4 DEF TooMany
<1> QED
  BY <1>2, <1>4, <1>5, <1>6

\* When a command has run, the command line has been read to its end.
LEMMA RanAll ==
    ASSUME ParseInv, FollowInv, Undotted, NEW n \in DOMAIN ran, NEW c, c = ran[n].cmd
    PROVE  /\ c \in Commands /\ parsed[c] > 0 /\ ran[n].given = value
           /\ ValuesTaken /\ Missing(c) = {}
           /\ \A d \in Commands : \A o \in Options \cup Flags : d # c => results[d][o] = <<>>
           /\ \E k \in 1 .. Len(argv) : \E V : Following(c, k, Len(argv) + 1, V)
<1>1. outcome = "returned"
  <2>1. outcome # "returned" => ran = <<>>
    BY DEF ParseInv, StageInv
  <2>2. ran # <<>>
    OBVIOUS
  <2> QED
    BY <2>1, <2>2
<1>2. args = <<>> /\ ValuesTaken /\ NoHelp /\ NoneMissing /\ NoExtras /\ RanParsed
  BY <1>1, Zenon DEF ParseInv, StageInv, Past
<1>3. c \in Commands /\ parsed[c] > 0 /\ ran[n].given = value
  BY <1>2, Zenon DEF RanParsed
<1>4. selected = <<c>>
  <2>1. selected \in Seq(Commands) /\ Len(selected) <= 1 /\ selected # <<>>
    BY <1>2, Zenon DEF ParseInv, TypeInv, ParserTypes, SelectInv, NoneMissing
  <2>2. Len(selected) \in Nat /\ Len(selected) # 0
    BY ONLY <2>1, EmptySeq
  <2>3. \A m \in Nat : m # 0 /\ m <= 1 => m = 1
    OBVIOUS
  <2>4. Len(selected) = 1
    BY ONLY <2>1, <2>2, <2>3, Zenon
  <2>5. c = selected[1]
    BY <1>3, <2>1, Zenon DEF ParseInv, SelectInv
  <2> QED
    BY ONLY <2>1, <2>4, <2>5
<1>5. BehindSelection(c)
  BY <1>3, <1>4, Zenon DEF FollowInv
<1>6. ~ Doomed(c)
  <2>1. ~ Refused("root")
    BY <1>2, Zenon DEF Refused, NoHelp, NoExtras
  <2>2. results[c]["help"] = <<>>
    <3>1. 1 \in DOMAIN selected /\ selected[1] = c
      BY <1>4
    <3> QED
      BY <1>2, <3>1, Zenon DEF NoHelp
  <2>3. ~ Refused(c)
    BY <1>2, <1>3, <2>2, Zenon DEF Refused, NoExtras
  <2> QED
    BY <1>2, <2>1, <2>3, Zenon DEF Doomed
<1>7. argv \in Seq(Tokens)
  BY Zenon DEF ParseInv, TypeInv
<1>8. PICK k \in 1 .. Len(argv) : \E p \in 1 .. (Len(argv) + 1) : \E V \in SUBSET (1 .. Len(argv)) :
         /\ Following(c, k, p, V)
         /\ args = Rest(p) \/ (at = "root" /\ ShortAt(p))
  BY <1>5, <1>6, Zenon DEF BehindSelection
<1>9. PICK p \in 1 .. (Len(argv) + 1) : \E V \in SUBSET (1 .. Len(argv)) :
         /\ Following(c, k, p, V)
         /\ args = Rest(p) \/ (at = "root" /\ ShortAt(p))
  BY <1>8
<1>10. PICK V \in SUBSET (1 .. Len(argv)) :
         /\ Following(c, k, p, V)
         /\ args = Rest(p) \/ (at = "root" /\ ShortAt(p))
  BY <1>9
<1>11. ~ ShortAt(p)
  <2> SUFFICES ASSUME ShortAt(p) PROVE FALSE
    OBVIOUS
  <2>1. PICK h \in Argument : args = <<h>> \o Rest(p)
    BY DEF ShortAt
  <2>2. Rest(p) \in Seq(Argument)
    BY <1>7, RestIs
  <2>3. args # <<>>
    BY ONLY <2>1, <2>2, InFront
  <2> QED
    BY <1>2, <2>3
<1>12. p = Len(argv) + 1
  <2>1. Rest(p) = <<>>
    BY <1>2, <1>10, <1>11
  <2> QED
    BY <1>7, <2>1, RestIs
<1>13. Missing(c) = {}
  BY <1>2, <1>3, Zenon DEF NoneMissing
<1> QED
  BY <1>2, <1>3, <1>5, <1>10, <1>12, <1>13, Zenon DEF BehindSelection

\* The variable of an option of the command that runs: what results_ begins with.
LEMMA ValueGiven ==
    ASSUME ValuesTaken, NEW c \in Commands, NEW o \in OptionsOf(c), Missing(c) = {},
           \A d \in Commands : \A u \in Options \cup Flags : d # c => results[d][u] = <<>>
    PROVE  /\ results[c][o] = <<>> => o \notin Required(c) /\ value[o] = DefaultValue[o]
           /\ results[c][o] # <<>> => value[o] = results[c][o][1]
           /\ ~ TooMany(results[c][o])
<1>1. o \in Options /\ c \in Apps
  BY OptionsAre DEF Apps
<1>2. \A i \in Assigned(o) : CommandOrder[i] = c /\ results[c][o] # <<>>
  <2> SUFFICES ASSUME NEW i \in Assigned(o) PROVE CommandOrder[i] = c /\ results[c][o] # <<>>
    OBVIOUS
  <2>1. CommandOrder[i] \in Commands /\ results[CommandOrder[i]][o] # <<>>
    BY Zenon DEF Assigned, Commands
  <2> QED
    BY <1>1, <2>1
<1>3. results[c][o] # <<>> => Assigned(o) # {}
  <2>1. PICK i \in DOMAIN CommandOrder : c = CommandOrder[i]
    BY Zenon DEF Commands
  <2> QED
    BY <2>1, Zenon DEF Assigned
<1>4. \/ Assigned(o) = {} /\ value[o] = DefaultValue[o]
      \/ \E i \in Assigned(o) : value[o] = results[CommandOrder[i]][o][1]
  BY <1>1, Zenon DEF ValuesTaken
<1>5. results[c][o] = <<>> => o \notin Required(c)
  BY DEF Missing
<1>6. ~ TooMany(results[c][o])
  BY Zenon DEF ValuesTaken
<1>7. results[c][o] = <<>> => Assigned(o) = {}
  BY <1>2
<1> QED
  BY <1>2, <1>3, <1>4, <1>5, <1>6, <1>7, Zenon

LEMMA AsWritten == ParseInv /\ FollowInv => CommandAsWritten
<1> SUFFICES ASSUME ParseInv, FollowInv, Undotted, NEW n \in DOMAIN ran, NEW c, c = ran[n].cmd
             PROVE  \E k \in DOMAIN argv :
               /\ argv[k] = Word(c)
               /\ LET V == ValuePositions(c, k)
                  IN  /\ \A o \in OptionsOf(c) :
                            LET W == Written(c, o, k, V)
                            IN  IF W = {}
                                THEN /\ o \notin Required(c)
                                     /\ ran[n].given[o] = DefaultValue[o]
                                ELSE \E i \in W : /\ WrittenOnce(W, i)
                                                  /\ ran[n].given[o] = Operand(i)
                      /\ \A i \in DOMAIN argv \ V :
                            argv[i].sub = "" => "help" \notin Named(c, argv[i])
  BY DEF CommandAsWritten
<1>1. /\ c \in Commands /\ parsed[c] > 0 /\ ran[n].given = value
      /\ ValuesTaken /\ Missing(c) = {}
      /\ \A d \in Commands : \A o \in Options \cup Flags : d # c => results[d][o] = <<>>
      /\ \E k \in 1 .. Len(argv) : \E V : Following(c, k, Len(argv) + 1, V)
  <2>1. ParseInv /\ FollowInv /\ Undotted /\ n \in DOMAIN ran /\ c = ran[n].cmd
    OBVIOUS
  <2>2. c \in Commands /\ parsed[c] > 0 /\ ran[n].given = value /\ ValuesTaken
    BY ONLY <2>1, RanAll
  <2>3. Missing(c) = {}
    BY ONLY <2>1, RanAll
  <2>4. \A d \in Commands : \A o \in Options \cup Flags : d # c => results[d][o] = <<>>
    BY ONLY <2>1, RanAll
  <2>5. \E k \in 1 .. Len(argv) : \E V : Following(c, k, Len(argv) + 1, V)
    BY ONLY <2>1, RanAll
  <2> QED
    BY <2>2, <2>3, <2>4, <2>5
<1>2. PICK k \in 1 .. Len(argv) : \E V : Following(c, k, Len(argv) + 1, V)
  BY <1>1
<1>3. PICK V : Following(c, k, Len(argv) + 1, V)
  BY <1>2
<1> DEFINE p == Len(argv) + 1
<1>4. /\ argv[k] = Word(c) /\ Along(c, k, p, V)
      /\ Given(c, k, p, V, results[c]) /\ NoHelpWritten(c, p, V)
  BY <1>3, Zenon DEF Following
<1>5. argv \in Seq(Tokens) /\ results \in ResultsType
  BY Zenon DEF ParseInv, TypeInv, ResultTypes
<1>6. /\ ValuePositions(c, k) = V
      /\ \A o : Written(c, o, k, V) = WrittenBefore(c, o, k, p, V)
      /\ \A i \in DOMAIN argv \ V : argv[i].sub = "" => "help" \notin Named(c, argv[i])
  BY ONLY <1>4, <1>5, AlongAll
<1>7. k \in DOMAIN argv
  BY <1>5
<1> HIDE DEF p
<1>8. ASSUME NEW o \in OptionsOf(c)
      PROVE  LET W == Written(c, o, k, V)
             IN  IF W = {}
                 THEN o \notin Required(c) /\ ran[n].given[o] = DefaultValue[o]
                 ELSE \E i \in W : WrittenOnce(W, i) /\ ran[n].given[o] = Operand(i)
  <2> DEFINE r == results[c][o]
             W == Written(c, o, k, V)
  <2>1. W = WrittenBefore(c, o, k, p, V)
    BY <1>6, Zenon
  <2>2. PICK s : Enumerates(s, W, r)
    BY <1>4, <2>1, Zenon DEF Given
  <2>3. r \in Seq(Argument)
    <3>1. c \in Apps /\ o \in Options \cup Flags
      BY <1>1, OptionsAre DEF Apps
    <3> QED
      BY <1>5, <3>1 DEF ResultsType
  <2>4. /\ r = <<>> => o \notin Required(c) /\ value[o] = DefaultValue[o]
        /\ r # <<>> => value[o] = r[1]
        /\ ~ TooMany(r)
    BY <1>1, ValueGiven
  <2> HIDE DEF r, W
  <2>5. /\ W = {} => r = <<>>
        /\ W # {} => r # <<>>
        /\ W # {} /\ ~ TooMany(r) => \E i \in W : WrittenOnce(W, i) /\ r[1] = Operand(i)
    BY ONLY <2>2, <2>3, EnumeratedOnce
  <2>6. IF W = {}
        THEN o \notin Required(c) /\ ran[n].given[o] = DefaultValue[o]
        ELSE \E i \in W : WrittenOnce(W, i) /\ ran[n].given[o] = Operand(i)
    BY <1>1, <2>4, <2>5, Zenon
  <2> QED
    BY <2>6 DEF W
<1>9. LET U == ValuePositions(c, k)
      IN  /\ \A o \in OptionsOf(c) :
                LET W == Written(c, o, k, U)
                IN  IF W = {}
                    THEN o \notin Required(c) /\ ran[n].given[o] = DefaultValue[o]
                    ELSE \E i \in W : WrittenOnce(W, i) /\ ran[n].given[o] = Operand(i)
          /\ \A i \in DOMAIN argv \ U : argv[i].sub = "" => "help" \notin Named(c, argv[i])
  <2>1. \A o \in OptionsOf(c) :
           LET W == Written(c, o, k, V)
           IN  IF W = {}
               THEN o \notin Required(c) /\ ran[n].given[o] = DefaultValue[o]
               ELSE \E i \in W : WrittenOnce(W, i) /\ ran[n].given[o] = Operand(i)
    BY <1>8, Zenon
  <2> QED
    BY ONLY <1>6, <2>1, Zenon
<1> QED
  BY <1>4, <1>7, <1>9, Zenon

\* Without options written through the name of a subcommand, a command that runs
\* was written on the command line, is given the operands of its options as they
\* were written and the defaults of the others, and has every required option:
\* App::_parse_arg, Option::_reduce_results and App::_process_requirements over
\* the application of Admin::Parse, for every command line.
THEOREM CommandAsWrittenAlways == Spec => []CommandAsWritten
<1>1. ParseInv /\ FollowInv => CommandAsWritten
  BY AsWritten
<1> QED
  BY <1>1, FollowInvariant, PTL

-----------------------------------------------------------------------------
(* The plain form.                                                         *)

\* The positions of values exist: they are found from left to right.
LEMMA PositionsExist ==
    ASSUME argv \in Seq(Tokens), NEW c, NEW k \in Nat, NEW V, V = ValuePositions(c, k)
    PROVE  /\ V \in SUBSET (1 .. Len(argv))
           /\ \A i \in 1 .. Len(argv) : i \in V <=> ValueAt(c, k, V, i)
<1> DEFINE n == Len(argv)
           B == {0, 1}
           takes(i) == /\ i - 1 > k /\ argv[i - 1].value = "" /\ argv[i - 1].sub = ""
                       /\ Named(c, argv[i - 1]) \cap Options # {}
           F == [i \in 1 .. n |-> [b \in B |-> IF b = 0 /\ takes(i) THEN 1 ELSE 0]]
<1>1. n \in Nat /\ DOMAIN argv = 1 .. n
  BY ONLY argv \in Seq(Tokens)
<1> HIDE DEF takes
<1>2. /\ F \in [1 .. n -> [B -> B]] /\ 0 \in B
      /\ \A i \in 1 .. n : \A b \in B : F[i][b] = IF b = 0 /\ takes(i) THEN 1 ELSE 0
  OBVIOUS
<1> HIDE DEF n, B, F
<1>3. PICK g : Run(F, 0, B, n, g)
  <2>1. Runs(F, 0, B, n)
    BY ONLY <1>1, <1>2, RunsExist
  <2> QED
    BY <2>1 DEF Runs
<1>4. g \in [0 .. n -> B] /\ g[0] = 0 /\ \A i \in 1 .. n : g[i] = F[i][g[i - 1]]
  BY <1>3 DEF Run
<1> DEFINE U == {i \in 1 .. n : g[i] = 1}
<1>5. ASSUME NEW i \in 1 .. n PROVE i \in U <=> ValueAt(c, k, U, i)
  <2>1. i - 1 \in 0 .. n /\ (i - 1 > k => i - 1 \in 1 .. n)
    BY <1>1
  <2>2. g[i - 1] \in B /\ g[i] = IF g[i - 1] = 0 /\ takes(i) THEN 1 ELSE 0
    BY <1>2, <1>4, <2>1
  <2>3. i \in U <=> g[i - 1] = 0 /\ takes(i)
    BY <2>2
  <2>4. ASSUME takes(i) PROVE g[i - 1] = 0 <=> i - 1 \notin U
    <3>1. i - 1 \in 1 .. n
      BY <2>1, <2>4 DEF takes
    <3> QED
      BY <2>2, <3>1 DEF B
  <2>5. i \in U <=> i - 1 \notin U /\ takes(i)
    BY <2>3, <2>4, Zenon
  <2> HIDE DEF U
  <2> QED
    BY <2>5, Zenon DEF ValueAt, takes
<1> DEFINE P(W) == \A i \in DOMAIN argv : i \in W <=> ValueAt(c, k, W, i)
<1>6. ValuePositions(c, k) = CHOOSE W \in SUBSET DOMAIN argv : P(W)
  BY DEF ValuePositions, ValueAt
<1>7. U \in SUBSET DOMAIN argv
  BY <1>1
<1> HIDE DEF U
<1>8. P(U)
  BY <1>1, <1>5, Zenon
<1> HIDE DEF P
<1>9. V \in SUBSET DOMAIN argv /\ P(V)
  BY <1>6, <1>7, <1>8
<1> QED
  BY <1>1, <1>9, Zenon DEF P, n

\* The position behind the option at p and its operand.
Behind(p) == IF argv[p].value # "" THEN p + 1 ELSE p + 2

\* In the plain form an option stands where no value does.
LEMMA PlainAt ==
    ASSUME argv \in Seq(Tokens), NEW c \in Commands, Plain(c), NEW V, V = ValuePositions(c, 1),
           NEW p \in 2 .. Len(argv), p \notin V
    PROVE  \E o \in OptionsOf(c) :
              /\ argv[p].sub = "" /\ o \in Named(c, argv[p])
              /\ argv[p].value = "" => p < Len(argv)
              /\ Behind(p) \in 2 .. (Len(argv) + 1) /\ Behind(p) \notin V
              /\ WrittenMore(c, o, 1, p, V, Behind(p), V)
<1>1. Len(argv) \in Nat /\ DOMAIN argv = 1 .. Len(argv)
  BY ONLY argv \in Seq(Tokens)
<1>2. /\ V \in SUBSET (1 .. Len(argv))
      /\ \A i \in 1 .. Len(argv) : i \in V <=> ValueAt(c, 1, V, i)
  <2>1. 1 \in Nat
    OBVIOUS
  <2> QED
    BY ONLY <2>1, argv \in Seq(Tokens), V = ValuePositions(c, 1), PositionsExist
<1>3. /\ \E o \in OptionsOf(c) : p \in Written(c, o, 1, V)
      /\ argv[p].value = "" => p < Len(argv)
  BY Zenon DEF Plain
<1>4. PICK o \in OptionsOf(c) : p \in Written(c, o, 1, V)
  BY <1>3
<1>5. argv[p].sub = "" /\ o \in Named(c, argv[p])
  BY <1>4, Zenon DEF Written
<1>6. c \in Apps /\ o \in Options
  BY OptionsAre DEF Apps
<1>7. Named(c, argv[p]) = {o}
  BY ONLY <1>5, <1>6, NamedIs
<1>8. /\ p \in 1 .. Len(argv) /\ 1 < p /\ 1 \in 1 .. Len(argv)
      /\ p - 1 \in Nat /\ p + 1 \in Nat /\ p + 2 \in Nat
  BY ONLY <1>1, p \in 2 .. Len(argv)
<1>9. /\ (p + 1) - 1 = p /\ (p + 2) - 1 = p + 1 /\ p > 1 /\ p + 1 > 1 /\ p \notin 1 .. (p - 1)
      /\ 1 .. p = (1 .. (p - 1)) \cup {p} /\ 1 .. (p + 1) = (1 .. p) \cup {p + 1}
      /\ p + 1 \in 2 .. (Len(argv) + 1)
  BY ONLY <1>1, p \in 2 .. Len(argv)
<1>10. CASE argv[p].value # ""
  <2>1. Behind(p) = p + 1
    BY <1>10 DEF Behind
  <2>2. p + 1 \notin V
    <3>1. ~ ValueAt(c, 1, V, p + 1)
      <4>1. argv[(p + 1) - 1] = argv[p]
        BY <1>9, Zenon
      <4> QED
        BY <1>10, <4>1, Zenon DEF ValueAt
    <3> QED
      BY <1>2, <3>1, Zenon
  <2>3. \A i : i \in 1 .. ((p + 1) - 1) <=> i \in 1 .. (p - 1) \/ i = p
    BY <1>9, Zenon
  <2>4. WrittenBefore(c, o, 1, p + 1, V) = WrittenBefore(c, o, 1, p, V) \cup {p}
    BY <1>5, <1>9, <2>3, Zenon DEF WrittenBefore
  <2>5. ASSUME NEW u, u # o PROVE WrittenBefore(c, u, 1, p + 1, V) = WrittenBefore(c, u, 1, p, V)
    BY <1>7, <1>9, <2>3, <2>5, Zenon DEF WrittenBefore
  <2>6. WrittenMore(c, o, 1, p, V, p + 1, V)
    BY <2>4, <2>5, Zenon DEF WrittenMore
  <2> QED
    BY <1>3, <1>5, <1>9, <2>1, <2>2, <2>6, Zenon
<1>11. CASE argv[p].value = ""
  <2>1. Behind(p) = p + 2
    BY <1>11 DEF Behind
  <2>2. p < Len(argv)
    BY <1>3, <1>11
  <2>3. p + 1 \in 1 .. Len(argv) /\ p + 2 \in 2 .. (Len(argv) + 1)
    BY ONLY <1>1, <2>2, p \in 2 .. Len(argv)
  <2>4. p + 1 \in V
    <3>1. argv[(p + 1) - 1] = argv[p]
      BY <1>9, Zenon
    <3>2. Named(c, argv[p]) \cap Options # {}
      BY <1>6, <1>7
    <3>3. ValueAt(c, 1, V, p + 1)
      BY <1>5, <1>9, <1>11, <3>1, <3>2, Zenon DEF ValueAt
    <3> QED
      BY <1>2, <2>3, <3>3, Zenon
  <2>5. p + 2 \notin V
    <3>1. ~ ValueAt(c, 1, V, p + 2)
      BY <1>9, <2>4, Zenon DEF ValueAt
    <3> QED
      BY <1>2, <3>1, Zenon
  <2>6. \A i : i \in 1 .. ((p + 2) - 1) <=> i \in 1 .. (p - 1) \/ i = p \/ i = p + 1
    BY <1>9, Zenon
  <2>7. WrittenBefore(c, o, 1, p + 2, V) = WrittenBefore(c, o, 1, p, V) \cup {p}
    BY <1>5, <1>9, <2>4, <2>6, Zenon DEF WrittenBefore
  <2>8. ASSUME NEW u, u # o PROVE WrittenBefore(c, u, 1, p + 2, V) = WrittenBefore(c, u, 1, p, V)
    BY <1>7, <1>9, <2>4, <2>6, <2>8, ZenonT(60) DEF WrittenBefore
  <2>9. WrittenMore(c, o, 1, p, V, p + 2, V)
    BY <2>7, <2>8, Zenon DEF WrittenMore
  <2> QED
    BY <1>3, <1>5, <2>1, <2>3, <2>5, <2>9, Zenon
<1> QED
  BY <1>10, <1>11, Zenon

\* Behind the last argument no option has too many results, and no required one
\* is missing.
LEMMA PlainGiven ==
    ASSUME argv \in Seq(Tokens), results \in ResultsType, NEW c \in Commands, Plain(c),
           NEW V, V = ValuePositions(c, 1), Given(c, 1, Len(argv) + 1, V, results[c])
    PROVE  Missing(c) = {} /\ \A o \in OptionsOf(c) : ~ TooMany(results[c][o])
<1>1. Len(argv) \in Nat /\ DOMAIN argv = 1 .. Len(argv)
  BY ONLY argv \in Seq(Tokens)
<1>2. (Len(argv) + 1) - 1 = Len(argv)
  BY ONLY <1>1
<1>3. ASSUME NEW o \in OptionsOf(c)
      PROVE  (o \in Required(c) => results[c][o] # <<>>) /\ ~ TooMany(results[c][o])
  <2> DEFINE W == Written(c, o, 1, V)
             r == results[c][o]
  <2>1. Cardinality(W) <= 1 /\ (o \in Required(c) => W # {})
    BY Zenon DEF Plain
  <2>2. W = WrittenBefore(c, o, 1, Len(argv) + 1, V)
    BY <1>1, <1>2, Zenon DEF Written, WrittenBefore
  <2>3. PICK s : Enumerates(s, W, r)
    BY <2>2, Zenon DEF Given
  <2>4. r \in Seq(Argument)
    <3>1. c \in Apps /\ o \in Options \cup Flags
      BY OptionsAre DEF Apps
    <3> QED
      BY <3>1 DEF ResultsType
  <2>5. W \in SUBSET (1 .. Len(argv))
    BY <1>1 DEF Written
  <2> HIDE DEF W, r
  <2>6. W # {} => r # <<>>
    BY ONLY <2>3, <2>4, EnumeratedOnce
  <2>7. ~ (Len(r) > 1)
    <3> SUFFICES ASSUME Len(r) > 1 PROVE FALSE
      OBVIOUS
    <3>1. /\ Len(s) = Len(r) /\ s \in Seq(Nat)
          /\ \A m \in 1 .. Len(s) : s[m] \in W
          /\ \A m, n \in 1 .. Len(s) : m < n => s[m] < s[n]
      BY <2>3, Zenon DEF Enumerates
    <3>2. \A l \in Nat : l > 1 => 1 \in 1 .. l /\ 2 \in 1 .. l
      OBVIOUS
    <3>3. Len(s) \in Nat
      BY ONLY <3>1
    <3>4. 1 \in 1 .. Len(s) /\ 2 \in 1 .. Len(s) /\ 1 < 2
      BY <3>1, <3>2, <3>3
    <3>5. s[1] \in W /\ s[2] \in W /\ s[1] < s[2] /\ s[1] \in Nat /\ s[2] \in Nat
      BY <3>1, <3>4
    <3>6. s[1] # s[2]
      BY ONLY <3>5
    <3>7. IsFiniteSet(W)
      <4>1. IsFiniteSet(1 .. Len(argv))
        BY <1>1, FS_Interval
      <4> QED
        BY <2>5, <4>1, FS_Subset
    <3>8. IsFiniteSet({s[1]}) /\ Cardinality({s[1]}) = 1
      BY FS_Singleton
    <3> DEFINE pair == {s[1]} \cup {s[2]}
    <3>9. Cardinality(pair) = 2
      <4>1. s[2] \notin {s[1]}
        BY <3>6
      <4>2. Cardinality(pair) = Cardinality({s[1]}) + 1
        BY <3>8, <4>1, FS_AddElement
      <4> QED
        BY <3>8, <4>2
    <3>10. pair \in SUBSET W
      BY <3>5
    <3> HIDE DEF pair
    <3>11. Cardinality(pair) <= Cardinality(W) /\ Cardinality(W) \in Nat
      BY <3>7, <3>10, FS_Subset, FS_CardinalityType
    <3> QED
      BY ONLY <2>1, <3>9, <3>11
  <2> QED
    BY <2>1, <2>6, <2>7 DEF TooMany, r
<1>4. \A o \in Required(c) : o \in OptionsOf(c)
  BY DEF Required
<1> QED
  BY <1>3, <1>4 DEF Missing

\* Before the subcommand is read.
PlainStart ==
    /\ pc \in {"convert", "parse"} /\ args = argv /\ at = "root" /\ positionalOnly = FALSE
    /\ selected = <<>> /\ extras = {}
    /\ \A d \in Commands : parsed[d] = 0
    /\ \A a \in Apps : \A o \in Options \cup Flags : results[a][o] = <<>>

\* The subcommand has been read, and the options before p.
PlainPart(c) ==
    /\ at = c /\ selected = <<c>> /\ extras = {} /\ parsed[c] > 0
    /\ \A d \in Commands : d # c => parsed[d] = 0
    /\ \A a \in Apps : \A o \in Options \cup Flags :
          a # c \/ o \in Flags => results[a][o] = <<>>

PlainRest(c) ==
    \E p \in 2 .. (Len(argv) + 1) : \E V :
        /\ V = ValuePositions(c, 1) /\ args = Rest(p) /\ p \notin V
        /\ Given(c, 1, p, V, results[c])

\* The parser reads a command line in the plain form from left to right, and no
\* stage refuses it.
PlainInv(c) ==
    Plain(c) =>
        \/ PlainStart
        \/ /\ PlainPart(c) /\ PlainRest(c) /\ pc # "convert"
           /\ pc = "done" => Len(ran) = 1 /\ ran[1].cmd = c

LEMMA PlainPrime ==
    ASSUME argv' = argv, NEW c
    PROVE  (Plain(c)' <=> Plain(c)) /\ ValuePositions(c, 1)' = ValuePositions(c, 1)
<1>1. ValuePositions(c, 1)' = ValuePositions(c, 1)
  BY DEF ValuePositions, Named
<1>2. Plain(c)' <=> Plain(c)
  BY DEF Plain, Written, ValuePositions, Named
<1> QED
  BY <1>1, <1>2

LEMMA PlainRestAt ==
    ASSUME argv' = argv, NEW c, NEW p \in 2 .. (Len(argv) + 1), NEW V, V = ValuePositions(c, 1),
           args' = Rest(p), p \notin V, Given(c, 1, p, V, results'[c])
    PROVE  PlainRest(c)'
<1>1. Given(c, 1, p, V, results[c])'
  BY ONLY argv' = argv, Given(c, 1, p, V, results'[c]), GivenPrime
<1>2. V = ValuePositions(c, 1)'
  BY PlainPrime
<1>3. args' = Rest(p)'
  BY RestPrime
<1> QED
  BY <1>1, <1>2, <1>3, Zenon DEF PlainRest

\* The name of the subcommand is read.
LEMMA PlainFirst ==
    ASSUME ParseInv, NEW c \in Commands, Plain(c), PlainStart, [Next]_vars
    PROVE  PlainStart' \/ (PlainPart(c)' /\ PlainRest(c)' /\ pc' = "parse")
<1> USE DEF Throw
<1>1. /\ argv \in Seq(Tokens) /\ parsed \in [Apps -> Nat] /\ selected = <<>> /\ argv' = argv
      /\ selected \in Seq(Commands)
      /\ c \in Apps /\ Commands \subseteq Apps /\ "root" \in Apps /\ "root" \notin Commands
      /\ "" \notin Commands
  BY ArgvStays, CommandsAre DEF ParseInv, TypeInv, ParserTypes, PlainStart, Apps
<1>2. /\ args # <<>> /\ Head(args) = Word(c) /\ Tail(args) = Rest(2)
      /\ 1 \in 1 .. Len(argv) /\ 2 \in 2 .. (Len(argv) + 1)
  <2>1. args = Rest(1) /\ 1 \in 1 .. (Len(argv) + 1) /\ Rest(1) # <<>> /\ argv[1] = Word(c)
    BY <1>1, RestFirst, Zenon DEF PlainStart, Plain
  <2>2. 1 \in 1 .. Len(argv) /\ Head(Rest(1)) = argv[1] /\ Tail(Rest(1)) = Rest(1 + 1)
    BY <1>1, <2>1, RestIs
  <2>3. Len(argv) \in Nat
    <3>1. argv \in Seq(Tokens)
      BY <1>1
    <3> QED
      BY ONLY <3>1
  <2>4. 2 \in 2 .. (Len(argv) + 1) /\ 1 + 1 = 2
    BY ONLY <2>2, <2>3
  <2> QED
    BY <2>1, <2>2, <2>4
<1> DEFINE t == Head(args)
<1>3. t.form = "word" /\ t.sub = "" /\ t.name = c
  <2>1. Word(c).form = "word" /\ Word(c).sub = "" /\ Word(c).name = c
    BY DEF Word
  <2> QED
    BY <1>2, <2>1, Zenon
<1>4. _valid_subcommand(t)
  <2>1. MoreSubcommands
    BY <1>1, MoreIs
  <2> QED
    BY <1>3, <2>1 DEF _valid_subcommand, _find_subcommand, PlainStart
<1>5. ~ DottedSubcommand(t)
  BY <1>1, <1>3 DEF DottedSubcommand, _find_subcommand, Word
<1>6. at = "root" /\ ~ positionalOnly /\ pc \in {"convert", "parse"}
  BY DEF PlainStart
<1> HIDE DEF t
<1>7. _recognize(t) \notin {"POSITIONAL_MARK", "ARG", "TERMINATOR", "NONE"}
  <2>1. _recognize(t) # "POSITIONAL_MARK" /\ _recognize(t) # "ARG" /\ _recognize(t) # "TERMINATOR"
    BY <1>3, <1>6, Recognized
  <2>2. _recognize(t) # "NONE"
    BY <1>4, <1>6, Recognized, Zenon
  <2> QED
    BY <2>1, <2>2
<1>8. CASE Convert
  <2>1. ~ \E i \in DOMAIN argv : ~ narrow(argv[i])
    BY DEF Plain, narrow
  <2>2. /\ pc' = "parse" /\ parsed' = [parsed EXCEPT !["root"] = 1]
        /\ UNCHANGED <<argv, args, at, positionalOnly, selected, results, extras>>
    BY <1>8, <2>1, Zenon DEF Convert
  <2>3. \A d \in Commands : parsed'[d] = parsed[d]
    BY <1>1, <2>2
  <2> QED
    BY <2>2, <2>3 DEF PlainStart
<1>9. CASE _parse_subcommand
  <2>1. /\ args' = Tail(args) /\ selected' = Append(selected, c) /\ at' = c
        /\ parsed' = [parsed EXCEPT ![c] = @ + 1]
        /\ UNCHANGED <<pc, results, extras>> /\ pc = "parse"
    <3>1. /\ args' = IF DottedSubcommand(t) THEN <<Word(t.name)>> \o Tail(args) ELSE Tail(args)
          /\ selected' = Append(selected, IF DottedSubcommand(t) THEN t.sub ELSE t.name)
          /\ at' = (IF DottedSubcommand(t) THEN t.sub ELSE t.name)
          /\ parsed' = [parsed EXCEPT ![IF DottedSubcommand(t) THEN t.sub ELSE t.name] = @ + 1]
          /\ UNCHANGED <<pc, results, extras>> /\ pc = "parse"
      BY <1>6, <1>9, Zenon DEF _parse_subcommand, Parsing, Enter, t
    <3> QED
      BY <1>3, <1>5, <3>1
  <2>2. selected' = <<c>>
    <3>1. selected = <<>> /\ selected' = Append(selected, c)
      BY <1>1, <2>1
    <3> QED
      BY ONLY <3>1
  <2>3. parsed'[c] > 0 /\ \A a \in Apps : a # c => parsed'[a] = parsed[a]
    BY <1>1, <2>1, EnterTypes
  <2>4. \A d \in Commands : d # c => parsed'[d] = 0
    BY <1>1, <2>3 DEF PlainStart
  <2>5. \A a \in Apps : \A o \in Options \cup Flags : results'[a][o] = <<>>
    BY <2>1, Zenon DEF PlainStart
  <2>6. extras' = {}
    BY <2>1 DEF PlainStart
  <2>7. PlainPart(c)'
    BY <2>1, <2>2, <2>3, <2>4, <2>5, <2>6, Zenon DEF PlainPart
  <2>8. PICK V : V = ValuePositions(c, 1)
    OBVIOUS
  <2>9. 2 \notin V
    <3>1. 1 \in Nat
      OBVIOUS
    <3>2. /\ V \in SUBSET (1 .. Len(argv))
          /\ \A i \in 1 .. Len(argv) : i \in V <=> ValueAt(c, 1, V, i)
      BY ONLY <1>1, <2>8, <3>1, PositionsExist
    <3>3. ~ (2 - 1 > 1)
      OBVIOUS
    <3>4. ~ ValueAt(c, 1, V, 2)
      BY <3>3, Zenon DEF ValueAt
    <3> QED
      BY <3>2, <3>4, Zenon
  <2>10. Given(c, 1, 2, V, results'[c])
    <3>1. \A i \in 1 .. (2 - 1) : ~ (i > 1)
      OBVIOUS
    <3>2. <<>> \in Seq(Nat) /\ Len(<<>>) = 0 /\ 1 .. 0 = {}
      OBVIOUS
    <3>3. Enumerates(<<>>, {}, <<>>)
      BY <3>2 DEF Enumerates
    <3>4. ASSUME NEW o \in OptionsOf(c)
          PROVE  \E s : Enumerates(s, WrittenBefore(c, o, 1, 2, V), results'[c][o])
      <4>1. WrittenBefore(c, o, 1, 2, V) = {}
        BY <3>1, Zenon DEF WrittenBefore
      <4>2. results'[c][o] = <<>>
        BY <1>1, <2>5, OptionsAre
      <4> QED
        BY <3>3, <4>1, <4>2, Zenon
    <3> QED
      BY <3>4, Zenon DEF Given
  <2>11. args' = Rest(2)
    BY <1>2, <2>1
  <2>12. PlainRest(c)'
    BY ONLY <1>1, <1>2, <2>8, <2>9, <2>10, <2>11, PlainRestAt
  <2> QED
    BY <2>1, <2>7, <2>12
<1>10. CASE UNCHANGED vars
  <2>1. PlainStart'
    BY <1>10 DEF vars, parseVars, PlainStart
  <2> QED
    BY <2>1
<1>11. CASE PositionalMark \/ Terminator \/ _parse_positional \/ ParseOwnArg \/ ParseDottedArg
              \/ ParseUnknownArg
  BY <1>7, <1>11 DEF PositionalMark, Terminator, _parse_positional, ParseOwnArg, ParseDottedArg,
     ParseUnknownArg, Parsing, t
<1>12. CASE \/ ParseEnds \/ _process_callbacks \/ _process_help_flags \/ _process_requirements
            \/ _process_extras \/ run_callback
  BY <1>2, <1>6, <1>12 DEF ParseEnds, _process_callbacks, _process_help_flags,
     _process_requirements, _process_extras, run_callback
<1> QED
  BY <1>8, <1>9, <1>10, <1>11, <1>12 DEF Next, Parse, Done

\* An option and its operand are read.
LEMMA PlainOption ==
    ASSUME ParseInv, NEW c \in Commands, Plain(c), PlainPart(c), PlainRest(c),
           pc = "parse", args # <<>>, [Next]_vars
    PROVE  PlainPart(c)' /\ PlainRest(c)' /\ pc' = "parse"
<1>1. /\ argv \in Seq(Tokens) /\ results \in ResultsType /\ argv' = argv
      /\ c \in Apps /\ "root" \in Apps /\ c # "root" /\ at = c
  BY ArgvStays, CommandsAre DEF ParseInv, TypeInv, ResultTypes, PlainPart, Apps
<1>0. Len(argv) \in Nat
  <2>1. argv \in Seq(Tokens)
    BY <1>1
  <2> QED
    BY ONLY <2>1
<1>2. PICK p \in 2 .. (Len(argv) + 1) : \E V :
         /\ V = ValuePositions(c, 1) /\ args = Rest(p) /\ p \notin V
         /\ Given(c, 1, p, V, results[c])
  BY Zenon DEF PlainRest
<1>3. PICK V : /\ V = ValuePositions(c, 1) /\ args = Rest(p) /\ p \notin V
               /\ Given(c, 1, p, V, results[c])
  BY <1>2
<1> DEFINE t == Head(args)
<1>4. /\ t = argv[p] /\ t \in Argument /\ Tail(args) = Rest(p + 1) /\ p \in 1 .. (Len(argv) + 1)
      /\ p \in 1 .. Len(argv) /\ p + 1 \in 1 .. (Len(argv) + 1)
  <2>2. p \in 1 .. (Len(argv) + 1)
    BY ONLY <1>0, p \in 2 .. (Len(argv) + 1)
  <2> QED
    BY <1>1, <1>3, <2>2, RestIs
<1>5. p \in 2 .. Len(argv) /\ p \in Nat
  <2>1. p \in 1 .. Len(argv)
    BY <1>4
  <2> QED
    BY ONLY <1>0, <2>1, p \in 2 .. (Len(argv) + 1)
<1>6. PICK o \in OptionsOf(c) :
              /\ argv[p].sub = "" /\ o \in Named(c, argv[p])
              /\ argv[p].value = "" => p < Len(argv)
              /\ Behind(p) \in 2 .. (Len(argv) + 1) /\ Behind(p) \notin V
              /\ WrittenMore(c, o, 1, p, V, Behind(p), V)
  BY <1>1, <1>3, <1>5, PlainAt
<1> HIDE DEF t
<1>7. /\ t.sub = "" /\ t.form \in {"long", "short", "windows"} /\ Named(c, t) = {o}
      /\ o \in Options /\ o \notin Flags
  <2>1. o \in Options /\ o \notin Flags
    BY <1>1, OptionsAre
  <2> QED
    BY <1>1, <1>4, <1>6, <2>1, NamedIs
<1>8. _recognize(t) \notin {"POSITIONAL_MARK", "SUBCOMMAND", "TERMINATOR", "NONE"}
  <2>1. ~ _valid_subcommand(t) /\ ~ DottedSubcommand(t)
    BY <1>7 DEF _valid_subcommand, DottedSubcommand, _find_subcommand
  <2>2. t.form \in Forms /\ t.form \notin {"mark", "word", "terminator"}
    BY <1>7 DEF Forms
  <2>3. /\ _recognize(t) # "POSITIONAL_MARK" /\ _recognize(t) # "SUBCOMMAND"
        /\ _recognize(t) # "TERMINATOR"
    BY <2>1, <2>2, Recognized
  <2>4. _recognize(t) # "NONE"
    BY <1>1, <2>2, Recognized
  <2> QED
    BY <2>3, <2>4
<1>9. ASSUME NEW v \in Argument, v = Operand(p), results' = AddResult(c, o, v),
             args' = Rest(Behind(p)), pc' = pc,
             UNCHANGED <<at, parsed, selected, extras>>
      PROVE  PlainPart(c)' /\ PlainRest(c)' /\ pc' = "parse"
  <2>1. Given(c, 1, Behind(p), V, results'[c])
    <3>1. /\ results \in ResultsType /\ c \in Apps /\ o \in Options /\ p \in Nat
          /\ WrittenMore(c, o, 1, p, V, Behind(p), V) /\ Given(c, 1, p, V, results[c])
      BY <1>1, <1>3, <1>5, <1>6, <1>7
    <3> QED
      BY ONLY <1>9, <3>1, GivenTake
  <2>2. PlainRest(c)'
    BY ONLY <1>1, <1>3, <1>6, <1>9, <2>1, PlainRestAt
  <2>3. \A b \in Apps : \A u \in Options \cup Flags : b # c \/ u # o => results'[b][u] = results[b][u]
    <3>1. results \in ResultsType /\ c \in Apps /\ o \in Options \cup Flags
      BY <1>1, <1>7
    <3> QED
      BY ONLY <1>9, <3>1, AddResultIs
  <2>4. \A b \in Apps : \A u \in Options \cup Flags : b # c \/ u \in Flags => results'[b][u] = <<>>
    BY <1>7, <2>3, Zenon DEF PlainPart
  <2>5. PlainPart(c)'
    BY <1>9, <2>4, Zenon DEF PlainPart
  <2> QED
    BY <1>9, <2>2, <2>5
<1>10. CASE ParseOwnArg
  <2>1. UNCHANGED <<at, parsed, selected, extras>>
    BY <1>10 DEF ParseOwnArg
  <2>2. Take(c, o, t, Rest(p + 1))
    <3>1. PICK u \in Named(at, t) : Take(at, u, t, Tail(args))
      BY <1>10, Zenon DEF ParseOwnArg, t
    <3>2. u = o
      BY <1>1, <1>7, <3>1
    <3> QED
      BY <1>1, <1>4, <3>1, <3>2
  <2>3. o \in Named(c, t) /\ p + 1 \in 1 .. (Len(argv) + 1) /\ t \in Argument /\ t.sub = ""
    BY <1>4, <1>7
  <2>4. TookFlag(c, o, t, p + 1) \/ TookOwn(c, o, t, p + 1) \/ TookNext(c, o, t, p + 1)
           \/ TookNone(c, o, t, p + 1)
    BY ONLY <1>1, <2>2, <2>3, TakeIs
  <2>5. ~ TookFlag(c, o, t, p + 1)
    BY <1>7, Zenon DEF TookFlag
  <2>6. ~ TookNone(c, o, t, p + 1)
    <3> SUFFICES ASSUME TookNone(c, o, t, p + 1) PROVE FALSE
      OBVIOUS
    <3>1. t.value = "" /\ Rest(p + 1) = <<>>
      BY DEF TookNone
    <3>2. p + 1 = Len(argv) + 1
      BY <1>1, <1>4, <3>1, RestIs
    <3>3. p < Len(argv) /\ Len(argv) \in Nat
      BY <1>0, <1>4, <1>6, <3>1
    <3> QED
      BY ONLY <1>5, <3>2, <3>3
  <2>7. CASE TookOwn(c, o, t, p + 1)
    <3>1. argv[p].value # "" /\ args' = Rest(p + 1) /\ pc' = pc
          /\ results' = AddResult(c, o, Word(argv[p].value))
      BY <1>4, <2>7 DEF TookOwn
    <3>2. Behind(p) = p + 1 /\ Operand(p) = Word(argv[p].value)
      BY <3>1 DEF Behind, Operand
    <3>3. Word(argv[p].value) \in Argument
      <4>1. argv[p].value \in Part
        BY <1>4 DEF Argument
      <4> QED
        BY <4>1, TokensAre
    <3> QED
      BY <1>9, <2>1, <3>1, <3>2, <3>3
  <2>8. CASE TookNext(c, o, t, p + 1)
    <3>1. /\ argv[p].value = "" /\ args' = Rest((p + 1) + 1) /\ pc' = pc /\ argv[p + 1] \in Tokens
          /\ results' = AddResult(c, o, argv[p + 1])
      BY <1>4, <2>8 DEF TookNext
    <3>2. (p + 1) + 1 = p + 2
      BY <1>5
    <3>3. Behind(p) = p + 2 /\ Operand(p) = argv[p + 1] /\ argv[p + 1] \in Argument
      BY <3>1, TokensAre DEF Behind, Operand
    <3> QED
      BY <1>9, <2>1, <3>1, <3>2, <3>3
  <2> QED
    BY <2>4, <2>5, <2>6, <2>7, <2>8
<1>11. ~ ParseDottedArg
  BY <1>1 DEF ParseDottedArg, DottedNames
<1>12. ~ ParseUnknownArg
  <2>1. Named(at, Head(args)) # {} /\ Head(args).sub = ""
    BY <1>1, <1>7 DEF t
  <2> QED
    BY <2>1, Zenon DEF ParseUnknownArg
<1>13. CASE PositionalMark \/ Terminator \/ _parse_subcommand \/ _parse_positional
  BY <1>8, <1>13 DEF PositionalMark, Terminator, _parse_subcommand, _parse_positional, Parsing, t
<1>14. CASE \/ Convert \/ ParseEnds \/ _process_callbacks \/ _process_help_flags
            \/ _process_requirements \/ _process_extras \/ run_callback
  BY <1>14 DEF Convert, ParseEnds, _process_callbacks, _process_help_flags,
     _process_requirements, _process_extras, run_callback
<1>15. CASE UNCHANGED vars
  <2>1. /\ pc' = pc /\ args' = args /\ results' = results
        /\ UNCHANGED <<at, parsed, selected, extras>>
    BY <1>15 DEF vars, parseVars
  <2>2. PlainPart(c)'
    BY <2>1, Zenon DEF PlainPart
  <2>3. args' = Rest(p) /\ Given(c, 1, p, V, results'[c])
    BY <1>3, <2>1
  <2>4. PlainRest(c)'
    BY ONLY <1>1, <1>3, <2>3, p \in 2 .. (Len(argv) + 1), PlainRestAt
  <2> QED
    BY <2>1, <2>2, <2>4
<1> QED
  BY <1>10, <1>11, <1>12, <1>13, <1>14, <1>15 DEF Next, Parse, Done

\* The stages behind the last argument let the plain form through.
LEMMA PlainStages ==
    ASSUME ParseInv, NEW c \in Commands, Plain(c), PlainPart(c), PlainRest(c), pc # "convert",
           pc = "parse" => args = <<>>, pc = "done" => Len(ran) = 1 /\ ran[1].cmd = c,
           [Next]_vars
    PROVE  /\ PlainPart(c)' /\ PlainRest(c)' /\ pc' # "convert"
           /\ pc' = "done" => Len(ran') = 1 /\ ran'[1].cmd = c
<1> USE DEF Throw
<1>1. /\ argv \in Seq(Tokens) /\ results \in ResultsType /\ argv' = argv
      /\ pc \in {"parse", "callbacks", "help", "requirements", "extras", "run", "done"}
      /\ c \in Apps /\ "root" \in Apps /\ Commands \subseteq Apps /\ c # "root"
      /\ selected = <<c>> /\ parsed[c] > 0 /\ extras = {}
  BY ArgvStays, CommandsAre DEF ParseInv, TypeInv, ResultTypes, ParserTypes, PlainPart, Apps
<1>2. PICK p \in 2 .. (Len(argv) + 1) : \E V :
         /\ V = ValuePositions(c, 1) /\ args = Rest(p) /\ p \notin V
         /\ Given(c, 1, p, V, results[c])
  BY Zenon DEF PlainRest
<1>3. PICK V : /\ V = ValuePositions(c, 1) /\ args = Rest(p) /\ p \notin V
               /\ Given(c, 1, p, V, results[c])
  BY <1>2
<1>4. ASSUME UNCHANGED <<args, parseVars>> PROVE PlainPart(c)' /\ PlainRest(c)'
  <2>1. /\ args' = args /\ results' = results
        /\ UNCHANGED <<at, parsed, selected, extras>>
    BY <1>4 DEF parseVars
  <2>2. PlainPart(c)'
    BY <2>1, Zenon DEF PlainPart
  <2>3. args' = Rest(p) /\ Given(c, 1, p, V, results'[c])
    BY <1>3, <2>1
  <2>4. PlainRest(c)'
    BY ONLY <1>1, <1>3, <2>3, p \in 2 .. (Len(argv) + 1), PlainRestAt
  <2> QED
    BY <2>2, <2>4
<1>5. ASSUME args = <<>>
      PROVE  Missing(c) = {} /\ \A o \in OptionsOf(c) : ~ TooMany(results[c][o])
  <2>1. p \in 1 .. (Len(argv) + 1)
    OBVIOUS
  <2>2. p = Len(argv) + 1
    BY <1>1, <1>3, <1>5, <2>1, RestIs
  <2>3. Given(c, 1, Len(argv) + 1, V, results[c]) /\ V = ValuePositions(c, 1)
    BY <1>3, <2>2
  <2>4. argv \in Seq(Tokens) /\ results \in ResultsType
    BY <1>1
  <2>5. c \in Commands /\ Plain(c)
    OBVIOUS
  <2> QED
    BY ONLY <2>3, <2>4, <2>5, PlainGiven
<1>6. \A a \in Apps : \A o \in Options \cup Flags : a # c \/ o \in Flags => results[a][o] = <<>>
  BY DEF PlainPart
<1>7. \A a \in Apps : results[a]["help"] = <<>>
  BY <1>6, OptionsAre
<1>8. results["root"]["version"] = <<>>
  BY <1>1, <1>6, OptionsAre
<1>9. pc \in {"callbacks", "help", "requirements", "extras", "run"} => args = <<>>
  BY DEF ParseInv, StageInv, Past
<1>10. CASE ParseEnds
  <2>1. pc' = "callbacks" /\ UNCHANGED <<args, parseVars>>
    BY <1>10, Zenon DEF ParseEnds
  <2> QED
    BY <1>4, <2>1
<1>11. CASE _process_callbacks
  <2>1. args = <<>>
    BY <1>9, <1>11 DEF _process_callbacks
  <2>2. ASSUME NEW d \in Commands, NEW o \in OptionsOf(d) PROVE ~ TooMany(results[d][o])
    <3>1. CASE d = c
      BY <1>5, <2>1, <3>1
    <3>2. CASE d # c
      <4>1. results[d][o] = <<>>
        BY <1>1, <1>6, <3>2, OptionsAre
      <4>2. ~ (Len(<<>>) > 1)
        OBVIOUS
      <4> QED
        BY <4>1, <4>2, Zenon DEF TooMany
    <3> QED
      BY <3>1, <3>2
  <2>3. pc' = "help" /\ UNCHANGED <<args, parseVars>>
    BY <1>8, <1>11, <2>2, Zenon DEF _process_callbacks
  <2> QED
    BY <1>4, <2>3
<1>12. CASE _process_help_flags
  <2>1. \A i \in DOMAIN selected : selected[i] \in Apps
    BY <1>1
  <2>2. pc' = "requirements" /\ UNCHANGED <<args, parseVars>>
    BY <1>1, <1>7, <1>12, <2>1, Zenon DEF _process_help_flags
  <2> QED
    BY <1>4, <2>2
<1>13. CASE _process_requirements
  <2>1. Missing(c) = {}
    BY <1>5, <1>9, <1>13 DEF _process_requirements
  <2>2. ~ (Len(selected) < RequireSubcommand)
    BY <1>1 DEF RequireSubcommand
  <2>3. \A d \in Commands : parsed[d] > 0 => Missing(d) = {}
    <3>1. \A d \in Commands : d # c => parsed[d] = 0
      BY DEF PlainPart
    <3>2. \A d \in Commands : d # c => ~ (parsed[d] > 0)
      BY <3>1
    <3> QED
      BY <2>1, <3>2, Zenon
  <2>4. pc' = "extras" /\ UNCHANGED <<args, parseVars>>
    BY <1>13, <2>2, <2>3, Zenon DEF _process_requirements
  <2> QED
    BY <1>4, <2>4
<1>14. CASE _process_extras
  <2>1. pc' = "run" /\ UNCHANGED <<args, parseVars>>
    <3>1. \A a : a \notin extras
      BY <1>1
    <3> QED
      BY <1>14, <3>1, Zenon DEF _process_extras
  <2> QED
    BY <1>4, <2>1
<1>15. CASE run_callback
  <2>1. /\ pc' = "done" /\ UNCHANGED <<args, parseVars>>
        /\ ran' = [i \in DOMAIN Called(selected) |-> [cmd |-> Called(selected)[i], given |-> value]]
    BY <1>15, Zenon DEF run_callback
  <2>2. Called(selected) = <<c>>
    <3>1. selected \in Seq(Commands) /\ Len(selected) = 1 /\ selected[1] = c
      BY <1>1
    <3>2. parsed[selected[1]] > 0
      BY <1>1, <3>1
    <3> QED
      BY ONLY <3>1, <3>2, CalledIs
  <2> DEFINE e == [i \in DOMAIN <<c>> |-> [cmd |-> <<c>>[i], given |-> value]]
  <2>3. ran' = e
    BY <2>1, <2>2, Zenon
  <2>4. DOMAIN <<c>> = 1 .. 1 /\ <<c>>[1] = c
    OBVIOUS
  <2>5. e[1].cmd = c /\ e \in [1 .. 1 -> {[cmd |-> c, given |-> value]}]
    BY <2>4
  <2>6. Len(e) = 1
    <3> HIDE DEF e
    <3> DEFINE S == {[cmd |-> c, given |-> value]}
    <3>1. 1 \in Nat /\ e \in [1 .. 1 -> S]
      BY <2>5
    <3> HIDE DEF S
    <3> QED
      BY ONLY <3>1
  <2> HIDE DEF e
  <2>7. Len(ran') = 1 /\ ran'[1].cmd = c
    BY <2>3, <2>5, <2>6
  <2> QED
    BY <1>4, <2>1, <2>7
<1>16. CASE UNCHANGED vars
  <2>1. UNCHANGED <<args, parseVars>> /\ pc' = pc /\ ran' = ran
    BY <1>16 DEF vars
  <2> QED
    BY <1>4, <2>1
<1>17. CASE Convert
  BY <1>17 DEF Convert
<1>18. CASE \/ PositionalMark \/ Terminator \/ _parse_subcommand \/ _parse_positional
            \/ ParseOwnArg \/ ParseDottedArg \/ ParseUnknownArg
  BY <1>18 DEF PositionalMark, Terminator, _parse_subcommand, _parse_positional, ParseOwnArg,
     ParseDottedArg, ParseUnknownArg, Parsing
<1> QED
  BY <1>10, <1>11, <1>12, <1>13, <1>14, <1>15, <1>16, <1>17, <1>18 DEF Next, Parse, Done

LEMMA PlainInit == ASSUME NEW c \in Commands, Init PROVE PlainInv(c)
<1>1. PlainStart
  BY DEF Init, PlainStart, Apps
<1> QED
  BY <1>1 DEF PlainInv

LEMMA PlainNext ==
    ASSUME ParseInv, NEW c \in Commands, PlainInv(c), [Next]_vars
    PROVE  PlainInv(c)'
<1> SUFFICES ASSUME Plain(c)
             PROVE  \/ PlainStart'
                    \/ /\ PlainPart(c)' /\ PlainRest(c)' /\ pc' # "convert"
                       /\ pc' = "done" => Len(ran') = 1 /\ ran'[1].cmd = c
  <2>1. Plain(c)' <=> Plain(c)
    BY ArgvStays, PlainPrime
  <2> QED
    BY <2>1, Zenon DEF PlainInv
<1>1. CASE PlainStart
  <2>1. PlainStart' \/ (PlainPart(c)' /\ PlainRest(c)' /\ pc' = "parse")
    BY <1>1, PlainFirst
  <2> QED
    BY <2>1
<1>2. CASE /\ PlainPart(c) /\ PlainRest(c) /\ pc # "convert"
           /\ pc = "done" => Len(ran) = 1 /\ ran[1].cmd = c
  <2>1. CASE pc = "parse" /\ args # <<>>
    <3>1. PlainPart(c)' /\ PlainRest(c)' /\ pc' = "parse"
      BY <1>2, <2>1, PlainOption
    <3> QED
      BY <3>1
  <2>2. CASE pc = "parse" => args = <<>>
    BY <1>2, <2>2, PlainStages
  <2> QED
    BY <2>1, <2>2
<1> QED
  BY <1>1, <1>2 DEF PlainInv

\* Every command line in the plain form runs its command, whatever its operands
\* look like: neither App::_recognize nor a stage of App::_process refuses it.
THEOREM PlainRunsAlways == Spec => []PlainRuns
<1> DEFINE PlainAll == \A c \in Commands : PlainInv(c)
<1>1. Init => PlainAll
  BY PlainInit
<1>2. ParseInv /\ PlainAll /\ [Next]_vars => PlainAll'
  BY PlainNext
<1>3. PlainAll => PlainRuns
  BY DEF PlainInv, PlainRuns, PlainStart
<1> HIDE DEF PlainAll
<1> QED
  BY <1>1, <1>2, <1>3, ParseInvariant, PTL DEF Spec
=============================================================================
