--------------------------- MODULE MCCommandLine ---------------------------
(***************************************************************************)
(* Command lines of CommandLine: every sequence of up to four arguments.   *)
(***************************************************************************)
EXTENDS CommandLine

Arg(form, sub, name, val) ==
    [form |-> form, sub |-> sub, name |-> name, value |-> val]

Surrogate == Word("unpaired surrogate")

Unpaired == {Surrogate}

\* `add` needs two options, `query` and `cleanup` none; three options are
\* written through the name of their subcommand, and two have the operands that
\* may follow each other.
MCTokens ==
    {Word("add"), Word("query"), Word("cleanup"), Surrogate,
     Arg("long", "", "major-type", "readonly"), Arg("long", "", "expr", ""),
     Arg("long", "", "help", ""),
     Arg("long", "", "version", "false"), Arg("long", "", "version", "x"),
     Arg("short", "", "h", "v"),
     Arg("windows", "", "format", "{}"), Arg("windows", "", "format", "%%"),
     Arg("word", "add", "query", ""),
     Arg("long", "query", "format", "csv"), Arg("long", "query", "h", ""),
     Arg("windows", "query", "format", "csv"),
     Arg("mark", "", "", ""), Arg("terminator", "", "", "")}
=============================================================================
