----------------------------- MODULE CommandLine -----------------------------
(***************************************************************************)
(* cli/cli.c, handle_args: the options of the command line, one action per *)
(* option getopt_long hands out.  What was given is kept in a history      *)
(* variable, so that the outcome can be compared with it.                  *)
(***************************************************************************)
EXTENDS Integers, Sequences, FiniteSets

CONSTANTS
    File,      \* names that can follow -p
    NoFile,    \* the empty name args begins with
    BaseMem,   \* BASE_MEM_SIZE
    UlongMax,  \* ULONG_MAX
    Words,     \* arguments of -m and -l that are no level name: their numbers
    MaxOptions \* bound on the number of options

LevelNames == <<"NOLOG", "INFO", "WARN", "ERROR", "DEBUG">>
LOG_INFO == 2
LOG_DEBUG == 5

ASSUME CommandLineAssumption ==
    /\ NoFile \notin File
    /\ BaseMem \in Nat /\ UlongMax \in Nat /\ BaseMem <= UlongMax
    /\ Words \subseteq Nat
    /\ MaxOptions \in Nat

VARIABLES
    given,             \* the options read so far
    required_args,
    args,
    current_log_level,
    errno,             \* some library call has set it; nobody ever resets it
    outcome            \* where handle_args ended

argVars == <<given, required_args, args, current_log_level, errno, outcome>>

\* An argument as strtoul and strcmp see it: a number in base 10 (0 when it
\* starts with no digit) and the place of its name among the levels (0 for none).
Arg == [number : {0}, level : 1..Len(LevelNames)] \union [number : Words, level : {0}]

\* "p" with a file, "m" and "l" with an argument, "h", "mem-size" without an
\* argument (long_options makes it optional), "unknown long" for a name that is not
\* in long_options, and "?" for what getopt_long complains about.
Option ==
    [opt : {"p"}, file : File] \union [opt : {"m", "l"}, arg : Arg]
    \union [opt : {"h", "mem-size", "unknown long", "?"}]

Init ==
    /\ given = <<>>
    /\ required_args = 1
    /\ args = [program_file |-> NoFile, mem_size |-> BaseMem, log_level |-> LOG_INFO]
    /\ current_log_level = LOG_INFO
    /\ errno = FALSE
    /\ outcome = "parsing"

\* getopt_long finds one more option.
Reads(o) ==
    /\ outcome = "parsing"
    /\ Len(given) < MaxOptions
    /\ o \in Option
    /\ given' = Append(given, o)

ProgramFile(o) ==
    /\ Reads(o)
    /\ o.opt = "p"
    /\ args' = [args EXCEPT !.program_file = o.file]
    /\ required_args' = required_args - 1
    /\ UNCHANGED <<current_log_level, errno, outcome>>

\* case 'l': a name that is no level ends the program.
SetLevelNotInForce(level, a) ==
    /\ args' = [a EXCEPT !.log_level = level]
    /\ current_log_level' = current_log_level
    /\ outcome' = IF level = 0 THEN "quit" ELSE outcome
SetLevel(level, a) ==
    /\ args' = [a EXCEPT !.log_level = level]
    /\ current_log_level' = IF level = 0 THEN current_log_level ELSE level
    /\ outcome' = IF level = 0 THEN "quit" ELSE outcome

LogLevel(o) ==
    /\ Reads(o)
    /\ o.opt = "l"
    /\ SetLevel(o.arg.level, args)
    /\ UNCHANGED <<required_args, errno>>

\* case 'm': strtoul, a look at errno, which strtoul sets after an overflow and
\* leaves alone otherwise, and then case 'l' on the same argument, for want of a
\* break.
Overflows(number) == number > UlongMax
Strtoul(number) == IF Overflows(number) THEN UlongMax ELSE number
MemSize(o) ==
    /\ Reads(o)
    /\ o.opt = "m"
    /\ errno' = (errno \/ Overflows(o.arg.number))
    /\ LET a == [args EXCEPT !.mem_size = Strtoul(o.arg.number)]
       IN  IF errno'
           THEN args' = a /\ outcome' = "quit" /\ UNCHANGED current_log_level
           ELSE SetLevel(o.arg.level, a)
    /\ UNCHANGED required_args

\* strtoul of the missing argument.
MemSizeBare(o) ==
    /\ Reads(o)
    /\ o.opt = "mem-size"
    /\ outcome' = "crashed"
    /\ UNCHANGED <<required_args, args, current_log_level, errno>>

Help(o) ==
    /\ Reads(o)
    /\ o.opt = "h"
    /\ outcome' = "quit"
    /\ UNCHANGED <<required_args, args, current_log_level, errno>>

\* The default case.
Complaint(o) ==
    /\ Reads(o)
    /\ o.opt = "?"
    /\ UNCHANGED <<required_args, args, current_log_level, errno, outcome>>

\* long_options has no terminator: a name that matches none of its three entries
\* is looked for behind it, in memory that may or may not end the search.
UnknownLong(o) ==
    /\ Reads(o)
    /\ o.opt = "unknown long"
    /\ outcome' \in {outcome, "crashed"}
    /\ UNCHANGED <<required_args, args, current_log_level, errno>>

\* getopt_long returns -1.
UnmetAtZero == required_args >= 0
Unmet == required_args # 0
EndOfOptions ==
    /\ outcome = "parsing"
    /\ outcome' = IF Unmet THEN "quit" ELSE "parsed"
    /\ UNCHANGED <<given, required_args, args, current_log_level, errno>>

NextOption ==
    \/ \E o \in Option :
          \/ ProgramFile(o) \/ LogLevel(o) \/ MemSize(o) \/ MemSizeBare(o)
          \/ Help(o) \/ Complaint(o) \/ UnknownLong(o)
    \/ EndOfOptions

Spec == Init /\ [][NextOption]_argVars

------------------------------------------------------------------------------
\* Correctness.

(***************************************************************************)
(* The types of the parsed arguments.                                      *)
(***************************************************************************)
TypeOK ==
    /\ given \in Seq(Option)
    /\ required_args \in Int
    /\ args \in [program_file : File \union {NoFile}, mem_size : 0..UlongMax,
                 log_level : 0..Len(LevelNames)]
    /\ current_log_level \in 1..Len(LevelNames)
    /\ errno \in BOOLEAN
    /\ outcome \in {"parsing", "parsed", "quit", "crashed"}

Given(opts) == {i \in DOMAIN given : given[i].opt \in opts}

\* The last place of a set of places in the command line.
Final(places) == CHOOSE i \in places : \A j \in places : j <= i

(***************************************************************************)
(* What a run of the program is started with, read off the whole command   *)
(* line: one program file and no -h; after -l only names of levels, the    *)
(* last of them, unless an -m stands behind it, in force in both of its    *)
(* variables; and the memory size that was given last.                     *)
(***************************************************************************)
ParsedMeansValid ==
    outcome = "parsed" =>
        LET sizes == Given({"m"})
            levels == Given({"l"})
        IN  /\ Cardinality(Given({"p"})) = 1
            /\ Given({"h", "mem-size"}) = {}
            /\ \A i \in levels : given[i].arg.level # 0
            /\ args.program_file = given[Final(Given({"p"}))].file
            /\ args.mem_size = IF sizes = {} THEN BaseMem
                               ELSE given[Final(sizes)].arg.number
            /\ (\A i \in sizes : \E j \in levels : i < j) =>
                  args.log_level = IF levels = {} THEN LOG_INFO
                                   ELSE given[Final(levels)].arg.level
            /\ current_log_level = args.log_level

(***************************************************************************)
(* The program gives up only on a command line that has what the code      *)
(* takes for a reason: -h, an argument of -l or -m that names no level     *)
(* (for -m that is any number, which UsageAccepted is about), no program   *)
(* file or more than one (the counter of required arguments goes below     *)
(* zero), or an -m after a call that set errno (the calloc of the bus);    *)
(* and it crashes only on --mem-size alone or an unknown long name.        *)
(***************************************************************************)
RefusedForAReason ==
    /\ outcome = "quit" =>
          \/ Given({"h"}) # {}
          \/ \E i \in Given({"m", "l"}) : given[i].arg.level = 0
          \/ Cardinality(Given({"p"})) # 1
          \/ errno /\ Given({"m"}) # {}
    /\ outcome = "crashed" => given[Len(given)].opt \in {"mem-size", "unknown long"}

(***************************************************************************)
(* The usage line: a log level after -l, a number in base 10 after -m and  *)
(* a program file after -p.  Such a command line is not refused.           *)
(***************************************************************************)
UsageAccepted ==
    (/\ Given({"p", "m", "l"}) = DOMAIN given
     /\ Cardinality(Given({"p"})) = 1
     /\ \A i \in Given({"l"}) : given[i].arg.level # 0
     /\ \A i \in Given({"m"}) : given[i].arg.level = 0 /\ given[i].arg.number \in 1..UlongMax)
    => outcome # "quit"
=============================================================================
