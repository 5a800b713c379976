--------------------------- MODULE LifeCycle_proofs ---------------------------
(***************************************************************************)
(* The life cycle for every command line, program file and pattern of      *)
(* failed allocations: single ownership, no block left behind, no fault    *)
(* but for want of memory, and a complete machine and program for the      *)
(* loop.                                                                   *)
(***************************************************************************)
EXTENDS LifeCycle, Recursion_proofs, FiniteSetTheorems, TLAPS

------------------------------------------------------------------------------
\* The command line, whatever its options and however many: the types and the
\* meaning of what handle_args leaves in the arguments, kept by every option.

\* What an accepted or unfinished command line leaves of the arguments.
MemSizeKnown == outcome \in {"parsing", "parsed"} => args.mem_size \in {0, BaseMem}
ArgsInv == TypeOK /\ MemSizeKnown

ArgRecords == [program_file : File \union {NoFile}, mem_size : 0..UlongMax, log_level : 0..5]

\* TypeOK with the number of levels put in.
LEMMA ArgsTyped ==
    TypeOK <=> /\ given \in Seq(Option)
               /\ required_args \in Int
               /\ args \in ArgRecords
               /\ current_log_level \in 1..5
               /\ errno \in BOOLEAN
               /\ outcome \in {"parsing", "parsed", "quit", "crashed"}
<1>1. Len(LevelNames) = 5
  BY DEF LevelNames
<1> QED
  BY <1>1 DEF TypeOK, ArgRecords

\* The same after a step.
LEMMA ArgsTypedNext ==
    TypeOK' <=> /\ given' \in Seq(Option)
                /\ required_args' \in Int
                /\ args' \in ArgRecords
                /\ current_log_level' \in 1..5
                /\ errno' \in BOOLEAN
                /\ outcome' \in {"parsing", "parsed", "quit", "crashed"}
<1>1. Len(LevelNames) = 5
  BY DEF LevelNames
<1> QED
  BY <1>1 DEF TypeOK, ArgRecords

\* The members of an argument, as strtoul and strcmp see it.
LEMMA ArgFields ==
    ASSUME NEW a \in Arg
    PROVE  /\ a.level \in 0..5 /\ a.number \in Nat
           /\ a.level # 0 => a.number = 0
<1>1. Len(LevelNames) = 5
  BY DEF LevelNames
<1>2. CASE a \in [number : {0}, level : 1..Len(LevelNames)]
  BY <1>1, <1>2
<1>3. CASE a \in [number : Words, level : {0}]
  <2>1. a.number \in Words /\ a.level = 0
    BY <1>3
  <2>2. a.number \in Nat
    BY <2>1, CommandLineAssumption
  <2> QED
    BY <2>1, <2>2
<1> QED
  BY <1>2, <1>3 DEF Arg

(***************************************************************************)
(* No option handle_args accepts sets the memory size to anything but      *)
(* zero, and each keeps the types.                                         *)
(***************************************************************************)
LEMMA ArgsStep == ASSUME ArgsInv, NextOption PROVE ArgsInv'
<1> USE CommandLineAssumption
<1>0. /\ given \in Seq(Option) /\ required_args \in Int /\ args \in ArgRecords
      /\ current_log_level \in 1..5 /\ errno \in BOOLEAN
      /\ outcome \in {"parsing", "parsed", "quit", "crashed"}
      /\ outcome = "parsing" => args.mem_size \in {0, BaseMem}
  BY ArgsTyped DEF ArgsInv, MemSizeKnown
<1>1. ASSUME NEW o \in Option, Reads(o)
      PROVE  outcome = "parsing" /\ given' \in Seq(Option)
  BY <1>0, <1>1 DEF Reads
<1>2. ASSUME NEW o \in Option, ProgramFile(o) PROVE ArgsInv'
  <2>1. Reads(o) /\ o.opt = "p"
    BY <1>2 DEF ProgramFile
  <2>2. o.file \in File
    BY <2>1 DEF Option
  <2>3. args' \in ArgRecords /\ args'.mem_size = args.mem_size
    BY <1>0, <1>2, <2>2 DEF ProgramFile, ArgRecords
  <2>4. /\ required_args' \in Int
        /\ current_log_level' = current_log_level /\ errno' = errno /\ outcome' = outcome
    BY <1>0, <1>2 DEF ProgramFile
  <2> QED
    BY <1>0, <1>1, <2>1, <2>3, <2>4, ArgsTypedNext DEF ArgsInv, MemSizeKnown
<1>3. ASSUME NEW o \in Option, LogLevel(o) PROVE ArgsInv'
  <2>1. Reads(o) /\ o.opt = "l" /\ SetLevel(o.arg.level, args)
    BY <1>3 DEF LogLevel
  <2>2. o.arg.level \in 0..5
    BY <2>1, ArgFields DEF Option
  <2>3. args' \in ArgRecords /\ args'.mem_size = args.mem_size
    BY <1>0, <2>1, <2>2 DEF SetLevel, ArgRecords
  <2>4. /\ current_log_level' \in 1..5 /\ outcome' \in {"parsing", "quit"}
        /\ required_args' = required_args /\ errno' = errno
    BY <1>0, <1>1, <1>3, <2>1, <2>2 DEF LogLevel, SetLevel
  <2> QED
    BY <1>0, <1>1, <2>1, <2>3, <2>4, ArgsTypedNext DEF ArgsInv, MemSizeKnown
<1>4. ASSUME NEW o \in Option, MemSize(o) PROVE ArgsInv'
  <2> DEFINE a == [args EXCEPT !.mem_size = Strtoul(o.arg.number)]
  <2>1. Reads(o) /\ o.opt = "m"
    BY <1>4 DEF MemSize
  <2>2. /\ o.arg.level \in 0..5 /\ o.arg.number \in Nat
        /\ o.arg.level # 0 => o.arg.number = 0
    BY <2>1, ArgFields DEF Option
  <2>3. /\ Strtoul(o.arg.number) \in 0..UlongMax
        /\ o.arg.level # 0 => Strtoul(o.arg.number) = 0
    BY <2>2 DEF Strtoul, Overflows
  <2>4. a \in ArgRecords /\ a.mem_size = Strtoul(o.arg.number)
    BY <1>0, <2>3 DEF ArgRecords
  <2>5. errno' \in BOOLEAN /\ required_args' = required_args
    BY <1>4 DEF MemSize
  <2>6. CASE errno'
    <3>1. args' = a /\ outcome' = "quit" /\ current_log_level' = current_log_level
      BY <1>4, <2>6 DEF MemSize
    <3> QED
      BY <1>0, <1>1, <2>1, <2>4, <2>5, <3>1, ArgsTypedNext DEF ArgsInv, MemSizeKnown
  <2>7. CASE ~errno'
    <3>1. SetLevel(o.arg.level, a)
      BY <1>4, <2>7 DEF MemSize
    <3>2. args' = [a EXCEPT !.log_level = o.arg.level]
      BY <3>1 DEF SetLevel
    <3>3. args' \in ArgRecords /\ args'.mem_size = Strtoul(o.arg.number)
      BY <2>2, <2>4, <3>2 DEF ArgRecords
    <3>4. /\ current_log_level' \in 1..5 /\ outcome' \in {"parsing", "quit"}
          /\ outcome' = "parsing" => o.arg.level # 0
      BY <1>0, <1>1, <2>1, <2>2, <3>1 DEF SetLevel
    <3> QED
      BY <1>0, <1>1, <2>1, <2>3, <2>5, <3>3, <3>4, ArgsTypedNext DEF ArgsInv, MemSizeKnown
  <2> QED
    BY <2>6, <2>7
<1>5. ASSUME NEW o \in Option, MemSizeBare(o) \/ Help(o) \/ Complaint(o) \/ UnknownLong(o)
      PROVE ArgsInv'
  <2>1. /\ Reads(o) /\ outcome' \in {outcome, "quit", "crashed"}
        /\ UNCHANGED <<required_args, args, current_log_level, errno>>
    BY <1>5 DEF MemSizeBare, Help, Complaint, UnknownLong
  <2> QED
    BY <1>0, <1>1, <2>1, ArgsTypedNext DEF ArgsInv, MemSizeKnown
<1>6. ASSUME EndOfOptions PROVE ArgsInv'
  BY <1>0, <1>6, ArgsTypedNext DEF EndOfOptions, ArgsInv, MemSizeKnown
<1> QED
  BY <1>2, <1>3, <1>4, <1>5, <1>6 DEF NextOption

\* handle_args starts with the default arguments.
LEMMA ArgsInit == Init => ArgsInv
<1> SUFFICES ASSUME Init PROVE ArgsInv
  OBVIOUS
<1>1. given \in Seq(Option)
  BY DEF Init
<1>2. args \in ArgRecords /\ args.mem_size = BaseMem
  BY CommandLineAssumption DEF Init, ArgRecords, LOG_INFO
<1>3. required_args \in Int /\ current_log_level \in 1..5 /\ outcome = "parsing"
  BY DEF Init, LOG_INFO
<1>4. errno \in BOOLEAN
  BY DEF Init
<1> QED
  BY <1>1, <1>2, <1>3, <1>4, ArgsTyped DEF ArgsInv, MemSizeKnown

------------------------------------------------------------------------------
\* What the arguments mean, while options are read and after the last.

\* Place i holds the last of some options.
LastOf(opts, i) == i \in Given(opts) /\ \A j \in Given(opts) : j <= i

\* The file of the last -p; the level of the last -l or -m, in both variables.
FileMeant ==
    \/ Given({"p"}) = {}
    \/ \E i \in Nat : LastOf({"p"}, i) /\ args.program_file = given[i].file
LevelMeant ==
    /\ current_log_level = args.log_level
    /\ \/ Given({"m", "l"}) = {} /\ args.log_level = LOG_INFO
       \/ \E i \in Nat : LastOf({"m", "l"}, i) /\ args.log_level = given[i].arg.level
Meant ==
    /\ Given({"h", "mem-size"}) = {}
    /\ \A i \in Given({"m", "l"}) : given[i].arg.level # 0
    /\ FileMeant
    /\ args.mem_size = IF Given({"m"}) = {} THEN BaseMem ELSE 0
    /\ LevelMeant

\* required_args counts the -p; the arguments mean what was given unless it was
\* refused, and then for a reason.
ArgsMeanInv ==
    /\ ArgsInv
    /\ required_args = 1 - Cardinality(Given({"p"}))
    /\ outcome \in {"parsing", "parsed"} => Meant
    /\ outcome = "parsed" => required_args = 0
    /\ RefusedForAReason

\* There are finitely many places in a command line.
LEMMA GivenFinite ==
    ASSUME given \in Seq(Option), NEW opts
    PROVE  /\ IsFiniteSet(Given(opts)) /\ Given(opts) \subseteq Nat
           /\ Given(opts) \subseteq 1..Len(given)
           /\ Cardinality(Given(opts)) \in Nat
<1>1. Len(given) \in Nat /\ DOMAIN given = 1..Len(given)
  OBVIOUS
<1>2. Given(opts) \subseteq 1..Len(given)
  BY <1>1 DEF Given
<1>3. IsFiniteSet(1..Len(given))
  BY <1>1, FS_Interval
<1> QED
  BY <1>1, <1>2, <1>3, FS_Subset, FS_CardinalityType

\* Of some places there is a last one.
LEMMA LastExists ==
    ASSUME given \in Seq(Option), NEW opts, Given(opts) # {}
    PROVE  \E i \in Nat : LastOf(opts, i)
<1>1. Len(given) \in Nat /\ Given(opts) \subseteq 1..Len(given) /\ Given(opts) \subseteq Nat
  BY GivenFinite
<1>2. Given(opts) \in SUBSET (0..Len(given))
  BY <1>1
<1>3. \E i \in Given(opts) : \A j \in Given(opts) : j <= i
  BY <1>1, <1>2, Largest
<1> QED
  BY <1>1, <1>3 DEF LastOf

\* Of places with a last one, Final is that one.
LEMMA FinalIsLast ==
    ASSUME given \in Seq(Option), NEW opts, NEW i \in Nat, LastOf(opts, i)
    PROVE  Final(Given(opts)) = i /\ Given(opts) # {}
<1>1. i \in Given(opts) /\ \A j \in Given(opts) : j <= i
  BY DEF LastOf
<1>2. Given(opts) \subseteq Nat
  BY GivenFinite
<1>3. \A k \in Given(opts) : (\A j \in Given(opts) : j <= k) => k = i
  BY <1>1, <1>2
<1> QED
  BY <1>1, <1>3 DEF Final

\* An option that is read comes to stand behind the others.
LEMMA AfterRead ==
    ASSUME given \in Seq(Option), NEW o \in Option, Reads(o), NEW opts
    PROVE  /\ Len(given) + 1 \in Nat /\ Len(given') = Len(given) + 1
           /\ given'[Len(given) + 1] = o
           /\ Len(given) + 1 \notin Given(opts)
           /\ \A i \in Given(opts) : given'[i] = given[i] /\ i <= Len(given) + 1
           /\ Given(opts)' = IF o.opt \in opts THEN Given(opts) \union {Len(given) + 1}
                             ELSE Given(opts)
<1> DEFINE n == Len(given) + 1
<1>1. given' = Append(given, o)
  BY DEF Reads
<1>2. /\ n \in Nat /\ DOMAIN given = 1..Len(given) /\ Len(given) \in Nat
      /\ DOMAIN given' = DOMAIN given \union {n} /\ Len(given') = n
      /\ given'[n] = o /\ n \notin DOMAIN given
      /\ \A i \in DOMAIN given : given'[i] = given[i] /\ i <= n
  BY <1>1
<1> HIDE DEF n
<1>3. Given(opts) \subseteq DOMAIN given
  BY DEF Given
<1>4. \A i : i \in Given(opts)' <=> i \in DOMAIN given' /\ given'[i].opt \in opts
  BY DEF Given
<1>5. \A i : i \in Given(opts) <=> i \in DOMAIN given /\ given[i].opt \in opts
  BY DEF Given
<1>6. Given(opts)' = IF o.opt \in opts THEN Given(opts) \union {n} ELSE Given(opts)
  BY <1>2, <1>4, <1>5
<1> QED
  BY <1>2, <1>3, <1>6 DEF n

\* The last place moves to an option of the kind and stays with any other.
LEMMA LastMoves ==
    ASSUME given \in Seq(Option), NEW o \in Option, Reads(o), NEW opts
    PROVE  /\ o.opt \in opts => \A n \in Nat : n = Len(given) + 1 => LastOf(opts, n)'
           /\ o.opt \notin opts => \A i \in Nat : LastOf(opts, i) => LastOf(opts, i)'
<1>1. ASSUME o.opt \in opts, NEW n \in Nat, n = Len(given) + 1 PROVE LastOf(opts, n)'
  <2>1. /\ Given(opts)' = Given(opts) \union {n}
        /\ \A i \in Given(opts) : i <= n
    BY <1>1, AfterRead
  <2>2. n <= n
    BY <1>1
  <2> QED
    BY <2>1, <2>2 DEF LastOf
<1>2. ASSUME o.opt \notin opts, NEW i \in Nat, LastOf(opts, i) PROVE LastOf(opts, i)'
  <2>1. Given(opts)' = Given(opts)
    BY <1>2, AfterRead
  <2> QED
    BY <1>2, <2>1 DEF LastOf
<1> QED
  BY <1>1, <1>2

\* The file of -p replaces that of the one before.
LEMMA FileStep ==
    ASSUME given \in Seq(Option), NEW o \in Option, Reads(o), FileMeant,
           args'.program_file = IF o.opt = "p" THEN o.file ELSE args.program_file
    PROVE  FileMeant'
<1>1. PICK n \in Nat : n = Len(given) + 1 /\ given'[n] = o
  BY AfterRead
<1>2. CASE o.opt = "p"
  <2>1. LastOf({"p"}, n)'
    BY <1>1, <1>2, LastMoves
  <2>2. args'.program_file = given'[n].file
    BY <1>1, <1>2
  <2> QED
    BY <2>1, <2>2 DEF FileMeant
<1>3. CASE o.opt # "p"
  <2>1. CASE Given({"p"}) = {}
    <3>1. Given({"p"})' = {}
      BY <1>3, <2>1, AfterRead
    <3> QED
      BY <3>1 DEF FileMeant
  <2>2. ASSUME NEW i \in Nat, LastOf({"p"}, i), args.program_file = given[i].file
        PROVE  FileMeant'
    <3>1. LastOf({"p"}, i)'
      BY <1>3, <2>2, LastMoves
    <3>2. given'[i] = given[i]
      BY <2>2, AfterRead DEF LastOf
    <3>3. args'.program_file = given'[i].file
      BY <1>3, <2>2, <3>2
    <3> QED
      BY <3>1, <3>3 DEF FileMeant
  <2> QED
    BY <2>1, <2>2 DEF FileMeant
<1> QED
  BY <1>2, <1>3

\* The level of -l or -m goes into both variables.
LEMMA LevelStep ==
    ASSUME given \in Seq(Option), NEW o \in Option, Reads(o), LevelMeant,
           args'.log_level = IF o.opt \in {"m", "l"} THEN o.arg.level ELSE args.log_level,
           current_log_level' = args'.log_level
    PROVE  LevelMeant'
<1>1. PICK n \in Nat : n = Len(given) + 1 /\ given'[n] = o
  BY AfterRead
<1>2. CASE o.opt \in {"m", "l"}
  <2>1. LastOf({"m", "l"}, n)'
    BY <1>1, <1>2, LastMoves
  <2>2. args'.log_level = given'[n].arg.level
    BY <1>1, <1>2
  <2> QED
    BY <2>1, <2>2 DEF LevelMeant
<1>3. CASE o.opt \notin {"m", "l"}
  <2>1. CASE Given({"m", "l"}) = {} /\ args.log_level = LOG_INFO
    <3>1. Given({"m", "l"})' = {}
      BY <1>3, <2>1, AfterRead
    <3> QED
      BY <1>3, <2>1, <3>1 DEF LevelMeant
  <2>2. ASSUME NEW i \in Nat, LastOf({"m", "l"}, i), args.log_level = given[i].arg.level
        PROVE  LevelMeant'
    <3>1. LastOf({"m", "l"}, i)'
      BY <1>3, <2>2, LastMoves
    <3>2. given'[i] = given[i]
      BY <2>2, AfterRead DEF LastOf
    <3>3. args'.log_level = given'[i].arg.level
      BY <1>3, <2>2, <3>2
    <3> QED
      BY <3>1, <3>3 DEF LevelMeant
  <2> QED
    BY <2>1, <2>2 DEF LevelMeant
<1> QED
  BY <1>2, <1>3

\* Only -p is counted.
LEMMA CountStep ==
    ASSUME given \in Seq(Option), NEW o \in Option, Reads(o),
           required_args = 1 - Cardinality(Given({"p"})),
           required_args' = IF o.opt = "p" THEN required_args - 1 ELSE required_args
    PROVE  required_args' = 1 - Cardinality(Given({"p"})')
<1>1. IsFiniteSet(Given({"p"})) /\ Cardinality(Given({"p"})) \in Nat
  BY GivenFinite
<1>2. CASE o.opt = "p"
  <2>1. /\ Given({"p"})' = Given({"p"}) \union {Len(given) + 1}
        /\ Len(given) + 1 \notin Given({"p"})
    BY <1>2, AfterRead
  <2>2. Cardinality(Given({"p"})') = Cardinality(Given({"p"})) + 1
    BY <1>1, <2>1, FS_AddElement
  <2> QED
    BY <1>1, <1>2, <2>2
<1>3. CASE o.opt # "p"
  <2>1. Given({"p"})' = Given({"p"})
    BY <1>3, AfterRead
  <2> QED
    BY <1>3, <2>1
<1> QED
  BY <1>2, <1>3

\* An option that keeps handle_args going means what it says.
LEMMA MeantStep ==
    ASSUME given \in Seq(Option), NEW o \in Option, Reads(o), Meant,
           o.opt \notin {"h", "mem-size"},
           o.opt \in {"m", "l"} => o.arg.level # 0,
           args'.program_file = IF o.opt = "p" THEN o.file ELSE args.program_file,
           args'.mem_size = IF o.opt = "m" THEN 0 ELSE args.mem_size,
           args'.log_level = IF o.opt \in {"m", "l"} THEN o.arg.level ELSE args.log_level,
           current_log_level' = args'.log_level
    PROVE  Meant'
<1>1. Given({"h", "mem-size"})' = {}
  BY AfterRead DEF Meant
<1>2. \A i \in Given({"m", "l"})' : given'[i].arg.level # 0
  <2> SUFFICES ASSUME NEW i \in Given({"m", "l"})' PROVE given'[i].arg.level # 0
    OBVIOUS
  <2>1. CASE i \in Given({"m", "l"})
    BY <2>1, AfterRead DEF Meant
  <2>2. CASE i \notin Given({"m", "l"})
    <3>1. o.opt \in {"m", "l"} /\ given'[i] = o
      BY <2>2, AfterRead
    <3> QED
      BY <3>1
  <2> QED
    BY <2>1, <2>2
<1>3. FileMeant' /\ LevelMeant'
  BY FileStep, LevelStep DEF Meant
<1>4. args'.mem_size = IF Given({"m"})' = {} THEN BaseMem ELSE 0
  <2>1. args.mem_size = IF Given({"m"}) = {} THEN BaseMem ELSE 0
    BY DEF Meant
  <2>2. Given({"m"})' = IF o.opt = "m" THEN Given({"m"}) \union {Len(given) + 1}
                       ELSE Given({"m"})
    BY AfterRead
  <2> QED
    BY <2>1, <2>2
<1> QED
  BY <1>1, <1>2, <1>3, <1>4 DEF Meant

(***************************************************************************)
(* Each option keeps the invariant: it goes on with arguments that mean    *)
(* the command line so far, or it is the reason for the end.               *)
(***************************************************************************)
LEMMA ArgsMeanStep == ASSUME ArgsMeanInv, NextOption PROVE ArgsMeanInv'
<1> DEFINE Counted == required_args' = 1 - Cardinality(Given({"p"})')
           Ends ==
               /\ outcome' \in {"parsing", "parsed"} => Meant'
               /\ outcome' = "parsed" => required_args' = 0
               /\ RefusedForAReason'
<1>0. /\ given \in Seq(Option) /\ args \in ArgRecords
      /\ outcome = "parsing" => Meant
      /\ required_args = 1 - Cardinality(Given({"p"}))
      /\ ArgsInv'
  BY ArgsStep, ArgsTyped DEF ArgsMeanInv, ArgsInv
<1>1. ASSUME NEW o \in Option, Reads(o)
      PROVE  /\ outcome = "parsing" /\ given' \in Seq(Option)
             /\ given'[Len(given')] = o
             /\ \A opts : o.opt \in opts =>
                   \E i \in Given(opts)' : given'[i] = o
  <2>1. outcome = "parsing" /\ given' \in Seq(Option)
    BY <1>0, <1>1 DEF Reads
  <2>2. given'[Len(given')] = o
    BY <1>0, <1>1, AfterRead
  <2>3. ASSUME NEW opts, o.opt \in opts PROVE \E i \in Given(opts)' : given'[i] = o
    <3>1. Len(given) + 1 \in Given(opts)' /\ given'[Len(given) + 1] = o
      BY <1>0, <1>1, <2>3, AfterRead
    <3> QED
      BY <3>1
  <2> QED
    BY <2>1, <2>2, <2>3
<1>2. ASSUME NEW o \in Option, ProgramFile(o) PROVE Counted /\ Ends
  <2>1. /\ Reads(o) /\ o.opt = "p" /\ args' = [args EXCEPT !.program_file = o.file]
        /\ required_args' = required_args - 1 /\ UNCHANGED <<current_log_level, outcome>>
    BY <1>2 DEF ProgramFile
  <2>2. /\ args'.program_file = o.file /\ args'.mem_size = args.mem_size
        /\ args'.log_level = args.log_level
    BY <1>0, <2>1 DEF ArgRecords
  <2>3. Counted
    BY <1>0, <2>1, CountStep
  <2>4. Meant'
    BY <1>0, <1>1, <2>1, <2>2, MeantStep DEF Meant, LevelMeant
  <2>5. outcome' = "parsing"
    BY <1>1, <2>1
  <2> QED
    BY <2>3, <2>4, <2>5 DEF RefusedForAReason
<1>3. ASSUME NEW o \in Option, LogLevel(o) PROVE Counted /\ Ends
  <2>1. /\ Reads(o) /\ o.opt = "l" /\ SetLevel(o.arg.level, args)
        /\ required_args' = required_args
    BY <1>3 DEF LogLevel
  <2>2. /\ args'.program_file = args.program_file /\ args'.mem_size = args.mem_size
        /\ args'.log_level = o.arg.level
    BY <1>0, <2>1 DEF SetLevel, ArgRecords
  <2>3. Counted
    BY <1>0, <2>1, CountStep
  <2>4. CASE o.arg.level = 0
    <3>1. outcome' = "quit" /\ \E i \in Given({"m", "l"})' : given'[i] = o
      BY <1>1, <2>1, <2>4 DEF SetLevel
    <3> QED
      BY <2>3, <2>4, <3>1 DEF RefusedForAReason
  <2>5. CASE o.arg.level # 0
    <3>1. outcome' = "parsing" /\ current_log_level' = args'.log_level
      BY <1>1, <2>1, <2>2, <2>5 DEF SetLevel
    <3>2. Meant'
      BY <1>0, <1>1, <2>1, <2>2, <2>5, <3>1, MeantStep
    <3> QED
      BY <2>3, <3>1, <3>2 DEF RefusedForAReason
  <2> QED
    BY <2>4, <2>5
<1>4. ASSUME NEW o \in Option, MemSize(o) PROVE Counted /\ Ends
  <2> DEFINE a == [args EXCEPT !.mem_size = Strtoul(o.arg.number)]
  <2>1. Reads(o) /\ o.opt = "m" /\ required_args' = required_args
    BY <1>4 DEF MemSize
  <2>2. Counted
    BY <1>0, <2>1, CountStep
  <2>3. \E i \in Given({"m"})' : given'[i] = o
    BY <1>1, <2>1
  <2>4. CASE errno'
    <3>1. outcome' = "quit"
      BY <1>4, <2>4 DEF MemSize
    <3> QED
      BY <2>2, <2>3, <2>4, <3>1 DEF RefusedForAReason
  <2>5. CASE ~errno'
    <3>1. SetLevel(o.arg.level, a)
      BY <1>4, <2>5 DEF MemSize
    <3>2. a.program_file = args.program_file /\ a.mem_size = Strtoul(o.arg.number)
      BY <1>0 DEF ArgRecords
    <3>3. CASE o.arg.level = 0
      <4>1. outcome' = "quit" /\ \E i \in Given({"m", "l"})' : given'[i] = o
        BY <1>1, <2>1, <3>1, <3>3 DEF SetLevel
      <4> QED
        BY <2>2, <3>3, <4>1 DEF RefusedForAReason
    <3>4. CASE o.arg.level # 0
      <4>1. outcome' = "parsing" /\ current_log_level' = o.arg.level
        BY <1>1, <2>1, <3>1, <3>4 DEF SetLevel
      <4>2. o.arg.number = 0
        BY <2>1, <3>4, ArgFields DEF Option
      <4>3. Strtoul(o.arg.number) = 0
        BY <4>2, CommandLineAssumption DEF Strtoul, Overflows
      <4>4. args' = [a EXCEPT !.log_level = o.arg.level]
        BY <3>1 DEF SetLevel
      <4>5. /\ args'.program_file = args.program_file /\ args'.mem_size = 0
            /\ args'.log_level = o.arg.level
        BY <1>0, <4>3, <4>4 DEF ArgRecords
      <4>6. Meant'
        BY <1>0, <1>1, <2>1, <3>4, <4>1, <4>5, MeantStep
      <4> QED
        BY <2>2, <4>1, <4>6 DEF RefusedForAReason
    <3> QED
      BY <3>3, <3>4
  <2> QED
    BY <2>4, <2>5
<1>5. ASSUME NEW o \in Option, MemSizeBare(o) \/ Help(o) \/ Complaint(o) \/ UnknownLong(o)
      PROVE  Counted /\ Ends
  <2>1. /\ Reads(o) /\ o.opt \in {"mem-size", "h", "?", "unknown long"}
        /\ UNCHANGED <<required_args, args, current_log_level>>
        /\ \/ o.opt = "h" /\ outcome' = "quit"
           \/ o.opt \in {"mem-size", "unknown long"} /\ outcome' = "crashed"
           \/ o.opt \in {"?", "unknown long"} /\ outcome' = "parsing"
    BY <1>1, <1>5 DEF MemSizeBare, Help, Complaint, UnknownLong
  <2>2. Counted
    BY <1>0, <2>1, CountStep
  <2>3. CASE o.opt = "h" /\ outcome' = "quit"
    <3>1. Given({"h"})' # {}
      BY <1>1, <2>1, <2>3
    <3> QED
      BY <2>2, <2>3, <3>1 DEF RefusedForAReason
  <2>4. CASE o.opt \in {"mem-size", "unknown long"} /\ outcome' = "crashed"
    BY <1>1, <2>1, <2>2, <2>4 DEF RefusedForAReason
  <2>5. CASE o.opt \in {"?", "unknown long"} /\ outcome' = "parsing"
    <3>1. Meant'
      BY <1>0, <1>1, <2>1, <2>5, MeantStep DEF Meant, LevelMeant
    <3> QED
      BY <2>2, <2>5, <3>1 DEF RefusedForAReason
  <2> QED
    BY <2>1, <2>3, <2>4, <2>5
<1>6. ASSUME EndOfOptions PROVE Counted /\ Ends
  <2>1. /\ outcome = "parsing" /\ UNCHANGED <<given, required_args, args, current_log_level>>
        /\ outcome' = IF required_args # 0 THEN "quit" ELSE "parsed"
    BY <1>6 DEF EndOfOptions, Unmet
  <2>2. Cardinality(Given({"p"})) \in Nat
    BY <1>0, GivenFinite
  <2>3. Given({"p"})' = Given({"p"})
    BY <2>1 DEF Given
  <2>4. Meant'
    BY <1>0, <2>1 DEF Meant, FileMeant, LevelMeant, LastOf, Given
  <2>5. outcome' = "quit" => Cardinality(Given({"p"})') # 1
    BY <1>0, <2>1, <2>2, <2>3
  <2> QED
    BY <1>0, <2>1, <2>3, <2>4, <2>5 DEF RefusedForAReason
<1> QED
  BY <1>0, <1>2, <1>3, <1>4, <1>5, <1>6 DEF NextOption, ArgsMeanInv

\* Before the first option the arguments are the defaults.
LEMMA ArgsMeanInit == Init => ArgsMeanInv
<1> SUFFICES ASSUME Init PROVE ArgsMeanInv
  OBVIOUS
<1>1. /\ given = <<>> /\ required_args = 1 /\ args.mem_size = BaseMem
      /\ args.log_level = LOG_INFO /\ current_log_level = LOG_INFO
      /\ outcome = "parsing"
  BY DEF Init
<1>2. \A opts : Given(opts) = {}
  BY <1>1 DEF Given
<1>3. Cardinality(Given({"p"})) = 0
  BY <1>2, FS_EmptySet
<1>4. Meant
  BY <1>1, <1>2 DEF Meant, FileMeant, LevelMeant
<1> QED
  BY <1>1, <1>3, <1>4, ArgsInit DEF ArgsMeanInv, RefusedForAReason

\* The invariant gives both properties.
LEMMA MeantIsValid == ArgsMeanInv => ParsedMeansValid /\ RefusedForAReason
<1> SUFFICES ASSUME ArgsMeanInv, outcome = "parsed" PROVE ParsedMeansValid
  BY DEF ArgsMeanInv, ParsedMeansValid
<1>1. /\ given \in Seq(Option) /\ Meant /\ required_args = 0
      /\ required_args = 1 - Cardinality(Given({"p"}))
  BY DEF ArgsMeanInv, ArgsInv, TypeOK
<1>2. Cardinality(Given({"p"})) = 1
  BY <1>1, GivenFinite
<1>3. Given({"p"}) # {}
  BY <1>2, FS_EmptySet
<1>4. args.program_file = given[Final(Given({"p"}))].file
  BY <1>1, <1>3, FinalIsLast DEF Meant, FileMeant
<1>5. args.mem_size = IF Given({"m"}) = {} THEN BaseMem
                      ELSE given[Final(Given({"m"}))].arg.number
  <2>1. CASE Given({"m"}) = {}
    BY <1>1, <2>1 DEF Meant
  <2>2. ASSUME Given({"m"}) # {}
        PROVE  \E i \in Given({"m"}) : i = Final(Given({"m"}))
    BY <1>1, <2>2, LastExists, FinalIsLast DEF LastOf
  <2>3. CASE Given({"m"}) # {}
    <3>1. PICK i \in Given({"m"}) : i = Final(Given({"m"}))
      BY <2>2, <2>3
    <3>2. /\ i \in DOMAIN given /\ given[i] \in Option /\ given[i].opt = "m"
          /\ i \in Given({"m", "l"})
      BY <1>1 DEF Given
    <3>3. given[i].arg.number = 0
      BY <1>1, <3>2, ArgFields DEF Option, Meant
    <3> QED
      BY <1>1, <2>3, <3>1, <3>3 DEF Meant
  <2> QED
    BY <2>1, <2>3
<1>6. ASSUME \A i \in Given({"m"}) : \E j \in Given({"l"}) : i < j
      PROVE  args.log_level = IF Given({"l"}) = {} THEN LOG_INFO
                              ELSE given[Final(Given({"l"}))].arg.level
  <2>1. \A i : i \in Given({"m", "l"}) <=> i \in Given({"m"}) \/ i \in Given({"l"})
    BY DEF Given
  <2>2. CASE Given({"m", "l"}) = {}
    BY <1>1, <2>1, <2>2 DEF Meant, LevelMeant, LastOf
  <2>3. ASSUME NEW i \in Nat, LastOf({"m", "l"}, i), args.log_level = given[i].arg.level
        PROVE  Given({"l"}) # {} /\ Final(Given({"l"})) = i
    <3>1. Given({"m"}) \subseteq Nat /\ Given({"l"}) \subseteq Nat
      BY <1>1, GivenFinite
    <3>2. i \notin Given({"m"})
      BY <1>6, <2>1, <2>3, <3>1 DEF LastOf
    <3>3. LastOf({"l"}, i)
      BY <2>1, <2>3, <3>2 DEF LastOf
    <3> QED
      BY <1>1, <3>3, FinalIsLast
  <2>4. \/ Given({"m", "l"}) = {}
        \/ \E i \in Nat : LastOf({"m", "l"}, i) /\ args.log_level = given[i].arg.level
    BY <1>1 DEF Meant, LevelMeant
  <2> QED
    BY <2>2, <2>3, <2>4
<1>7. /\ \A i \in Given({"l"}) : given[i].arg.level # 0
      /\ Given({"h", "mem-size"}) = {} /\ current_log_level = args.log_level
  BY <1>1 DEF Meant, LevelMeant, Given
<1> QED
  BY <1>2, <1>4, <1>5, <1>6, <1>7 DEF ParsedMeansValid

------------------------------------------------------------------------------
\* The life cycle.

\* Holders with one kind of block, for as long as it lives.
Holds(b, h) == ptr[h] = IF b \in live THEN b ELSE NULL
Simple ==
    /\ Holds("bus", "sbus") /\ Holds("input", "input_buf")
    /\ Holds("regs", "regs") /\ Holds("decoded", "decoded_ins")

\* The way of the device: nothing yet or nothing any more, the metadata with its
\* memory, the device around them, and the device in the list of the bus.
NotOnBus == "bus" \in live => ptr["io_devs"] = NULL
NoChain ==
    /\ "metadata" \notin live /\ "memory" \notin live
    /\ "device" \notin live /\ "node" \notin live
    /\ ptr["mdata"] = NULL /\ ptr["mem"] = NULL /\ NotOnBus
MetaChain ==
    /\ "metadata" \in live /\ "memory" \in live
    /\ "device" \notin live /\ "node" \notin live
    /\ ptr["mdata"] = "metadata" /\ ptr["mem"] = NULL /\ NotOnBus
    /\ ptr["exposed_memory"] = "memory"
DeviceChain ==
    /\ "metadata" \in live /\ "memory" \in live
    /\ "device" \in live /\ "node" \notin live
    /\ ptr["mdata"] = NULL /\ ptr["mem"] = "device" /\ NotOnBus
    /\ ptr["metadata"] = "metadata" /\ ptr["exposed_memory"] = "memory"
MappedChain ==
    /\ "metadata" \in live /\ "memory" \in live
    /\ "device" \in live /\ "node" \in live
    /\ ptr["mdata"] = NULL /\ ptr["mem"] = NULL
    /\ "bus" \in live /\ ptr["io_devs"] = "node" /\ ptr["data"] = "device"
    /\ ptr["metadata"] = "metadata" /\ ptr["exposed_memory"] = "memory"

\* How far it is where; out of memory it may stop early.
Chain ==
    /\ at \in {"start", "args", "buffer", "read", "metadata", "free cpu", "returned"} => NoChain
    /\ at = "start" => ptr["io_devs"] = NULL
    /\ at \in {"input", "device"} => MetaChain
    /\ at = "map" => DeviceChain
    /\ at \in {"cpu", "check"} \union Looping => MappedChain
    /\ at \in {"free input_buf", "free mem"} =>
          MappedChain \/ (nomem /\ (NoChain \/ DeviceChain))
    /\ at \in {"free mdata", "free sbus"} => MappedChain \/ (nomem /\ NoChain)

\* Where the other blocks live.
Lifetimes ==
    /\ at \in {"start", "free cpu", "returned"} => "bus" \notin live
    /\ at \notin {"start", "free cpu", "returned"} => "bus" \in live \/ nomem
    /\ at \in {"start", "args", "buffer", "device", "map", "cpu", "check", "free mem",
               "free mdata", "free sbus", "free cpu", "returned"} \union Looping =>
          "input" \notin live
    /\ at \in {"check"} \union Looping => "regs" \in live
    /\ at = "returned" => "regs" \notin live
    /\ at \notin {"execute", "illegal"} \union Ended \/ at = "returned" =>
          "decoded" \notin live

\* What the flags of the program file tell, from the read to the end of the loop.
Unread == stream = [read |-> 0, eof |-> FALSE, error |-> FALSE]
Told ==
    /\ stream.eof => stream.read = file.size /\ file.size < args.mem_size
    /\ ~stream.eof /\ ~stream.error => file.size >= args.mem_size
CutOff == ~stream.eof /\ ~stream.error
Flags ==
    /\ at \in {"start", "args", "buffer", "read"} => Unread
    /\ at \in {"metadata", "input", "device", "map", "cpu", "check", "refused"}
               \union Looping => Told
    /\ at = "refused" => CutOff
    /\ at \in Looping => AtEnd

Faults ==
    /\ FaultsOnlyWithoutMemory
    /\ fault # "none" => at = "crashed"
    /\ at \notin {"start", "args"} => outcome = "parsed"

\* The part of LifeTypeOK that is about blocks and pointers.
HeapTyped ==
    /\ at \in Place /\ live \subseteq Block
    /\ ptr \in [Holder -> Block \union {NULL}]
    /\ fault \in {"none", "null", "assert", "overrun", "empty list", "double free",
                 "unset handler"}

LifeInv ==
    /\ LifeTypeOK /\ MemSizeKnown /\ Simple /\ Chain /\ Lifetimes /\ Flags /\ Faults

------------------------------------------------------------------------------
\* One step of main.

\* The pointers that own blocks, one by one.
LEMMA Holders ==
    Holder = {"input_buf", "mem", "mdata", "sbus", "regs", "decoded_ins",
              "io_devs", "data", "metadata", "exposed_memory"}
  BY DEF Holder, Local, HomeOf

\* A simple holder is set when its block is allocated and cleared when it is freed.
LEMMA SimpleStep == ASSUME LifeInv, LifeNext PROVE Simple'
<1>0. /\ ptr \in [Holder -> Block \union {NULL}] /\ at \in Place /\ live \subseteq Block
      /\ Simple /\ Chain /\ Lifetimes
  BY DEF LifeInv, LifeTypeOK
<1>1. ASSUME NewBus PROVE Simple'
  BY <1>0, <1>1, Holders DEF Simple, Holds, NewBus, Allocates, Fails
<1>2. ASSUME Options PROVE Simple'
  BY <1>0, <1>2, Holders DEF Simple, Holds, Options, lifeVars
<1>3. ASSUME OpenProgram PROVE Simple'
  BY <1>0, <1>3, Holders DEF Simple, Holds, OpenProgram
<1>4. ASSUME NewBuffer PROVE Simple'
  BY <1>0, <1>4, Holders DEF Simple, Holds, NewBuffer, Allocates, Fails
<1>5. ASSUME ReadProgram PROVE Simple'
  BY <1>0, <1>5, Holders DEF Simple, Holds, ReadProgram
<1>6. ASSUME NewMetadata PROVE Simple'
  BY <1>0, <1>6, Holders DEF Simple, Holds, NewMetadata, Fails
<1>7. ASSUME FreeBuffer PROVE Simple'
  BY <1>0, <1>7, Holders DEF Simple, Holds, FreeBuffer, Releases
<1>8. ASSUME NewDevice PROVE Simple'
  BY <1>0, <1>8, Holders DEF Simple, Holds, NewDevice, Moved
<1>9. ASSUME MapDevice PROVE Simple'
  BY <1>0, <1>9, Holders DEF Simple, Holds, MapDevice, Crashes, Fails, Moved
<1>10. ASSUME InitCpu PROVE Simple'
  BY <1>0, <1>10, Holders DEF Simple, Holds, InitCpu, Allocates, Fails
<1>11. ASSUME CheckProgram PROVE Simple'
  BY <1>0, <1>11, Holders DEF Simple, Holds, CheckProgram
<1>12. ASSUME HaltLoop PROVE Simple'
  BY <1>0, <1>12, Holders DEF Simple, Holds, HaltLoop
<1>13. ASSUME DecodeUnknown PROVE Simple'
  BY <1>0, <1>13, Holders DEF Simple, Holds, DecodeUnknown
<1>14. ASSUME Decode PROVE Simple'
  BY <1>0, <1>14, Holders DEF Simple, Holds, Decode, Allocates
<1>15. ASSUME Execute PROVE Simple'
  BY <1>0, <1>15, Holders DEF Simple, Holds, Execute, Stolen, Releases
<1>16. ASSUME Illegal PROVE Simple'
  BY <1>0, <1>16, Holders DEF Simple, Holds, Illegal
<1>17. ASSUME UnwindInput PROVE Simple'
  BY <1>0, <1>17, Holders DEF Simple, Holds, UnwindInput, Releases
<1>18. ASSUME UnwindMem PROVE Simple'
  BY <1>0, <1>18, Holders
  DEF Simple, Holds, Chain, NoChain, DeviceChain, MappedChain, UnwindMem, Releases,
      DeviceAt, MetadataAt
<1>19. ASSUME UnwindMdata PROVE Simple'
  BY <1>0, <1>19, Holders
  DEF Simple, Holds, Chain, NoChain, MappedChain, UnwindMdata, Releases, MetadataAt
<1>20. ASSUME UnwindBus PROVE Simple'
  BY <1>0, <1>20, Holders
  DEF Simple, Holds, Chain, NoChain, MappedChain, NotOnBus, UnwindBus, Crashes,
      Releases, DeviceAt, MetadataAt
<1>21. ASSUME UnwindCpu PROVE Simple'
  BY <1>0, <1>21, Holders DEF Simple, Holds, UnwindCpu, Releases
<1> QED
  BY <1>1, <1>2, <1>3, <1>4, <1>5, <1>6, <1>7, <1>8, <1>9, <1>10, <1>11, <1>12, <1>13,
     <1>14, <1>15, <1>16, <1>17, <1>18, <1>19, <1>20, <1>21 DEF LifeNext

\* MOVE takes the device from holder to holder; what is unwound is unlinked.
LEMMA ChainStep == ASSUME LifeInv, LifeNext PROVE Chain'
<1>0. /\ ptr \in [Holder -> Block \union {NULL}] /\ at \in Place /\ live \subseteq Block
      /\ Simple /\ Chain /\ Lifetimes
  BY DEF LifeInv, LifeTypeOK
<1>1. ASSUME NewBus PROVE Chain'
  BY <1>0, <1>1, Holders
  DEF Chain, NoChain, NotOnBus, Looping, NewBus, Allocates, Fails
<1>2. ASSUME Options PROVE Chain'
  BY <1>0, <1>2, Holders
  DEF Chain, NoChain, MappedChain, NotOnBus, Options, lifeVars
<1>3. ASSUME OpenProgram PROVE Chain'
  BY <1>0, <1>3, Holders DEF Chain, NoChain, NotOnBus, Looping, OpenProgram
<1>4. ASSUME NewBuffer PROVE Chain'
  BY <1>0, <1>4, Holders
  DEF Chain, NoChain, NotOnBus, Looping, NewBuffer, Allocates, Fails
<1>5. ASSUME ReadProgram PROVE Chain'
  BY <1>0, <1>5, Holders DEF Chain, NoChain, NotOnBus, Looping, ReadProgram
<1>6. ASSUME NewMetadata PROVE Chain'
  BY <1>0, <1>6, Holders
  DEF Chain, NoChain, MetaChain, NotOnBus, Looping, NewMetadata, Fails
<1>7. ASSUME FreeBuffer PROVE Chain'
  BY <1>0, <1>7, Holders
  DEF Chain, MetaChain, NotOnBus, NULL, Simple, Holds, Looping, FreeBuffer, Releases
<1>8. ASSUME NewDevice PROVE Chain'
  BY <1>0, <1>8, Holders
  DEF Chain, MetaChain, DeviceChain, NotOnBus, Looping, NewDevice, Moved
<1>9. ASSUME MapDevice PROVE Chain'
  BY <1>0, <1>9, Holders
  DEF Chain, DeviceChain, MappedChain, NotOnBus, Simple, Holds, Looping, MapDevice,
      Crashes, Fails, Moved, AfterMapError
<1>10. ASSUME InitCpu PROVE Chain'
  BY <1>0, <1>10, Holders DEF Chain, MappedChain, InitCpu, Allocates, Fails
<1>11. ASSUME CheckProgram PROVE Chain'
  BY <1>0, <1>11, Holders DEF Chain, MappedChain, CheckProgram
<1>12. ASSUME HaltLoop PROVE Chain'
  BY <1>0, <1>12, Holders DEF Chain, MappedChain, Looping, HaltLoop
<1>13. ASSUME DecodeUnknown PROVE Chain'
  BY <1>0, <1>13, Holders DEF Chain, MappedChain, Looping, DecodeUnknown
<1>14. ASSUME Decode PROVE Chain'
  BY <1>0, <1>14, Holders DEF Chain, MappedChain, Looping, Decode, Allocates
<1>15. ASSUME Execute PROVE Chain'
  BY <1>0, <1>15, Holders
  DEF Chain, MappedChain, NULL, Simple, Holds, Looping, Execute, Stolen, Releases
<1>16. ASSUME Illegal PROVE Chain'
  BY <1>0, <1>16, Holders DEF Chain, Looping, Illegal
<1>17. ASSUME UnwindInput PROVE Chain'
  BY <1>0, <1>17, Holders
  DEF Chain, NoChain, DeviceChain, MappedChain, NotOnBus, NULL, Simple, Holds, Looping,
      UnwindInput, Releases
<1>18. ASSUME UnwindMem PROVE Chain'
  BY <1>0, <1>18, Holders
  DEF Chain, NoChain, DeviceChain, MappedChain, NotOnBus, NULL, Looping, UnwindMem,
      Releases, DeviceAt, MetadataAt
<1>19. ASSUME UnwindMdata PROVE Chain'
  BY <1>0, <1>19, Holders
  DEF Chain, NoChain, MappedChain, NotOnBus, Looping, UnwindMdata, Releases, MetadataAt
<1>20. ASSUME UnwindBus PROVE Chain'
  <2>1. CASE at' = "crashed"
    BY <1>20, <2>1 DEF Chain, UnwindBus, Looping
  <2>2. CASE at' # "crashed" /\ MappedChain
    <3>1. ptr["sbus"] = "bus"
      BY <1>0, <2>2 DEF MappedChain, Simple, Holds
    <3>2. Releases({"memory", "metadata", "device", "node", "bus"}, "sbus")
      BY <1>20, <2>2, <3>1
      DEF MappedChain, UnwindBus, Crashes, DeviceAt, MetadataAt, NULL
    <3>3. NoChain'
      BY <1>0, <2>2, <3>2, Holders DEF NoChain, MappedChain, NotOnBus, Releases
    <3> QED
      BY <1>20, <2>2, <3>3 DEF Chain, UnwindBus, Crashes, Looping
  <2>3. CASE at' # "crashed" /\ ~MappedChain
    <3>1. nomem /\ NoChain /\ at' = "free cpu"
      BY <1>0, <1>20, <2>3 DEF Chain, UnwindBus, Crashes
    <3>2. CASE ptr["sbus"] = NULL
      <4>1. Releases({}, "sbus")
        BY <1>20, <2>3, <3>2 DEF UnwindBus, Crashes
      <4>2. NoChain'
        BY <1>0, <3>1, <4>1, Holders DEF NoChain, NotOnBus, Releases
      <4> QED
        BY <3>1, <4>2 DEF Chain, Looping
    <3>3. CASE ptr["sbus"] # NULL
      <4>1. "bus" \in live
        BY <1>0, <3>3 DEF Simple, Holds
      <4>2. ptr["io_devs"] = NULL
        BY <3>1, <4>1 DEF NoChain, NotOnBus
      <4> QED
        BY <1>20, <2>3, <3>3, <4>2 DEF UnwindBus, Crashes
    <3> QED
      BY <3>2, <3>3
  <2> QED
    BY <2>1, <2>2, <2>3
<1>21. ASSUME UnwindCpu PROVE Chain'
  BY <1>0, <1>21, Holders DEF Chain, NoChain, NotOnBus, Looping, UnwindCpu, Releases
<1> QED
  BY <1>1, <1>2, <1>3, <1>4, <1>5, <1>6, <1>7, <1>8, <1>9, <1>10, <1>11, <1>12, <1>13,
     <1>14, <1>15, <1>16, <1>17, <1>18, <1>19, <1>20, <1>21 DEF LifeNext

\* Every block is allocated and freed at its place.
LEMMA LifetimesStep == ASSUME LifeInv, LifeNext PROVE Lifetimes'
<1>0. /\ ptr \in [Holder -> Block \union {NULL}] /\ at \in Place /\ live \subseteq Block
      /\ Simple /\ Chain /\ Lifetimes
  BY DEF LifeInv, LifeTypeOK
<1>1. ASSUME NewBus PROVE Lifetimes'
  BY <1>0, <1>1, Holders DEF Lifetimes, Looping, Ended, NewBus, Allocates, Fails
<1>2. ASSUME Options PROVE Lifetimes'
  BY <1>0, <1>2, Holders DEF Lifetimes, Options, lifeVars
<1>3. ASSUME OpenProgram PROVE Lifetimes'
  BY <1>0, <1>3, Holders DEF Lifetimes, Looping, Ended, OpenProgram
<1>4. ASSUME NewBuffer PROVE Lifetimes'
  BY <1>0, <1>4, Holders DEF Lifetimes, Looping, Ended, NewBuffer, Allocates, Fails
<1>5. ASSUME ReadProgram PROVE Lifetimes'
  BY <1>0, <1>5, Holders DEF Lifetimes, Looping, Ended, ReadProgram
<1>6. ASSUME NewMetadata PROVE Lifetimes'
  BY <1>0, <1>6, Holders DEF Lifetimes, Looping, Ended, NewMetadata, Fails
<1>7. ASSUME FreeBuffer PROVE Lifetimes'
  BY <1>0, <1>7, Holders
  DEF Lifetimes, NULL, Simple, Holds, Looping, Ended, FreeBuffer, Releases
<1>8. ASSUME NewDevice PROVE Lifetimes'
  BY <1>0, <1>8, Holders DEF Lifetimes, Looping, Ended, NewDevice
<1>9. ASSUME MapDevice PROVE Lifetimes'
  BY <1>0, <1>9, Holders
  DEF Lifetimes, Looping, Ended, MapDevice, Crashes, Fails, AfterMapError
<1>10. ASSUME InitCpu PROVE Lifetimes'
  BY <1>0, <1>10, Holders DEF Lifetimes, Looping, Ended, InitCpu, Allocates, Fails
<1>11. ASSUME CheckProgram PROVE Lifetimes'
  BY <1>0, <1>11, Holders DEF Lifetimes, Ended, CheckProgram
<1>12. ASSUME HaltLoop PROVE Lifetimes'
  BY <1>0, <1>12, Holders DEF Lifetimes, Looping, Ended, HaltLoop
<1>13. ASSUME DecodeUnknown PROVE Lifetimes'
  BY <1>0, <1>13, Holders DEF Lifetimes, Looping, DecodeUnknown
<1>14. ASSUME Decode PROVE Lifetimes'
  BY <1>0, <1>14, Holders DEF Lifetimes, Looping, Ended, Decode, Allocates
<1>15. ASSUME Execute PROVE Lifetimes'
  BY <1>0, <1>15, Holders
  DEF Lifetimes, NULL, Simple, Holds, Looping, Execute, Stolen, Releases
<1>16. ASSUME Illegal PROVE Lifetimes'
  BY <1>0, <1>16, Holders DEF Lifetimes, Looping, Ended, Illegal
<1>17. ASSUME UnwindInput PROVE Lifetimes'
  BY <1>0, <1>17, Holders
  DEF Lifetimes, NULL, Simple, Holds, Looping, Ended, UnwindInput, Releases
<1>18. ASSUME UnwindMem PROVE Lifetimes'
  BY <1>0, <1>18, Holders
  DEF Lifetimes, Chain, MappedChain, Looping, Ended, UnwindMem, Releases, DeviceAt
<1>19. ASSUME UnwindMdata PROVE Lifetimes'
  BY <1>0, <1>19, Holders
  DEF Lifetimes, Chain, MappedChain, Looping, Ended, UnwindMdata, Releases, MetadataAt
<1>20. ASSUME UnwindBus PROVE Lifetimes'
  BY <1>0, <1>20, Holders
  DEF Lifetimes, NULL, Simple, Holds, Looping, Ended, UnwindBus, Crashes, Releases
<1>21. ASSUME UnwindCpu PROVE Lifetimes'
  BY <1>0, <1>21, Holders
  DEF Lifetimes, Simple, Holds, Looping, Ended, UnwindCpu, Releases
<1> QED
  BY <1>1, <1>2, <1>3, <1>4, <1>5, <1>6, <1>7, <1>8, <1>9, <1>10, <1>11, <1>12, <1>13,
     <1>14, <1>15, <1>16, <1>17, <1>18, <1>19, <1>20, <1>21 DEF LifeNext

\* The file and the arguments do not change between the read and the end.
LEMMA FlagsKept ==
    ASSUME UNCHANGED <<file, stream, args>>
    PROVE (Unread' <=> Unread) /\ (Told' <=> Told) /\ (CutOff' <=> CutOff) /\ (AtEnd' <=> AtEnd)
  BY Zenon DEF Unread, Told, CutOff, AtEnd

\* The end-of-file flag after a read of one item of mem_size bytes.
LEMMA FlagsStep == ASSUME LifeInv, LifeNext PROVE Flags'
<1>0. Flags /\ at \in Place
  BY DEF LifeInv, LifeTypeOK
<1>1. ASSUME NewBus PROVE Flags'
  <2>1. UNCHANGED <<file, stream, args>>
    BY <1>1 DEF NewBus
  <2> QED
    BY <1>0, <1>1, <2>1, FlagsKept DEF NewBus, Flags, Looping
<1>2. ASSUME Options PROVE Flags'
  <2>1. at = "args" /\ at' = "args" /\ stream' = stream
    BY <1>2 DEF Options, lifeVars
  <2>2. Unread'
    BY <1>0, <2>1 DEF Flags, Unread
  <2> QED
    BY <2>1, <2>2 DEF Flags, Looping
<1>3. ASSUME ReadProgram PROVE Flags'
  <2>1. at' = "metadata" /\ file' = file /\ args' = args
    BY <1>3 DEF ReadProgram, argVars
  <2>2. file.size \in Nat /\ args.mem_size \in Nat
    <3>1. file.size \in Sizes /\ args \in ArgRecords
      BY ArgsTyped DEF LifeInv, LifeTypeOK
    <3>2. file.size \in Nat
      BY <3>1, LifeAssumption
    <3>3. args.mem_size \in Nat
      BY <3>1, CommandLineAssumption DEF ArgRecords
    <3> QED
      BY <3>2, <3>3
  <2>3. CASE args.mem_size > 0 /\ ~file.readable
    <3>1. stream' = [read |-> 0, eof |-> FALSE, error |-> TRUE]
      BY <1>3, <2>3 DEF ReadProgram
    <3>2. ~stream'.eof /\ stream'.error
      BY Zenon, <3>1
    <3>3. Told'
      BY Zenon, <3>2 DEF Told
    <3> QED
      BY <2>1, <3>3 DEF Flags, Looping
  <2>4. CASE ~(args.mem_size > 0 /\ ~file.readable)
    <3>1. stream' = Fread(args.mem_size)
      BY <1>3, <2>4 DEF ReadProgram
    <3>2. /\ stream'.eof <=> file.size < args.mem_size
          /\ stream'.read = Lesser(file.size, args.mem_size)
      BY Zenon, <3>1 DEF Fread
    <3>3. /\ file.size < args.mem_size => Lesser(file.size, args.mem_size) = file.size
          /\ ~(file.size < args.mem_size) => file.size >= args.mem_size
      BY <2>2 DEF Lesser
    <3>4. Told'
      BY Zenon, <2>1, <3>2, <3>3 DEF Told
    <3> QED
      BY <2>1, <3>4 DEF Flags, Looping
  <2> QED
    BY <2>3, <2>4
<1>4. ASSUME CheckProgram PROVE Flags'
  <2>1. UNCHANGED <<file, stream, args>> /\ at = "check"
    BY <1>4 DEF CheckProgram, argVars
  <2>2. Told /\ Told'
    BY <1>0, <2>1, FlagsKept DEF Flags
  <2>3. at' = "refused" => CutOff
    BY <1>4 DEF CheckProgram, CutOff, AtEnd
  <2>4. at' = "loop" => AtEnd
    BY <1>4 DEF CheckProgram
  <2>5. at' \in {"exited", "loop", "refused"}
    BY <1>4 DEF CheckProgram
  <2> QED
    BY <2>1, <2>2, <2>3, <2>4, <2>5, FlagsKept DEF Flags, Looping
<1>5. CASE OpenProgram \/ NewBuffer \/ NewMetadata \/ FreeBuffer \/ NewDevice \/ MapDevice
  <2>1. UNCHANGED <<file, stream, args>>
    BY <1>5 DEF OpenProgram, NewBuffer, NewMetadata, FreeBuffer, NewDevice, MapDevice, argVars
  <2> QED
    BY <1>0, <1>5, <2>1, FlagsKept
    DEF Flags, OpenProgram, NewBuffer, NewMetadata, FreeBuffer, NewDevice, MapDevice, Crashes,
        AfterMapError, Looping
<1>6. CASE InitCpu \/ HaltLoop \/ DecodeUnknown \/ Decode \/ Execute \/ Illegal
  <2>1. UNCHANGED <<file, stream, args>>
    BY <1>6 DEF InitCpu, HaltLoop, DecodeUnknown, Decode, Execute, Illegal, argVars
  <2> QED
    BY <1>0, <1>6, <2>1, FlagsKept
    DEF Flags, InitCpu, HaltLoop, DecodeUnknown, Decode, Execute, Illegal, Looping
<1>7. CASE UnwindInput \/ UnwindMem \/ UnwindMdata \/ UnwindBus \/ UnwindCpu
  <2>1. UNCHANGED <<file, stream, args>>
    BY <1>7 DEF UnwindInput, UnwindMem, UnwindMdata, UnwindBus, UnwindCpu, argVars
  <2> QED
    BY <1>0, <1>7, <2>1, FlagsKept
    DEF Flags, UnwindInput, UnwindMem, UnwindMdata, UnwindBus, UnwindCpu, Crashes, Looping
<1> QED
  BY <1>1, <1>2, <1>3, <1>4, <1>5, <1>6, <1>7 DEF LifeNext

\* handle_args runs at one place of main, and main changes nothing of it but errno.
LEMMA ArgsChange ==
    ASSUME LifeNext
    PROVE  \/ NextOption
           \/ /\ UNCHANGED <<given, required_args, args, current_log_level, outcome>>
              /\ errno' = errno \/ errno' = TRUE
<1>1. Options => NextOption
  BY DEF Options
<1>2. NewBus => /\ UNCHANGED <<given, required_args, args, current_log_level, outcome>>
                /\ errno' = errno \/ errno' = TRUE
  BY DEF NewBus
<1>3. Options \/ NewBus \/ UNCHANGED argVars
  BY DEF LifeNext, OpenProgram, NewBuffer, ReadProgram, NewMetadata, FreeBuffer, NewDevice,
     MapDevice, InitCpu, CheckProgram, HaltLoop, DecodeUnknown, Decode, Execute, Illegal,
     UnwindInput, UnwindMem, UnwindMdata, UnwindBus, UnwindCpu
<1> QED
  BY <1>1, <1>2, <1>3 DEF argVars

\* Main keeps the types of the arguments.
LEMMA ArgsTypeKept == ASSUME ArgsInv, LifeNext PROVE ArgsInv'
<1>1. CASE NextOption
  BY <1>1, ArgsStep
<1>2. CASE /\ UNCHANGED <<given, required_args, args, current_log_level, outcome>>
           /\ errno' = errno \/ errno' = TRUE
  <2>1. errno' \in BOOLEAN
    BY Zenon, <1>2 DEF ArgsInv, TypeOK
  <2> QED
    BY <1>2, <2>1, ArgsTyped, ArgsTypedNext DEF ArgsInv, MemSizeKnown
<1> QED
  BY <1>1, <1>2, ArgsChange

\* The same where the invariant of main holds.
LEMMA ArgsKept == ASSUME LifeInv, LifeNext PROVE ArgsInv'
  BY ArgsTypeKept DEF LifeInv, LifeTypeOK, ArgsInv

\* Main keeps their meaning; an errno it sets can only be one more reason to quit.
LEMMA ArgsMeanKept == ArgsMeanInv /\ [LifeNext]_vars => ArgsMeanInv'
<1> SUFFICES ASSUME ArgsMeanInv, [LifeNext]_vars PROVE ArgsMeanInv'
  OBVIOUS
<1>1. CASE LifeNext
  <2>1. CASE NextOption
    BY <2>1, ArgsMeanStep
  <2>2. CASE /\ UNCHANGED <<given, required_args, args, current_log_level, outcome>>
             /\ errno' = errno \/ errno' = TRUE
    <3>1. ArgsInv'
      BY <1>1, ArgsTypeKept DEF ArgsMeanInv
    <3>2. \A opts : Given(opts)' = Given(opts)
      BY <2>2 DEF Given
    <3>3. Meant <=> Meant'
      BY <2>2 DEF Meant, FileMeant, LevelMeant, LastOf, Given
    <3>4. RefusedForAReason'
      BY <2>2, <3>2 DEF ArgsMeanInv, RefusedForAReason
    <3> QED
      BY <2>2, <3>1, <3>2, <3>3, <3>4 DEF ArgsMeanInv
  <2> QED
    BY <1>1, <2>1, <2>2, ArgsChange
<1>2. CASE UNCHANGED vars
  <2>1. UNCHANGED <<given, required_args, args, current_log_level, errno, outcome>>
    BY <1>2 DEF vars, argVars
  <2>2. \A opts : Given(opts)' = Given(opts)
    BY <2>1 DEF Given
  <2>3. ArgsInv'
    BY <2>1 DEF ArgsMeanInv, ArgsInv, TypeOK, MemSizeKnown
  <2>4. Meant <=> Meant'
    BY <2>1 DEF Meant, FileMeant, LevelMeant, LastOf, Given
  <2>5. RefusedForAReason'
    BY <2>1, <2>2 DEF ArgsMeanInv, RefusedForAReason
  <2> QED
    BY <2>1, <2>2, <2>3, <2>4, <2>5 DEF ArgsMeanInv
<1> QED
  BY <1>1, <1>2

\* The place in main and the heap keep their types.
LEMMA HeapStep == ASSUME LifeInv, LifeNext PROVE HeapTyped'
<1>0. HeapTyped
  BY DEF LifeInv, LifeTypeOK, HeapTyped
<1>1. ASSUME NewBus PROVE HeapTyped'
  BY <1>0, <1>1, Holders DEF HeapTyped, Place, Block, NewBus, Allocates, Fails
<1>2. ASSUME Options PROVE HeapTyped'
  BY <1>0, <1>2, Holders DEF HeapTyped, Options, lifeVars
<1>3. ASSUME OpenProgram PROVE HeapTyped'
  BY <1>0, <1>3, Holders DEF HeapTyped, Place, Ended, OpenProgram
<1>4. ASSUME NewBuffer PROVE HeapTyped'
  BY <1>0, <1>4, Holders
  DEF HeapTyped, Place, Unwinding, Block, NewBuffer, Allocates, Fails
<1>5. ASSUME ReadProgram PROVE HeapTyped'
  BY <1>0, <1>5, Holders DEF HeapTyped, Place, ReadProgram
<1>6. ASSUME NewMetadata PROVE HeapTyped'
  BY <1>0, <1>6, Holders
  DEF HeapTyped, Place, Unwinding, Ended, Block, NewMetadata, Fails
<1>7. ASSUME FreeBuffer PROVE HeapTyped'
  BY <1>0, <1>7, Holders DEF HeapTyped, Place, FreeBuffer, Releases
<1>8. ASSUME NewDevice PROVE HeapTyped'
  BY <1>0, <1>8, Holders DEF HeapTyped, Place, Ended, Block, NewDevice, Moved
<1>9. ASSUME MapDevice PROVE HeapTyped'
  BY <1>0, <1>9, Holders
  DEF HeapTyped, Place, Unwinding, Ended, Block, MapDevice, Crashes, Fails, Moved,
      AfterMapError
<1>10. ASSUME InitCpu PROVE HeapTyped'
  BY <1>0, <1>10, Holders
  DEF HeapTyped, Place, Ended, Block, InitCpu, Allocates, Fails
<1>11. ASSUME CheckProgram PROVE HeapTyped'
  BY <1>0, <1>11, Holders DEF HeapTyped, Place, Looping, Ended, CheckProgram
<1>12. ASSUME HaltLoop PROVE HeapTyped'
  BY <1>0, <1>12, Holders DEF HeapTyped, Place, Unwinding, HaltLoop
<1>13. ASSUME DecodeUnknown PROVE HeapTyped'
  BY <1>0, <1>13, Holders DEF HeapTyped, Place, Looping, DecodeUnknown
<1>14. ASSUME Decode PROVE HeapTyped'
  BY <1>0, <1>14, Holders
  DEF HeapTyped, Place, Looping, Ended, Block, Decode, Allocates
<1>15. ASSUME Execute PROVE HeapTyped'
  BY <1>0, <1>15, Holders DEF HeapTyped, Place, Looping, Execute, Stolen, Releases
<1>16. ASSUME Illegal PROVE HeapTyped'
  BY <1>0, <1>16, Holders DEF HeapTyped, Place, Ended, Illegal
<1>17. ASSUME UnwindInput PROVE HeapTyped'
  BY <1>0, <1>17, Holders DEF HeapTyped, Place, Unwinding, UnwindInput, Releases
<1>18. ASSUME UnwindMem PROVE HeapTyped'
  BY <1>0, <1>18, Holders DEF HeapTyped, Place, Unwinding, UnwindMem, Releases
<1>19. ASSUME UnwindMdata PROVE HeapTyped'
  BY <1>0, <1>19, Holders DEF HeapTyped, Place, Unwinding, UnwindMdata, Releases
<1>20. ASSUME UnwindBus PROVE HeapTyped'
  BY <1>0, <1>20, Holders
  DEF HeapTyped, Place, Unwinding, Ended, UnwindBus, Crashes, Releases
<1>21. ASSUME UnwindCpu PROVE HeapTyped'
  BY <1>0, <1>21, Holders DEF HeapTyped, Place, Ended, UnwindCpu, Releases
<1> QED
  BY <1>1, <1>2, <1>3, <1>4, <1>5, <1>6, <1>7, <1>8, <1>9, <1>10, <1>11, <1>12, <1>13,
     <1>14, <1>15, <1>16, <1>17, <1>18, <1>19, <1>20, <1>21 DEF LifeNext

\* No step frees twice, and only a want of memory leads to another fault.
LEMMA FaultsStep == ASSUME LifeInv, LifeNext PROVE Faults'
<1>0. /\ ptr \in [Holder -> Block \union {NULL}] /\ at \in Place /\ live \subseteq Block
      /\ Simple /\ Chain /\ Lifetimes /\ Faults
  BY DEF LifeInv, LifeTypeOK
<1>1. ASSUME NewBus PROVE Faults'
  BY <1>0, <1>1, Holders
  DEF Faults, FaultsOnlyWithoutMemory, NewBus, Allocates, Fails
<1>2. ASSUME Options PROVE Faults'
  BY <1>0, <1>2, Holders DEF Faults, FaultsOnlyWithoutMemory, Options, lifeVars
<1>3. ASSUME OpenProgram PROVE Faults'
  BY <1>0, <1>3, Holders DEF Faults, FaultsOnlyWithoutMemory, argVars, OpenProgram
<1>4. ASSUME NewBuffer PROVE Faults'
  BY <1>0, <1>4, Holders
  DEF Faults, FaultsOnlyWithoutMemory, argVars, NewBuffer, Allocates, Fails
<1>5. ASSUME ReadProgram PROVE Faults'
  BY <1>0, <1>5, Holders DEF Faults, FaultsOnlyWithoutMemory, argVars, ReadProgram
<1>6. ASSUME NewMetadata PROVE Faults'
  <2>1. /\ at = "metadata" /\ outcome = "parsed" /\ fault = "none"
        /\ UNCHANGED <<outcome, current_log_level, args>>
    BY <1>0, <1>6 DEF NewMetadata, Faults, argVars
  <2>2. args.mem_size \in {0, BaseMem}
    BY <2>1 DEF LifeInv, MemSizeKnown
  <2>3. DumpOverruns => current_log_level = LOG_DEBUG /\ args.mem_size = 0
    BY <2>2, CommandLineAssumption, LifeAssumption DEF DumpOverruns, Dumps, DumpRowsEnd
  <2>4. \/ DumpOverruns /\ at' = "crashed" /\ fault' = "overrun"
        \/ fault' = "none"
    BY <1>6, <2>1 DEF NewMetadata, Fails
  <2>5. at' \notin {"start", "args"}
    BY <1>6 DEF NewMetadata
  <2> QED
    BY <2>1, <2>3, <2>4, <2>5 DEF Faults, FaultsOnlyWithoutMemory
<1>7. ASSUME FreeBuffer PROVE Faults'
  BY <1>0, <1>7, Holders
  DEF Faults, FaultsOnlyWithoutMemory, Simple, Holds, argVars, FreeBuffer, Releases
<1>8. ASSUME NewDevice PROVE Faults'
  BY <1>0, <1>8, Holders DEF Faults, FaultsOnlyWithoutMemory, argVars, NewDevice
<1>9. ASSUME MapDevice PROVE Faults'
  BY <1>0, <1>9, Holders
  DEF Faults, FaultsOnlyWithoutMemory, NULL, Simple, Holds, Lifetimes, argVars,
      MapDevice, Crashes, Fails
<1>10. ASSUME InitCpu PROVE Faults'
  BY <1>0, <1>10, Holders
  DEF Faults, FaultsOnlyWithoutMemory, argVars, InitCpu, Allocates, Fails
<1>11. ASSUME CheckProgram PROVE Faults'
  BY <1>0, <1>11, Holders DEF Faults, FaultsOnlyWithoutMemory, argVars, CheckProgram
<1>12. ASSUME HaltLoop PROVE Faults'
  BY <1>0, <1>12, Holders DEF Faults, FaultsOnlyWithoutMemory, argVars, HaltLoop
<1>13. ASSUME DecodeUnknown PROVE Faults'
  BY <1>0, <1>13, Holders
  DEF Faults, FaultsOnlyWithoutMemory, argVars, DecodeUnknown
<1>14. ASSUME Decode PROVE Faults'
  BY <1>0, <1>14, Holders
  DEF Faults, FaultsOnlyWithoutMemory, argVars, Decode, Allocates
<1>15. ASSUME Execute PROVE Faults'
  BY <1>0, <1>15, Holders
  DEF Faults, FaultsOnlyWithoutMemory, Simple, Holds, argVars, Execute, Stolen, Releases
<1>16. ASSUME Illegal PROVE Faults'
  BY <1>0, <1>16, Holders DEF Faults, FaultsOnlyWithoutMemory, argVars, Illegal
<1>17. ASSUME UnwindInput PROVE Faults'
  BY <1>0, <1>17, Holders
  DEF Faults, FaultsOnlyWithoutMemory, Simple, Holds, argVars, UnwindInput, Releases
<1>18. ASSUME UnwindMem PROVE Faults'
  BY <1>0, <1>18, Holders
  DEF Faults, FaultsOnlyWithoutMemory, Chain, NoChain, DeviceChain, MappedChain,
      argVars, UnwindMem, Releases, DeviceAt, MetadataAt
<1>19. ASSUME UnwindMdata PROVE Faults'
  BY <1>0, <1>19, Holders
  DEF Faults, FaultsOnlyWithoutMemory, Chain, NoChain, MappedChain, argVars,
      UnwindMdata, Releases, MetadataAt
<1>20. ASSUME UnwindBus PROVE Faults'
  <2>1. /\ at = "free sbus" /\ outcome' = "parsed" /\ fault = "none"
        /\ MappedChain \/ (nomem /\ NoChain)
    BY <1>0, <1>20 DEF UnwindBus, Faults, Chain, argVars
  <2>2. CASE ptr["sbus"] # NULL /\ ptr["io_devs"] = NULL
    <3>1. fault' = "empty list" /\ at' = "crashed" /\ nomem' = nomem
      BY <1>20, <2>2 DEF UnwindBus, Crashes
    <3>2. nomem
      BY <2>1, <2>2 DEF MappedChain, NULL
    <3> QED
      BY <2>1, <3>1, <3>2 DEF Faults, FaultsOnlyWithoutMemory
  <2>3. CASE ptr["sbus"] = NULL
    BY <1>20, <2>1, <2>3 DEF UnwindBus, Releases, Faults, FaultsOnlyWithoutMemory
  <2>4. CASE ptr["sbus"] # NULL /\ ptr["io_devs"] # NULL
    <3>1. ptr["sbus"] = "bus" /\ "bus" \in live
      BY <1>0, <2>4 DEF Simple, Holds
    <3>2. MappedChain
      BY <2>1, <2>4, <3>1 DEF NoChain, NotOnBus
    <3>3. DeviceAt("data") \union {ptr["io_devs"], ptr["sbus"]} \subseteq live
      BY <3>1, <3>2 DEF MappedChain, DeviceAt, MetadataAt, NULL
    <3>4. fault' = "none" /\ at' = "free cpu"
      BY <1>20, <2>1, <2>4, <3>3 DEF UnwindBus, Releases
    <3> QED
      BY <2>1, <3>4 DEF Faults, FaultsOnlyWithoutMemory
  <2> QED
    BY <2>2, <2>3, <2>4
<1>21. ASSUME UnwindCpu PROVE Faults'
  BY <1>0, <1>21, Holders
  DEF Faults, FaultsOnlyWithoutMemory, Simple, Holds, argVars, UnwindCpu, Releases
<1> QED
  BY <1>1, <1>2, <1>3, <1>4, <1>5, <1>6, <1>7, <1>8, <1>9, <1>10, <1>11, <1>12, <1>13,
     <1>14, <1>15, <1>16, <1>17, <1>18, <1>19, <1>20, <1>21 DEF LifeNext

\* The rest of LifeTypeOK: the file, the flags of its stream and nomem.
LEMMA TypeStep == ASSUME LifeInv, LifeNext PROVE LifeTypeOK'
<1>0. /\ TypeOK /\ file \in [size : Sizes, readable : BOOLEAN] /\ nomem \in BOOLEAN
      /\ stream \in [read : 0..args.mem_size, eof : BOOLEAN, error : BOOLEAN]
  BY DEF LifeInv, LifeTypeOK
<1>1. TypeOK' /\ HeapTyped'
  BY ArgsKept, HeapStep DEF ArgsInv
<1>2. file' = file
  BY DEF LifeNext, NewBus, Options, lifeVars, OpenProgram, NewBuffer, ReadProgram, NewMetadata,
     FreeBuffer, NewDevice, MapDevice, InitCpu, CheckProgram, HaltLoop, DecodeUnknown, Decode,
     Execute, Illegal, UnwindInput, UnwindMem, UnwindMdata, UnwindBus, UnwindCpu
<1>3. nomem' = nomem \/ nomem' = TRUE
  BY DEF LifeNext, NewBus, Options, lifeVars, OpenProgram, NewBuffer, ReadProgram, NewMetadata,
     FreeBuffer, NewDevice, MapDevice, InitCpu, CheckProgram, HaltLoop, DecodeUnknown, Decode,
     Execute, Illegal, UnwindInput, UnwindMem, UnwindMdata, UnwindBus, UnwindCpu,
     Allocates, Fails, Releases, Stolen, Crashes
<1>4. nomem' \in BOOLEAN
  BY Zenon, <1>0, <1>3
<1>5. file.size \in Nat /\ args.mem_size \in Nat /\ args'.mem_size \in Nat
  <2>1. file.size \in Sizes /\ args \in ArgRecords /\ args' \in ArgRecords
    BY <1>0, <1>1, ArgsTyped, ArgsTypedNext
  <2>2. file.size \in Nat
    BY <2>1, LifeAssumption
  <2>3. args.mem_size \in Nat /\ args'.mem_size \in Nat
    BY <2>1, CommandLineAssumption DEF ArgRecords
  <2> QED
    BY <2>2, <2>3
<1>6. stream' \in [read : 0..args'.mem_size, eof : BOOLEAN, error : BOOLEAN]
  <2>1. CASE Options
    <3>1. stream' = [read |-> 0, eof |-> FALSE, error |-> FALSE]
      BY <2>1 DEF Options, lifeVars, LifeInv, Flags, Unread
    <3>2. 0 \in 0..args'.mem_size
      BY <1>5
    <3> QED
      BY Zenon, <3>1, <3>2
  <2>2. CASE ReadProgram
    <3>1. args' = args
      BY <2>2 DEF ReadProgram, argVars
    <3>2. 0 \in 0..args.mem_size /\ Lesser(file.size, args.mem_size) \in 0..args.mem_size
      BY <1>5 DEF Lesser
    <3>3. \/ stream' = [read |-> 0, eof |-> FALSE, error |-> TRUE]
          \/ stream' = Fread(args.mem_size)
      BY <2>2 DEF ReadProgram
    <3>4. (file.size < args.mem_size) \in BOOLEAN
      OBVIOUS
    <3>5. CASE stream' = [read |-> 0, eof |-> FALSE, error |-> TRUE]
      BY Zenon, <3>1, <3>2, <3>5
    <3>6. CASE stream' = Fread(args.mem_size)
      <4> DEFINE end == file.size < args.mem_size
      <4>1. /\ stream' = [read  |-> Lesser(file.size, args.mem_size), eof |-> end,
                          error |-> FALSE]
            /\ end \in BOOLEAN
        BY <3>4, <3>6 DEF Fread
      <4> HIDE DEF end
      <4> QED
        BY Zenon, <3>1, <3>2, <4>1
    <3> QED
      BY <3>3, <3>5, <3>6
  <2>3. CASE UNCHANGED <<stream, args>>
    BY <1>0, <2>3
  <2>4. Options \/ ReadProgram \/ UNCHANGED <<stream, args>>
    BY DEF LifeNext, NewBus, OpenProgram, NewBuffer, NewMetadata, FreeBuffer, NewDevice, MapDevice,
       InitCpu, CheckProgram, HaltLoop, DecodeUnknown, Decode, Execute, Illegal, UnwindInput,
       UnwindMem, UnwindMdata, UnwindBus, UnwindCpu, argVars
  <2> QED
    BY <2>1, <2>2, <2>3, <2>4
<1> QED
  BY <1>0, <1>1, <1>2, <1>4, <1>6 DEF LifeTypeOK, HeapTyped

------------------------------------------------------------------------------
\* The invariant.

\* main starts with nothing allocated.
LEMMA LifeInvInit == LifeInit => LifeInv
<1> SUFFICES ASSUME LifeInit PROVE LifeInv
  OBVIOUS
<1>1. ArgsInv
  BY ArgsInit DEF LifeInit
<1>2. HeapTyped
  BY DEF LifeInit, HeapTyped, Place, NULL
<1>3. args.mem_size \in Nat
  <2>1. args \in ArgRecords
    BY <1>1, ArgsTyped DEF ArgsInv
  <2> QED
    BY <2>1, CommandLineAssumption DEF ArgRecords
<1>4. stream \in [read : 0..args.mem_size, eof : BOOLEAN, error : BOOLEAN]
  <2>1. 0 \in 0..args.mem_size
    BY <1>3
  <2> QED
    BY Zenon, <2>1 DEF LifeInit
<1>5. LifeTypeOK
  <2>1. nomem \in BOOLEAN
    BY Zenon DEF LifeInit
  <2> QED
    BY <1>1, <1>2, <1>4, <2>1 DEF LifeInit, LifeTypeOK, ArgsInv, HeapTyped
<1>6. Simple /\ Chain /\ Lifetimes
  BY Holders DEF LifeInit, Simple, Holds, Chain, NoChain, NotOnBus, Lifetimes, Looping, NULL
<1>7. Flags /\ Faults
  BY DEF LifeInit, Flags, Unread, Faults, FaultsOnlyWithoutMemory, Looping
<1> QED
  BY <1>1, <1>5, <1>6, <1>7 DEF LifeInv, ArgsInv

\* Every step of main keeps every part of the invariant.
LEMMA LifeInvNext == LifeInv /\ [LifeNext]_vars => LifeInv'
<1> SUFFICES ASSUME LifeInv, [LifeNext]_vars PROVE LifeInv'
  OBVIOUS
<1>1. CASE LifeNext
  BY <1>1, TypeStep, ArgsKept, SimpleStep, ChainStep, LifetimesStep, FlagsStep, FaultsStep
  DEF LifeInv, ArgsInv
<1>2. CASE UNCHANGED vars
  <2>1. /\ UNCHANGED <<given, required_args, args, current_log_level, errno, outcome>>
        /\ UNCHANGED <<at, live, ptr, file, stream, nomem, fault>>
    BY <1>2 DEF vars, argVars, lifeVars
  <2>2. LifeTypeOK' /\ MemSizeKnown'
    <3>1. TypeOK /\ MemSizeKnown
      BY DEF LifeInv, LifeTypeOK
    <3>2. TypeOK' /\ MemSizeKnown'
      BY <2>1, <3>1 DEF TypeOK, MemSizeKnown
    <3> QED
      BY Zenon, <2>1, <3>2 DEF LifeInv, LifeTypeOK
  <2>3. Simple' /\ Lifetimes'
    BY <2>1 DEF LifeInv, Simple, Holds, Lifetimes
  <2>4. Chain'
    BY <2>1 DEF LifeInv, Chain, NoChain, MetaChain, DeviceChain, MappedChain, NotOnBus
  <2>5. Flags'
    BY <2>1, FlagsKept DEF LifeInv, Flags
  <2>6. Faults'
    BY <2>1 DEF LifeInv, Faults, FaultsOnlyWithoutMemory
  <2> QED
    BY <2>2, <2>3, <2>4, <2>5, <2>6 DEF LifeInv
<1> QED
  BY <1>1, <1>2

\* The invariant of main.
LEMMA LifeInvariant == LifeSpec => []LifeInv
  BY LifeInvInit, LifeInvNext, PTL DEF LifeSpec

------------------------------------------------------------------------------
\* The theorems.

(***************************************************************************)
(* Every variable of handle_args and of main keeps its type, for every     *)
(* command line, program file and pattern of failed allocations: no more   *)
(* of the file is read than the buffer holds.                              *)
(***************************************************************************)
THEOREM LifeTypeCorrect == LifeSpec => []LifeTypeOK
<1>1. LifeInv => LifeTypeOK
  BY DEF LifeInv
<1> QED
  BY <1>1, LifeInvariant, PTL

\* What a pointer in scope can point to.
LEMMA Kinds ==
    ASSUME LifeInv, at \notin {"exited", "refused", "crashed"}
    PROVE  /\ ptr["sbus"] \in {"bus", NULL} /\ ptr["input_buf"] \in {"input", NULL}
           /\ ptr["regs"] \in {"regs", NULL} /\ ptr["decoded_ins"] \in {"decoded", NULL}
           /\ ptr["mem"] \in {"device", NULL} /\ ptr["mdata"] \in {"metadata", NULL}
           /\ "io_devs" \in InScope => ptr["io_devs"] \in {"node", NULL}
           /\ "data" \in InScope => ptr["data"] = "device"
           /\ "metadata" \in InScope => ptr["metadata"] = "metadata"
           /\ "exposed_memory" \in InScope => ptr["exposed_memory"] = "memory"
<1>1. NoChain \/ MetaChain \/ DeviceChain \/ MappedChain
  BY DEF LifeInv, LifeTypeOK, Place, Looping, Unwinding, Ended, Chain
<1>2. /\ "io_devs" \in InScope => "bus" \in live
      /\ "data" \in InScope => "node" \in live
      /\ "metadata" \in InScope => "device" \in live
      /\ "exposed_memory" \in InScope => "metadata" \in live
  BY DEF InScope, Local, HomeOf
<1> QED
  BY <1>1, <1>2
  DEF LifeInv, Simple, Holds, NoChain, MetaChain, DeviceChain, MappedChain, NotOnBus, NULL

\* In each stage of the device every live block has one pointer in scope.
LEMMA OwnersKnown == LifeInv => OneOwner
<1> SUFFICES ASSUME LifeInv, at \notin {"exited", "refused", "crashed"}
             PROVE  /\ \A b \in live : \E h \in Owners(b) : Owners(b) = {h}
                    /\ \A h \in InScope : ptr[h] \in live \union {NULL}
  BY DEF OneOwner
<1>0. /\ Simple /\ live \subseteq Block
      /\ NoChain \/ MetaChain \/ DeviceChain \/ MappedChain
      /\ "decoded" \in live => at \in {"execute", "illegal"}
  BY DEF LifeInv, LifeTypeOK, Place, Looping, Unwinding, Ended, Chain, Lifetimes
<1>1. /\ {"input_buf", "mem", "mdata", "sbus", "regs"} \subseteq InScope
      /\ "decoded_ins" \in InScope <=> at \in {"execute", "illegal"}
      /\ "io_devs" \in InScope <=> "bus" \in live
      /\ "data" \in InScope <=> "node" \in live
      /\ "metadata" \in InScope <=> "device" \in live
      /\ "exposed_memory" \in InScope <=> "metadata" \in live
      /\ InScope \subseteq {"input_buf", "mem", "mdata", "sbus", "regs", "decoded_ins",
                           "io_devs", "data", "metadata", "exposed_memory"}
  BY Holders DEF InScope, Local, HomeOf
<1>2. ASSUME NEW h \in InScope PROVE ptr[h] \in live \union {NULL}
  BY <1>0, <1>1, <1>2
  DEF Simple, Holds, NoChain, MetaChain, DeviceChain, MappedChain, NotOnBus
<1>3. ASSUME NEW b \in live PROVE \E h \in Owners(b) : Owners(b) = {h}
  <2> DEFINE Owner(h) == h \in InScope /\ ptr[h] = b /\ \A g \in InScope : ptr[g] = b => g = h
  <2>1. ASSUME NEW h, Owner(h) PROVE \E g \in Owners(b) : Owners(b) = {g}
    BY Zenon, <2>1 DEF Owners
  <2>2. CASE b \in {"bus", "input", "regs", "decoded"}
    <3>1. b = "bus" => Owner("sbus")
      BY <1>0, <1>1, Kinds DEF Simple, Holds, NULL
    <3>2. b = "input" => Owner("input_buf")
      BY <1>0, <1>1, Kinds DEF Simple, Holds, NULL
    <3>3. b = "regs" => Owner("regs")
      BY <1>0, <1>1, Kinds DEF Simple, Holds, NULL
    <3>4. b = "decoded" => Owner("decoded_ins")
      BY <1>0, <1>1, Kinds DEF Simple, Holds, NULL
    <3> HIDE DEF Owner
    <3> QED
      BY <2>1, <2>2, <3>1, <3>2, <3>3, <3>4
  <2>3. CASE b \in {"metadata", "memory", "device", "node"}
    <3>1. b = "memory" => Owner("exposed_memory")
      BY <1>0, <1>1, Kinds DEF NoChain, MetaChain, DeviceChain, MappedChain, NULL
    <3>2. b = "metadata" => Owner("mdata") \/ Owner("metadata")
      BY <1>0, <1>1, Kinds DEF NoChain, MetaChain, DeviceChain, MappedChain, NULL
    <3>3. b = "device" => Owner("mem") \/ Owner("data")
      BY <1>0, <1>1, Kinds DEF NoChain, MetaChain, DeviceChain, MappedChain, NULL
    <3>4. b = "node" => Owner("io_devs")
      BY <1>0, <1>1, Kinds DEF NoChain, MetaChain, DeviceChain, MappedChain, NULL
    <3> HIDE DEF Owner
    <3> QED
      BY <2>1, <2>3, <3>1, <3>2, <3>3, <3>4
  <2> QED
    BY <1>0, <2>2, <2>3 DEF Block
<1> QED
  BY <1>2, <1>3

(***************************************************************************)
(* On every path of main each allocated block has exactly one owner in     *)
(* scope and no pointer in scope dangles.                                  *)
(***************************************************************************)
THEOREM SingleOwnership == LifeSpec => []OneOwner
  BY OwnersKnown, LifeInvariant, PTL

(***************************************************************************)
(* A main that returns has freed every block of the heap, whatever failed  *)
(* before.  (The FILE of the program and the copy of its name are no       *)
(* blocks: an early return leaves the one open, nobody frees the other.)   *)
(***************************************************************************)
THEOREM ReturnFreesAll == LifeSpec => []NothingLeaks
<1>1. LifeInv => NothingLeaks
  <2> SUFFICES ASSUME LifeInv, at = "returned" PROVE live = {}
    BY DEF NothingLeaks
  <2>1. NoChain /\ live \subseteq Block
    BY DEF LifeInv, LifeTypeOK, Chain
  <2>2. "bus" \notin live /\ "input" \notin live /\ "regs" \notin live /\ "decoded" \notin live
    BY DEF LifeInv, Lifetimes
  <2> QED
    BY <2>1, <2>2 DEF NoChain, Block
<1> QED
  BY <1>1, LifeInvariant, PTL

(***************************************************************************)
(* main never frees twice, and meets another fault only when memory runs   *)
(* out or an empty memory is dumped.                                       *)
(***************************************************************************)
THEOREM FaultsExplained == LifeSpec => []FaultsOnlyWithoutMemory
<1>1. LifeInv => FaultsOnlyWithoutMemory
  BY DEF LifeInv, Faults
<1> QED
  BY <1>1, LifeInvariant, PTL

(***************************************************************************)
(* The loop is only ever entered with registers, and with a bus the memory *)
(* device is mapped to.                                                    *)
(***************************************************************************)
THEOREM MachineComplete == LifeSpec => []LoopHasMachine
<1>1. LifeInv => LoopHasMachine
  <2> SUFFICES ASSUME LifeInv, at \in Looping
               PROVE  MappedChain /\ "regs" \in live /\ Simple
    BY DEF LoopHasMachine, MappedChain, Simple, Holds
  <2> QED
    BY DEF LifeInv, Chain, Lifetimes
<1> QED
  BY <1>1, LifeInvariant, PTL

(***************************************************************************)
(* The loop is entered only with the whole program in memory, and only a   *)
(* program that leaves no byte over is refused.                            *)
(***************************************************************************)
THEOREM ProgramComplete == LifeSpec => []RunsWholeProgram
<1>1. LifeInv => RunsWholeProgram
  BY DEF LifeInv, Flags, Told, CutOff, AtEnd, RunsWholeProgram, Looping
<1> QED
  BY <1>1, LifeInvariant, PTL

\* The invariant of handle_args within main.
LEMMA ArgsMeanInvariant == LifeSpec => []ArgsMeanInv
<1>1. LifeInit => ArgsMeanInv
  BY ArgsMeanInit DEF LifeInit
<1> QED
  BY <1>1, ArgsMeanKept, PTL DEF LifeSpec

(***************************************************************************)
(* For every command line: when main goes on, there was one program file,  *)
(* no -h and a level after every -l; the last level is in force unless an  *)
(* -m came behind it, and the memory size is the last one given.           *)
(***************************************************************************)
THEOREM ParsedArguments == LifeSpec => []ParsedMeansValid
  BY MeantIsValid, ArgsMeanInvariant, PTL

(***************************************************************************)
(* For every command line: handle_args quits or crashes only on one that   *)
(* has what the code takes for a reason, a number after -m included.       *)
(***************************************************************************)
THEOREM RefusedArguments == LifeSpec => []RefusedForAReason
  BY MeantIsValid, ArgsMeanInvariant, PTL
===============================================================================
