------------------------------ MODULE LifeCycle ------------------------------
(***************************************************************************)
(* main of cli/cli.c from its first declaration to its last cleanup: what  *)
(* is allocated, which pointer owns it, where MOVE hands it on and what    *)
(* the cleanup attributes free, on every path that a failed allocation or  *)
(* an unsuitable program file opens.  handle_args is module CommandLine;   *)
(* the main loop is reduced to the decoded instruction it allocates and    *)
(* the execution handler frees (its cycles are module Machine).            *)
(***************************************************************************)
EXTENDS CommandLine

CONSTANT Sizes  \* sizes a program file can have

\* The default memory has room for one row of the dump.
ASSUME LifeAssumption == Sizes \subseteq Nat /\ BaseMem >= 8

\* What the program's own code allocates and frees, but for the copy of the file
\* name; no two of the same kind are live at once.  The FILE that fopen returns is
\* no block: main closes it after the last check and leaves it open before.
Block == {"bus", "input", "metadata", "memory", "device", "node", "regs", "decoded"}
NULL == "NULL"

\* The pointers that own them: local variables (regs is a field of the local cpu),
\* and fields of other blocks.
Local == {"input_buf", "mem", "mdata", "sbus", "regs", "decoded_ins"}
HomeOf == [io_devs |-> "bus", data |-> "node", metadata |-> "device",
           exposed_memory |-> "metadata"]
Holder == Local \union DOMAIN HomeOf

Unwinding == {"free input_buf", "free mem", "free mdata", "free sbus", "free cpu"}
Looping == {"loop", "execute", "illegal"}
Ended == {"exited", "refused", "crashed", "returned"}
Place == {"start", "args", "buffer", "read", "metadata", "input", "device", "map",
          "cpu", "check"} \union Looping \union Unwinding \union Ended

VARIABLES
    at,     \* the next statement of main
    live,   \* the blocks that are allocated
    ptr,    \* what every holder points to
    file,   \* the program file
    stream, \* how many of its bytes were read, and its end-of-file and error flags
    nomem,  \* some allocation failed
    fault   \* the undefined behaviour or failed assertion main ran into

lifeVars == <<at, live, ptr, file, stream, nomem, fault>>
vars == <<argVars, lifeVars>>

LifeInit ==
    /\ Init
    /\ at = "start"
    /\ live = {}
    /\ ptr = [h \in Holder |-> NULL]
    /\ file \in [size : Sizes, readable : BOOLEAN]
    /\ stream = [read |-> 0, eof |-> FALSE, error |-> FALSE]
    /\ nomem = FALSE
    /\ fault = "none"

\* calloc gives block b to holder h, or fails.
Allocates(b, h) ==
    /\ live' = live \union {b}
    /\ ptr' = [ptr EXCEPT ![h] = b]
    /\ UNCHANGED <<nomem, fault>>
Fails == nomem' = TRUE /\ UNCHANGED <<live, ptr, fault>>

\* free of what is at hand, NULL included; the holder is cleared.
ReleasesWithoutClearing(blocks, h) ==
    /\ live' = live \ blocks
    /\ fault' = IF blocks \ {NULL} \subseteq live THEN fault ELSE "double free"
    /\ UNCHANGED <<ptr, nomem>>
Releases(blocks, h) ==
    /\ live' = live \ blocks
    /\ ptr' = [ptr EXCEPT ![h] = NULL]
    /\ fault' = IF blocks \ {NULL} \subseteq live THEN fault ELSE "double free"
    /\ UNCHANGED nomem
Crashes(why) == at' = "crashed" /\ fault' = why /\ UNCHANGED <<live, ptr, nomem>>

\* io_dev_free and freep_io_dev_metadata: what a pointer to a device, and one to
\* its metadata, stands for.
MetadataAt(h) == IF ptr[h] = NULL THEN {} ELSE {ptr["exposed_memory"], ptr[h]}
DeviceAtButMemory(h) == IF ptr[h] = NULL THEN {} ELSE {ptr["metadata"], ptr[h]}
DeviceAt(h) == IF ptr[h] = NULL THEN {} ELSE MetadataAt("metadata") \union {ptr[h]}

\* MOVE of one holder into another.
Copied(to, from) == [ptr EXCEPT ![to] = ptr[from]]
Moved(to, from) == [ptr EXCEPT ![to] = ptr[from], ![from] = NULL]

\* The bus is allocated before the options are read, and not checked; errno tells.
NewBus ==
    /\ at = "start"
    /\ at' = "args"
    /\ \/ Allocates("bus", "sbus") /\ UNCHANGED errno
       \/ Fails /\ errno' = TRUE
    /\ UNCHANGED <<given, required_args, args, current_log_level, outcome, file, stream>>

Options ==
    /\ at = "args"
    /\ NextOption
    /\ UNCHANGED lifeVars

OpenProgram ==
    /\ at = "args"
    /\ outcome = "parsed"
    /\ at' \in {"buffer", "exited"}
    /\ UNCHANGED <<argVars, live, ptr, file, stream, nomem, fault>>

NewBuffer ==
    /\ at = "buffer"
    /\ \/ Allocates("input", "input_buf") /\ at' = "read"
       \/ Fails /\ at' = "free input_buf"
    /\ UNCHANGED <<argVars, file, stream>>

\* fread of one item of mem_size bytes: the end of the file is noticed only by
\* asking for a byte behind it, and an item of no bytes asks for none.
Lesser(a, b) == IF a < b THEN a ELSE b
FreadWholeFile(size) == [read |-> file.size, eof |-> TRUE, error |-> FALSE]
Fread(size) ==
    [read  |-> Lesser(file.size, size),
     eof   |-> file.size < size,
     error |-> FALSE]
ReadProgram ==
    /\ at = "read"
    /\ at' = "metadata"
    /\ stream' = IF args.mem_size > 0 /\ ~file.readable
                 THEN [read |-> 0, eof |-> FALSE, error |-> TRUE]
                 ELSE Fread(args.mem_size)
    /\ UNCHANGED <<argVars, live, ptr, file, nomem, fault>>

\* new_metadata_with_mem.  At level DEBUG it dumps the memory eight bytes at a time
\* up to length - 8, in unsigned arithmetic.
Dumps == current_log_level = LOG_DEBUG
DumpRowsEnd(length) == IF length < 8 THEN UlongMax + 1 + length - 8 ELSE length - 8
DumpOverruns == Dumps /\ DumpRowsEnd(args.mem_size) > args.mem_size
NewMetadata ==
    /\ at = "metadata"
    /\ \/ /\ live' = live \union {"metadata", "memory"}
          /\ ptr' = [ptr EXCEPT !["mdata"] = "metadata", !["exposed_memory"] = "memory"]
          /\ at' = IF DumpOverruns THEN "crashed" ELSE "input"
          /\ fault' = IF DumpOverruns THEN "overrun" ELSE fault
          /\ UNCHANGED nomem
       \/ Fails /\ at' = "free input_buf"
    /\ UNCHANGED <<argVars, file, stream>>

FreeBuffer ==
    /\ at = "input"
    /\ at' = "device"
    /\ Releases({ptr["input_buf"]}, "input_buf")
    /\ UNCHANGED <<argVars, file, stream>>

\* new_io_dev_memory does not check its calloc.
NewDevice ==
    /\ at = "device"
    /\ \/ /\ live' = live \union {"device"}
          /\ ptr' = [Moved("metadata", "mdata") EXCEPT !["mem"] = "device"]
          /\ at' = "map"
          /\ UNCHANGED <<nomem, fault>>
       \/ nomem' = TRUE /\ fault' = "null" /\ at' = "crashed" /\ UNCHANGED <<live, ptr>>
    /\ UNCHANGED <<argVars, file, stream>>

\* sysbus_memory_map_iodev on a bus without devices: no conflict, but it asserts that
\* there is a bus, and the list node may be refused.
IgnoringMapError == "cpu"
AfterMapError == "free input_buf"
MapDevice ==
    /\ at = "map"
    /\ \/ ptr["sbus"] = NULL /\ Crashes("assert")
       \/ /\ ptr["sbus"] # NULL
          /\ live' = live \union {"node"}
          /\ ptr' = [Moved("data", "mem") EXCEPT !["io_devs"] = "node"]
          /\ at' = "cpu"
          /\ UNCHANGED <<nomem, fault>>
       \/ ptr["sbus"] # NULL /\ Fails /\ at' = AfterMapError
    /\ UNCHANGED <<argVars, file, stream>>

\* init_rv64_cpu.
InitCpu ==
    /\ at = "cpu"
    /\ \/ Allocates("regs", "regs") /\ at' = "check"
       \/ Fails /\ at' = "exited"
    /\ UNCHANGED <<argVars, file, stream>>

\* ferror, feof.
AtEndAssumed == TRUE
AtEnd == stream.eof
CheckProgram ==
    /\ at = "check"
    /\ at' = IF stream.error THEN "exited" ELSE IF AtEnd THEN "loop" ELSE "refused"
    /\ UNCHANGED <<argVars, live, ptr, file, stream, nomem, fault>>

\* machine_mainloop ends at the halt instruction, else step_rv64_cpu decodes: an
\* opcode without decoder gets the illegal instruction handler and no block; the
\* other decoders allocate, and leave the handler unset if they cannot.
HaltLoop ==
    /\ at = "loop"
    /\ at' = "free input_buf"
    /\ UNCHANGED <<argVars, live, ptr, file, stream, nomem, fault>>
DecodeUnknown ==
    /\ at = "loop"
    /\ at' = "illegal"
    /\ UNCHANGED <<argVars, live, ptr, file, stream, nomem, fault>>
Decode ==
    /\ at = "loop"
    /\ \/ Allocates("decoded", "decoded_ins") /\ at' \in {"execute", "illegal"}
       \/ nomem' = TRUE /\ fault' = "unset handler" /\ at' = "crashed"
          /\ UNCHANGED <<live, ptr>>
    /\ UNCHANGED <<argVars, file, stream>>

\* An execution handler steals the decoded instruction and frees it on return; the
\* illegal instruction handler exits.
Stolen == Releases({ptr["decoded_ins"]}, "decoded_ins")
Execute ==
    /\ at = "execute"
    /\ at' = "loop"
    /\ Stolen
    /\ UNCHANGED <<argVars, file, stream>>
Illegal ==
    /\ at = "illegal"
    /\ at' = "exited"
    /\ UNCHANGED <<argVars, live, ptr, file, stream, nomem, fault>>

\* return from main: the cleanup attributes, last declaration first.
UnwindInput ==
    /\ at = "free input_buf"
    /\ at' = "free mem"
    /\ Releases({ptr["input_buf"]}, "input_buf")
    /\ UNCHANGED <<argVars, file, stream>>
UnwindMem ==
    /\ at = "free mem"
    /\ at' = "free mdata"
    /\ Releases(DeviceAt("mem"), "mem")
    /\ UNCHANGED <<argVars, file, stream>>
UnwindMdata ==
    /\ at = "free mdata"
    /\ at' = "free sbus"
    /\ Releases(MetadataAt("mdata"), "mdata")
    /\ UNCHANGED <<argVars, file, stream>>

\* freep_sysbus: the list with its devices, then the bus.  linked_list_free reads
\* the first node of a list that may have none.
UnwindBus ==
    /\ at = "free sbus"
    /\ IF ptr["sbus"] # NULL /\ ptr["io_devs"] = NULL THEN Crashes("empty list")
       ELSE /\ at' = "free cpu"
            /\ IF ptr["sbus"] = NULL THEN Releases({}, "sbus")
               ELSE Releases(DeviceAt("data") \union {ptr["io_devs"], ptr["sbus"]}, "sbus")
    /\ UNCHANGED <<argVars, file, stream>>
UnwindCpu ==
    /\ at = "free cpu"
    /\ at' = "returned"
    /\ Releases({ptr["regs"]}, "regs")
    /\ UNCHANGED <<argVars, file, stream>>

LifeNext ==
    \/ NewBus \/ Options \/ OpenProgram \/ NewBuffer \/ ReadProgram \/ NewMetadata
    \/ FreeBuffer \/ NewDevice \/ MapDevice \/ InitCpu \/ CheckProgram
    \/ HaltLoop \/ DecodeUnknown \/ Decode \/ Execute \/ Illegal
    \/ UnwindInput \/ UnwindMem \/ UnwindMdata \/ UnwindBus \/ UnwindCpu

LifeSpec == LifeInit /\ [][LifeNext]_vars

------------------------------------------------------------------------------
\* Correctness.

(***************************************************************************)
(* The types of main's state; no more is read than the buffer holds.       *)
(***************************************************************************)
LifeTypeOK ==
    /\ TypeOK
    /\ at \in Place
    /\ live \subseteq Block
    /\ ptr \in [Holder -> Block \union {NULL}]
    /\ file \in [size : Sizes, readable : BOOLEAN]
    /\ stream \in [read : 0..args.mem_size, eof : BOOLEAN, error : BOOLEAN]
    /\ nomem \in BOOLEAN
    /\ fault \in {"none", "null", "assert", "overrun", "empty list", "double free",
                 "unset handler"}

\* The pointers that exist: decoded_ins is local to one step, a field lives as long
\* as its block.
InScope ==
    {h \in Holder :
        IF h = "decoded_ins" THEN at \in {"execute", "illegal"}
        ELSE h \in Local \/ HomeOf[h] \in live}
Owners(b) == {h \in InScope : ptr[h] = b}

(***************************************************************************)
(* Single ownership: as long as main runs, every allocated block is owned  *)
(* by exactly one pointer in scope, and no pointer in scope dangles.  It   *)
(* is what makes the cleanup attributes free everything once, on every     *)
(* path, and it rests on MOVE and on handlers stealing their instruction.  *)
(***************************************************************************)
OneOwner ==
    at \notin {"exited", "refused", "crashed"} =>
        /\ \A b \in live : \E h \in Owners(b) : Owners(b) = {h}
        /\ \A h \in InScope : ptr[h] \in live \union {NULL}

(***************************************************************************)
(* A main that returns has freed every block, whatever failed before.      *)
(* (The FILE of the program, which an early return leaves open, and the    *)
(* copy of its name are no blocks of this heap.)                           *)
(***************************************************************************)
NothingLeaks == at = "returned" => live = {}

(***************************************************************************)
(* No path of main frees twice.  With memory to be had, and without the    *)
(* dump of an empty memory that -m DEBUG brings about, none follows a null *)
(* pointer, fails an assertion or leaves a buffer either.                  *)
(***************************************************************************)
FaultsOnlyWithoutMemory ==
    /\ fault # "double free"
    /\ fault # "none" => nomem \/ (current_log_level = LOG_DEBUG /\ args.mem_size = 0)

(***************************************************************************)
(* The loop runs on a complete machine: registers, and a bus with the      *)
(* memory device mapped.  fetch, read_mem and write_mem report a missing   *)
(* bus to callers that ignore it; this is why none is ever missing.        *)
(***************************************************************************)
LoopHasMachine ==
    at \in Looping =>
        /\ {"bus", "node", "device", "metadata", "memory", "regs"} \subseteq live
        /\ ptr["sbus"] = "bus" /\ ptr["io_devs"] = "node" /\ ptr["data"] = "device"
        /\ ptr["metadata"] = "metadata" /\ ptr["exposed_memory"] = "memory"
        /\ ptr["regs"] = "regs"

(***************************************************************************)
(* No program is run in part, and only one that is too large is refused:   *)
(* the loop is reached if and only if the whole file is in the memory and  *)
(* a byte of it is left over (the end-of-file flag asks for that byte).    *)
(***************************************************************************)
RunsWholeProgram ==
    /\ at \in Looping => stream.read = file.size /\ file.size < args.mem_size
    /\ at = "refused" => file.size >= args.mem_size
=============================================================================
