# risc-v-emu: specification, model checking and proofs

This directory specifies risc-v-emu, an RV64I emulator in C, in TLA+. It says what the program's parts
do, checks them with TLC on small instances and proves the most important facts for every instance with
TLAPS. All paths below are relative to the repository (`src/cpu/cpu.c`, `tests/cpu/cpu.c`, ...).

## 1. The system

A single process and a single thread. `main` builds a memory device, maps it into a system bus, gives the
bus to a CPU and enters `machine_mainloop`, which fetches and executes until it fetches the all-zero word.

| component | state | operations | interacts with |
|---|---|---|---|
| **Main loop** `src/machine/machine.c` | `current_instruction` | `machine_mainloop`, `stall_and_fetch` | calls `fetch`, `step_rv64_cpu` and `sysbus_step` |
| **CPU** `src/cpu/cpu.c` | `regs` (x0..x31 and the pc), `i_flags.stall`, `i_flags.pc_updated` | `step_rv64_cpu`, 49 `execute_*` handlers, `advance_pc_or_update_i_flags`, `set_general_purpose_register` | decodes through the handler tables; drives the bus through `read_mem` and `write_mem` |
| **Multi-cycle memory access** `src/cpu/cpu.c` | the function-statics `current_offset` of `read_mem` and of `write_mem`; a static accumulator in every load handler | `read_mem`, `write_mem`, `fetch` | writes `address`, `memwrite`, `writedata` of the bus, reads `readdata` one bus step later |
| **Decoder** `src/cpu/cpu.c` | the tables `ins_decode_handlers` and `execution_handlers`, filled by constructors | `decode_opcode`, `decode_ins_*`, `decode_imm_*`, `register_execution_handler` | called by `step_rv64_cpu` in every cycle, stalled ones too |
| **System bus** `src/sysbus/sysbus.c` | `address`, `memwrite`, `writedata`, `readdata`, the list `io_devs` | `sysbus_memory_map_iodev`, `sysbus_step`, `sysbus_do_io_with_dev` | searches the device list, calls the device's `write` and `read` |
| **Memory device** `src/io_devs/` | `exposed_memory`, its length and base address | `io_dev_memory_write`, `io_dev_memory_read`, constructors, destructors | called by the bus with an offset it does not check |
| **Linked list** `src/helper/linkedlist.c` | nodes with `next`, `prev`, `data`, `free_data` | append, push_front, replace_at, remove_node, clone, free | holds the devices of the bus |
| **Helpers** `src/helper/helper.c` | none | sign extension, bit masks, `repeat_bit_in_num` | used by decoder and handlers |
| **Command line** `src/cli/cli.c` | `args`, `required_args`, the log level in force, `errno` | `handle_args` | called once by `main`, after the bus was allocated |
| **Life cycle** `src/cli/cli.c` and the constructors and destructors | the heap, the pointers with cleanup attributes, the program's `FILE` | `main`, `new_*`, `init_rv64_cpu`, `MOVE`, `freep_*` | builds everything once, hands the device from pointer to pointer, takes everything down |
| **Logging** `src/helper/logger.c` | `current_log_level` | `logger` | output only |

### What is hard

There are no threads, no messages and nothing persistent. What is hard is *time inside one thread*: a load,
a store or a fetch is not one call. `read_mem` and `write_mem` move one byte per call; the loop calls the
same handler again and again while `i_flags.stall` is set, and steps the bus in between. So

* the progress of an access is spread over `stall`, two function-statics shared by all callers, a static
  accumulator per handler, and the four bus lines; nothing ties them together but the order of calls;
* the operands (`rs1`, the pc, the decoded word) are read again in every call, after earlier calls of the
  same instruction may have changed them;
* a byte asked for in one cycle arrives in the next, and the last call of a read asks for one byte more;
* `memwrite` is set by stores and cleared only by the next read;
* `pc_updated` and `stall` are set in one function and cleared in another;
* nobody answers an unmapped address, and `readdata` keeps its old byte.

The bus adds order dependence: whether a device is accepted, and which device answers, depends on the order
of mapping, and all bounds are computed in wrapping 64-bit arithmetic. The decoder adds tables: five
immediate layouts, and a handler table indexed by fields that not all formats have.

The rest is *ownership*. The linked list destroys what it holds, through a destructor if there is one; `main`
hands one device through five pointers that all have cleanup attributes, and any of eight allocations on the
way can fail. Which cleanup runs on which pointer is decided by scopes, not by the code one reads.

### What makes each component correct

* **Machine:** each instruction has the effect of one atomic step of the ISA; the fetched word is the word in
  memory; nothing but stores writes memory; the stall flag always has exactly one owner and every access ends.
* **Arithmetic:** each handler computes the manual's function of its operands.
* **Decoder:** every immediate is the one the manual encodes; every word reaches the right handler.
* **Bus:** offsets handed to devices are in range; regions do not overlap; an address keeps its device; seen
  from outside the bus is one flat memory.
* **Linked list:** read forwards it is a sequence of payloads; no node is lost, freed twice or reached after it
  was freed, although addresses are handed out again; it is known which calls leave a stale `prev` or lose a
  payload.
* **Life cycle:** as long as `main` runs, every block has exactly one owner; a `main` that returns has freed
  every block of the heap; the loop is entered only with a complete machine and the whole program.
* **Command line:** what a run is started with follows from the command line as a whole, and a command line is
  refused only for a reason.

`PROJECT.json` lists the individual hazards, each at its line, with the properties aimed at them.

## 2. Modules

| module | stands for |
|---|---|
| `Rv64Words` | words, bytes, registers, decoded instructions; the constants and their assumptions |
| `Machine` | the main loop, the two memory routines and all handlers, cycle by cycle; invariants |
| `Rv64Isa` | abstract: one atomic step per instruction |
| `MachineRefinement` | the mapping from `Machine` to `Rv64Isa`, the statement that it implements it, what a load finds where nobody answers, and two statements the code does not satisfy |
| `MCMachine` | an instance of the machine for TLC |
| `Machine_proofs` | theorems about the types, the stall flag, fetches and stores of `Machine`, and that it implements `Rv64Isa` |
| `Alu`, `MCAlu` | what the arithmetic and branch handlers compute; the manual's definitions and the comparison |
| `Alu_proofs` | theorems about the arithmetic and the comparisons, for every width |
| `Decode`, `MCDecode` | the decoder and its tables; the manual's layouts and names and the comparison |
| `Decode_proofs` | theorems about the decoder, for every instruction word |
| `Emulator` | `Machine` with `Decode` and `Alu` in the place of its parameters, at the program's widths |
| `Emulator_proofs` | theorems about that composition |
| `Recursion_proofs` | induction and recursive functions over numbers, for the other proofs |
| `SysBusMap` | the device list, mapping, the bus step, the memory device |
| `FlatMemory` | abstract: one growing array of bytes |
| `SysBusMap_proofs` | theorems about `SysBusMap`, and that it implements `FlatMemory` |
| `LinkedList` | the list and its client on a heap of nodes |
| `NodeSeq` | abstract: a sequence of payloads |
| `MCLinkedList` | the list for TLC, with its symmetry |
| `LinkedList_proofs` | theorems about `LinkedList`, and that it implements `NodeSeq` |
| `CommandLine` | the option loop of `handle_args` |
| `LifeCycle` | `main`, which composes `CommandLine` with the allocation and release of everything |
| `LifeCycle_proofs` | theorems about `LifeCycle`, those about the command line included |

`Machine` uses the bus through `SysbusStep`, a flat memory with unmapped addresses. `SysBusMap` shows that the
list of devices is exactly such a memory (`ImplementsFlatMemory`), so the two modules together cover the path
from an instruction to a byte of a device. `Machine` takes the decoder, the arithmetic and the branch
conditions as constants with stated assumptions; `Decode` and `Alu` are what the program puts there, and
`Emulator` puts them there: `InstrOf` takes a word apart with `DecodedIns` and says for each handler which kind
of call it is, which function or condition it computes, how many bytes it moves and whether it extends the sign.

### Machine

The variables are the program's: `regs` (index 32, here `PC`, is the pc), `stall`, `pcUpdated`, `bus`,
`mem`, `rdOff` and `wrOff` (the two `current_offset`s), `ins` (`current_instruction`), `loaded` (the
accumulators; each load handler has its own, but the first call of every access clears it, so one variable
does). `at` is where the loop stands: before a call of `fetch` (`fetch`), before the bus step after it
(`fetchBus`), at the halt test (`decide`), before the bus step that ends a turn (`stepBus`), or out of the
loop (`halted`, `exited`).

One action is one call of a handler with everything it does, `advance_pc_or_update_i_flags` included:
`FetchCycle`, `FetchBus` (the two halves of a turn of `stall_and_fetch`), `Halt`, `ExecAlu` (the immediate
and register arithmetic, the function itself being a constant), `ExecUpper`, `ExecJal`, `ExecJalr`,
`ExecBranch`, `ExecLoad` (one cycle of a load), `ExecStore` (one cycle of a store), `ExecIllegal`
(`illegal_instruction_handler` calls `exit`), `StepBus` and `Done`. `ExecJalr` writes the link before it
reads `rs1`, `ExecLoad` writes `rd` in each of its cycles, and `LoadResult` extends lb, lh and lw all with
`sign_extend_u32_to_u64`, because that is what the code does.

A byte has `Base` values and a word always eight byte lanes, an instruction always four. With `Base = 256`
these are the program's; TLC takes `Base = 2`, so a word has eight bits and all lanes are still there.

### SysBusMap

`devs` is `io_devs` as a sequence in list order. `MapDevice` is `sysbus_memory_map_iodev`: refused on a
conflict or for want of memory, else appended. `DriveRead` and `DriveWrite` are what `read_mem` and
`write_mem` put on the bus; `StepMapped` is `sysbus_step` with `sysbus_do_io_with_dev` (write if asked, read
always), `StepUnmapped` a step nobody answers. Addresses wrap at `AddrSpace`. The device does not check its
offset: a write past the end of its array stores a byte there all the same, which `TypeOK` excludes, and a read
there returns any byte.

### Alu and Decode

`Alu` has one operator per operation at width `XLEN` (64 in the program, any power of two here). Shifts to the
right of signed numbers are the loops of the code; `&`, `|` and `^` work bit by bit (`BitOf`, `FromBits`). `Decode`
works on single bits: an instruction word is a function on `0..31`, an immediate one on `0..63`, and nothing is
scaled. `Registrations` lists the calls of `register_execution_handler` in their order, and the last one of an
entry wins; the func3 and func7 aliases of `generated_aliases.h`, which were extracted by a language model, are in
it as numbers. `HandlerTakesItsFormat` relates the two tables the decoder uses: the decoder picks the struct by the
opcode alone, the handler casts a void pointer to the struct of its own format. `Manual` in `MCDecode` names all
instructions of base RV64I. Three of them, FENCE, ECALL and EBREAK, have no handler in the code, only TODOs
(`cpu.c:246`); `Unimplemented` names them, and `HandlerOf` expects the illegal instruction handler for them.

### LinkedList

`heap` maps every allocated address to its `struct linked_list_node`; an address that was freed may be
returned by the next calloc. `head` is the client's head pointer, `hand` the nodes it made and has not given
to the list, `payloads` what it has allocated and the list will destroy, `fault` the first undefined
behaviour. `Make`, `AppendNode`, `PushFront`, `ReplaceHead`, `ReplaceBehind`, `ReplaceFails`, `RemoveNode`,
`Free` and `FreeEmpty` are one call each, complete with the nodes `linked_list_replace_at` pads with
(`pads` are the addresses calloc returned for them), and with the failure of each allocation. `Spliced`
leaves the `prev` of the next node as it was and `PushFront` that of the old head, because the code does.
`RemoveNode` frees everything behind its node: the cleanup attribute passes the node to `linked_list_free`
with `next` still set. `Next` therefore contains only the removal that works, `RemoveLast`; `RemoveSpec`
contains all of them. The calls are followed until the first fault or the first link to a freed node.

### CommandLine and LifeCycle

`CommandLine` has one action per option that `getopt_long` hands out, with the fall-through of `m` into `l`,
`strtoul`'s effect on a number above `ULONG_MAX`, an `errno` nobody resets, the countdown of
`required_args`, the optional argument that may be missing, and the option table without its terminating
entry. `given` is a history of the options, so that an outcome can be compared with the whole command line.

`LifeCycle` walks `main` statement by statement: `at` is the next one. `live` is the set of allocated blocks
and `ptr` what each owning pointer holds: locals of `main` (`input_buf`, `mem`, `mdata`, `sbus`, the `regs` of
the local `cpu`), the decoded instruction of one step, and the fields `io_devs`, `data`, `metadata` and
`exposed_memory` of other blocks. `Allocates` and `Fails` are the outcomes of a calloc, `Moved` is `MOVE`,
`Releases` a free followed by the clearing of its pointer. A `return` runs the cleanup attributes one by
one in reverse order of declaration (`UnwindInput` to `UnwindCpu`); an `exit` runs none. `errno` ties the
two halves together: a failed calloc of the bus, which `main` does not check, makes `-m` an invalid size.
The main loop is reduced to the block that one step allocates and its handler frees; its cycles are `Machine`.

## 3. What TLC checks

| run | instance | properties | what it shows |
|---|---|---|---|
| `machine` | `Base` 2, 3 registers, 12 mapped addresses, all 4096 memory images | `TypeOK` `StallHasOwner` `FetchFaithful` `OnlyStoresWrite` `UnansweredLoadRepeatsFetch` `ImplementsIsa` `AccessesEnd` | the cycle-level loop is the one-step ISA, every fetch and every instruction ends, and an unanswered load gets the byte behind its own instruction |
| `alu` | `XLEN` 8, all pairs of operands | `ArithmeticMatchesManual` `ComparisonsMatchManual` | handlers compute the manual's functions |
| `decode` | 32-bit words, five formats; all opcode, func3, func7 | `DecodeInvertsEncode` `DispatchMatchesManual` `HandlerTakesItsFormat` | immediates come out as they were encoded; each word reaches the manual's instruction (FENCE, ECALL and EBREAK the illegal one), with the struct its handler expects |
| `bus` | 6 addresses, lengths 1 and 3, two devices, two byte values | `TypeOK` `OffsetInRange` `OverlapOnlyByEnclosure` `RoutingStable` `ImplementsFlatMemory` | what the conflict check guarantees, that no write leaves a device's array, that a byte keeps its device and changes only by a write to its address, and that the device list is a flat memory |
| `list` | five addresses, two payloads, positions up to 4 | `TypeOK` `ForwardSound` `StalePrevOnlyByPushOrReplace` `LeaksOnlyByReplace` `ReplacedIsFoundThere` `ImplementsNodeSeq` | the list is a sequence read forwards; which calls spoil `prev` or lose a payload |
| `life_cycle` | two files, up to three options, five file sizes around a memory of 8 bytes | `LifeTypeOK` `ParsedMeansValid` `RefusedForAReason` `OneOwner` `NothingLeaks` `FaultsOnlyWithoutMemory` `LoopHasMachine` `RunsWholeProgram` | what a command line means, and ownership, leaks and faults on every path of `main` |

### Bounds and why they are enough

* **Machine.** The 16 instruction words of `MCMachine` include each kind of instruction, all four access
  lengths, loads with and without sign extension, overlapping source and destination registers, x0 as base.
  All 4096 contents of a 12-byte memory are initial states, so every program of three instructions is run,
  including those that jump into the middle of an instruction, run off the mapped memory, wrap around the
  address space, or store over themselves. Addresses are one word (256), only 12 of them mapped, so accesses
  that straddle the end of memory occur. What depends on the width of a byte (carry, sign) is in `Alu` and in
  the proofs, which hold for any width. Programs loop, so the state graph is finite and complete: no counter is bounded.
* **Alu.** 8-bit words have a 4-bit half in the place of 32 bits, shift amounts of three and of two bits, and
  all 65536 pairs are tried; every case of a carry, sign or shift amount occurs. Both properties are also proved,
  for every width.
* **Decode.** Every decoder function is a fixed choice of bits, so a wrong source of an immediate bit shows on
  an immediate with a single bit set, a wrong fill on one with the top bit set; up to three bits set or clear
  (`Weights`) are tried, with all other bits of the word clear and then set. The proofs are about every
  immediate and every word.
* **Bus.** A conflict and an overlap concern two devices, and a routing decision one device and another in
  front of it. Lengths 1 and 3 in 6 addresses wrap, touch, nest and end exactly at the end of the address
  space. `MaxDevs` bounds the list for TLC only; all five properties are also proved, for any value of it.
* **List.** Five nodes make a list with a first, a last and inner nodes and leave addresses to be freed and
  reused, and to be made by padding; `MaxAt` is the position just
  behind the longest list that leaves a node to put there.
  Nothing tells two addresses or two payloads apart, so permuting them is sound (`Symmetry`). All six
  properties are also proved, for any number of addresses and payloads and any positions.
* **Life cycle.** Three options are enough for a repeated one, for `-m` before and after `-l`, and for a
  missing `-p`; `Words` holds a number below, one in and one above the range of `strtoul`. The sizes of the file
  are nothing, one byte, and one below, equal to and above the memory. Every allocation may fail. `MaxOptions`
  bounds the length of a command line for TLC only; the theorems hold for any.

`life_cycle` and `cli_mem_size` have `CHECK_DEADLOCK FALSE`: the program ends. All other runs check that it
does not stop anywhere else.

### Fairness

`FairSpec` of `Machine` adds `WF_vars(Next)`: the loop is one thread that never waits for anything; as long as
it can take a step, it does. Nothing stronger is assumed. `AccessesEnd` needs it, since without fairness the
process might just not run. The other properties are safety properties and use no fairness.

### What the code does not satisfy

Six runs state what the code, its comments, its usage line or its tests claim and find a counterexample:

* `load_base`: **a load into its own base register reads from two places.** `cpu.h:473` says `read_mem`
  reads "the `length` bytes at `address`". The handlers write `rd` in each cycle, the first of which writes the cleared
  accumulator, and compute `rs1 + imm` again in the next. With `rd = rs1` the second byte is therefore asked for at
  `imm + 1`, which is right only if `rs1` was zero, and each later byte at an address made of those loaded so far.
  The run has `lwu x1, 4(x1)`: with x1 zero it asks for 4 and 5, finds 2 in the first byte, and asks for its third
  byte at 7 (`LoadsReadOneRange`). The property leaves out the address the last call of every read asks for behind
  the access, whose byte the load does not use.
* `load_sign`: **lb and lh do not extend their sign.** Both pass a zero-extended value to
  `sign_extend_u32_to_u64`. `tests/cpu/cpu.c:1546` expects `sign_extend_u16_to_u64`, which has the same flaw,
  so the test passes (`LoadsExtendTheirSign`).
* `jalr_link`: **jalr with `rd = rs1` jumps relative to its own link.** `execute_jalr` writes `rd` first
  (`ImplementsIsa` with such an instruction in the program).
* `bus_overlap`: **a device around a mapped one is accepted.** Only the ends of the new device are tested
  (`RegionsDisjoint`).
* `list_remove`: **removing a node frees the rest of the list.** `linkedlist.h:40` says it removes the node
  (`RemoveTakesOneNode`).
* `cli_mem_size`: **the memory size of the usage line is refused.** `case 'm'` falls through to `case 'l'`
  (`UsageAccepted`).

The passing runs leave exactly these cases out, by the instance (`RegularDecode` has no load with `rd = rs1`,
no jalr with `rd = rs1` and no lb or lh, but lbu and lhu in their place) or by the specification (`Next` of
`LinkedList` has `RemoveLast` only), or state what holds in spite of them (`OverlapOnlyByEnclosure`;
`ParsedMeansValid`, which claims nothing of the log level when an `-m` stands behind the last `-l`).

Other oddities are part of the properties, which say how far they go:

* an empty device answers its base address and is accessed at offset 0 of an empty array: `TypeOK`, `OffsetInRange`,
  `RoutingStable` and `ImplementsFlatMemory` are about lengths other than zero;
* an access nobody answers leaves the byte of the bus step before on `readdata`. `ImplementsIsa` therefore lets an
  unmapped lane of a load be any byte; `UnansweredLoadRepeatsFetch` says which one it is: the byte behind the load's own
  instruction (if that one is mapped), which the last call of its fetch asked for, and nothing an earlier access left
  behind;
* `linked_list_push_front` and `linked_list_replace_at` leave a stale `prev`, and the latter never frees the
  payload it replaces (`StalePrevOnlyByPushOrReplace`, `LeaksOnlyByReplace`);
* `linked_list_free` dereferences an empty list; `main` runs into it on an early return before the device is
  mapped, which only a failed allocation causes, and it uses the results of some callocs unchecked
  (`FaultsOnlyWithoutMemory`);
* with `-m DEBUG` the memory is empty and its dump, which counts to `len - 8`, runs off it (the same property);
* a program that fills the memory exactly is refused, since only a read behind the end sets the end-of-file
  flag (`RunsWholeProgram`);
* a second `-p` is refused, `--mem-size` without argument passes NULL to `strtoul`, an unknown long option is
  looked for behind the table, and `-m` is refused after any call that set `errno` (`RefusedForAReason`).

## 4. What is proved

TLAPS checks every step of the proofs, from the assumptions of the modules only: a byte has at least two
values; there is at least one register; mapped addresses are words and images hold bytes; the decoder,
arithmetic and branch conditions are functions of their types (which `Emulator_proofs` shows of those of the
program); the width of the arithmetic is a power of two; the address space is not empty; the empty file
name is not the name of a file, and numbers are natural numbers; a memory of the default size has room for a
row of the dump.

**Machine, for every `Base`, register count, memory map, decoder and arithmetic:**

* `TypeCorrect` and `StallOwned`. Neither is inductive alone: that `rdOff` stays at most 9 needs to know that
  a set stall flag belongs to an access which ends at its length, and to know that the length is one of 1, 2,
  4, 8 needs the types. Their conjunction `IInv` is inductive. The lemmas below it are arithmetic (a number of
  eight byte lanes is a word, `ValueInWord` by a Horner argument; wrapping stays in a word) and one per
  routine (`ReadMemType`, `SysbusStepType`, `AdvanceType`); the seven kinds of instruction that do not use
  the bus share `RegisterStep`.
* `FetchDeliversMemory` and `StoresAloneWrite`. They need two more facts about what the bus lines carry
  between steps. `FetchLine`: while a fetch is stalled the address on the bus is the pc plus the offset of the
  byte last asked for, all bytes before it have been collected, and after the bus step that byte is on
  `readdata`. `WriteLine`: `memwrite` is clear before a fetch's bus step and at the start of an instruction,
  and before any other bus step it is set only with a byte of the current store on the bus. Both are
  invariant together with `IInv` (`BusInvariant`). That the operands of a store are still the same when its
  byte reaches memory holds because a store changes no register but the pc, which no instruction names.

* `MachineImplementsIsa`: if `Base` is even and the machine executes only instructions that are `Regular`, each of
  its behaviours is one of `Rv64Isa`. The highest bit of a byte is its sign only if `Base` is even; 256 is.
  `[]ExecutesRegular` says which programs are meant: those that execute no jalr with `rd = rs1`, no load of
  several bytes with `rd = rs1` (x0 as `rd` is fine in both) and no load that extends the sign of less than a word.
  These are the cases that `jalr_link`, `load_base` and `load_sign` refute; every other instruction is covered,
  for any decoder and arithmetic. A load of two bytes into its own base is one of them although both its bytes
  are asked for before any of them is in `rd`: the first call writes zero to `rd`, so the second byte
  is asked for at `imm + 1` in the place of `rs1 + imm + 1`. It is a hypothesis on behaviours, not on the decoder: such a word may lie in
  memory as long as the program does not run into it. An instruction takes effect, seen through the mapping, in
  its first cycle, and the mapping completes an access in flight, so that every later cycle must be shown to
  stutter. For that the invariant `IsaInv` adds three facts to the ones above. `LoadLine`: the accumulator has no
  lane that was not read yet, and the bus asks for the next one at `rs1 + imm`, which is still what it was
  because `rd` is another register. `StoreLine`: after a call of a store the bus carries the lane before the
  offset, and after the last call the last lane, so the lanes pending in the mapping are those that memory lacks.
  `ZeroReg`: x0 is zero. The lemmas on addresses (`LanesApart`, `WrapSum`) say that eight consecutive addresses
  are different even around the end of the address space.

**Arithmetic, for every width that is a power of two:** `ArithmeticIsManual`, `ComparisonsAreManual` (the properties of
the run) and `ComputesWords`. The powers of two, the loop of sra and the sum of `FromBits` are recursive functions
whose domain depends on the width. `Recursion_proofs` shows that such functions exist (`StepsExist`) and follows them by
induction over a set of numbers (`AllNumbers`), which needs no operator for a parameter. Words with the same bits
are equal (`SameBits`), and `FromBits` makes a word with given bits (`WordOfBits`). One round of the loop of sra is a halving
of the signed value, rounded down (`OneRound`, `Shifts`). Sums and differences are compared with the signed ones up to
a multiple of the modulus (`SameWord`). Two different words differ first in some bit from the top, and that bit
orders them (`FirstDifference`); signed, the top bit does the opposite (`Orders`).

**Decoder, for every instruction word:**

* `ImmediatesComeBack`: a word that holds an immediate as the manual lays it out, with an opcode of the format, gives
  it back, for all five formats, all immediates and all values of the other bits. Each layout is read as
  a function of the bit of the word (`LayoutI`, ...), each table of pieces as a function of the bit of the
  immediate (`PiecesI`, ...), and `Placed` says that they are inverse; `TopBit`, that the fill takes its sign from
  bit 31 and starts at or just above the highest encoded bit. `DecodingInverts` is the property of the run.
* `EveryWordDispatched`: each of the 2^32 words reaches the handler of the instruction the manual encodes in it, or
  the illegal one if there is none, or if it is FENCE, ECALL or EBREAK (`HandlersOf`). `Entry` takes the last registration for some fields; the lemmas show opcode by opcode that
  never more than one fits (`EntryHit`, `EntryMissed`), so that nothing depends on the order of the calls. The bit
  that tells srl from sra survives `hack_func7` (`ShiftBit`). `DispatchFollowsManual` is the property of the run.
* `HandlersTakeTheirFormats`: every registration is for a handler that takes the struct of its opcode's format
  (`RowTakes`), and what a decoder looks up was registered for the opcode that selected the decoder
  (`LookupIsEntry`, `EntryFrom`).

**The emulator as a whole, for every memory map and every program:** the lemmas `DecoderFits` and `ArithmeticFits` of
`Emulator_proofs` show that the decoder tables and the 64-bit arithmetic are what `Machine` assumes of its
parameters: every one of the 2^32 words gives an instruction (a handler of the table, registers below 32, an
immediate of 64 bits), every function of two words is a word. So the theorems about `Machine` hold for the emulator
itself, from nothing but `M!MemAssumption` (mapped addresses are words and images hold bytes), a hypothesis of each
of the three theorems:

* `EmulatorTyped`: registers, bus lines and memory keep their widths.
* `MemoryToHandler`: the handler that `step_rv64_cpu` starts is the one of the instruction the manual encodes in
  the four bytes memory holds at the pc, and that of illegal instructions for FENCE, ECALL and EBREAK
  (`FetchDeliversMemory` and `EveryWordDispatched` joined).
* `EmulatorImplementsIsa`: `MachineImplementsIsa` for it. Here `M!ExecutesRegular` is about RV64I programs proper: they
  execute no jalr with `rd = rs1`, no load of several bytes into its base and no lb or lh.

**Bus, for every address space, set of lengths and number of devices:**

* `TypeCorrect`, `OffsetsInRange`, `RoutingNeverChanges` (these three if no device is empty) and `OverlapsEnclose`. The
  inductive invariant `IInv` has a weaker type than `TypeOK`, a device that may hold bytes past its array
  (`Held`), and `Checked`: each device passed the conflict check against every one in front of it. Each step
  `Keeps` two things: it changes no base and no length and adds at most one device, at the end (`KeepsPlaces`), and
  a byte of a device changes only if the bus writes its address (`KeepsBytes`). Then an offset is below the length by
  cases on whether `base + len` wraps; a device that wraps claims nothing but its base address unless it is
  longer than the address space. With it no write leaves an array, which is `TypeCorrect`.
* `FlatMemoryImplemented` (if no device is empty): the initial states of the bus map to those of
  `FlatMemory`, and every step to a step of it or a stutter. The mapping `Flat` chooses the first device that
  claims an address. The invariant adds `Served` to the one above: every claimed address has such a first
  device. (In a list it always has, but that is an induction over the list; as an invariant it follows step by
  step.) Mapping a device leaves every first device first (`MapExtends`); a write reaches one byte of one
  device, because `a - base` is exact within the bounds of a device and so different for different addresses
  (`WriteKeeps`, `WriteByte`); the byte read back is the byte stored (`StepAccesses`).

**Life cycle, for every set of files, sizes, arguments and length of the command line, and for every pattern
of failed allocations:** `LifeTypeCorrect`, `SingleOwnership`, `ReturnFreesAll`, `FaultsExplained`,
`MachineComplete`, `ProgramComplete`, all from one inductive invariant, `LifeInv`. It says where `main` is in terms of
what exists. `Simple`: bus, buffer, registers and decoded instruction have one pointer each, set exactly while
the block lives. `Chain`: the device is in one of four stages (nothing, the metadata with its memory, the
device around them, the device in the list of the bus), each with the pointers that go with it, and each
statement of `main` is reached in one stage, after a failed allocation also in an earlier one. `Lifetimes`
says the same of the other blocks. `Flags`: what the end-of-file flag tells of the bytes read. `Faults`: the
property itself, with its places. `MemSizeKnown`, an invariant of the command line: the memory size is the
default or zero, because `case 'm'` falls through; without it the dump of a memory of a few bytes would be a
fault to reckon with. One lemma per part shows that every action keeps it (`SimpleStep`, `ChainStep`, ...).
Single ownership then follows from the four stages: each block has one pointer in scope that points to it, and
`Kinds` says what the others can point to.

**Command line, for every set of arguments and numbers and any length:** `ParsedArguments` and `RefusedArguments`,
theorems of `LifeCycle`, where a failed allocation may have set `errno` before the first option. The option loop
keeps a summary of the options (`required_args`, `args`, the level, `errno`), the properties speak of the options
themselves, and the invariant `ArgsMeanInv` says what the summary means: the counter is one less the
number of `-p`; until a command line is refused, `args` hold the file of the last `-p` and the level of the last
`-l` or `-m`; one that is refused has the reason in it already. That counting needs the set of places of an
option to be finite and to grow by one (`GivenFinite`). What `ParsedArguments` says is the usual meaning of options, each
last one winning; that an accepted `-m` can only be followed by a level name, and so means the size zero, is in the
invariant (`Meant`) and not in the property. `UsageAccepted` is the run that objects to it.

**Linked list, for any number of addresses and payloads and any positions:** `ListTyped`, `ListForwardSound`,
`ListStalePrev`, `ListLeaks`, `ListReplacedIsFound` and the refinement `ListImplementsNodeSeq`. What a chain of
pointers reaches is a recursion over its length (`Walk`), and an invariant in terms of `Walk` does not carry over
a splice. `ListInv` therefore has a witness: there are a length `L` and a sequence `p` of `L`
different live nodes that starts at `head`, is linked by `next` and ends in a null pointer, and the heap is
exactly these nodes and those in the client's hand (`Shape`), each with a payload of its own. `WalkFollows`
shows that `Walk` visits just that sequence: at the first step where it did not, it would have followed a `next` of
the sequence. Each call has a lemma that names its new witness (`AppendShape`, `PushShape`, ...); for
`ReplaceBehind` it is the old chain, the nodes padded behind it and the node put in the last place. Stale
`prev`s and lost payloads are read off the witnesses before and after a call, and the abstract sequence of the
refinement is the payloads along the witness (`ContentsAre`).

**Only model-checked:** liveness (`AccessesEnd`; fairness is out of the prover's reach), and
`UnansweredLoadRepeatsFetch`, whose invariant would have to follow the surplus byte of the fetch through the load. **Only proved:** the theorems
about `Emulator`; TLC's integers have 32 bits, so that it cannot run a machine of 64.

## 5. What is not modelled

* A CPU without a bus: `LoopHasMachine` shows that `main` never runs one.
* `linked_list_clone`: nobody calls it, and it follows a null pointer for every list with an element.
* `io_devs_step`, which nothing calls, and devices without `read` or `write`, of which there are none.
* The copy of the program's file name, which is never freed (it lives as long as the program, and a second `-p`
  drops the first one), and the `FILE` of the program, which the early returns at `cli.c:132`, `142`, `149` and
  `155` leave open. Neither is a block of `LifeCycle`, so `NothingLeaks` and `ReturnFreesAll` say nothing of them.
* FENCE, ECALL and EBREAK, which base RV64I has and the emulator does not: `cpu.c:246` to `265` are TODOs. They reach the
  illegal instruction handler and end the program, in the code and in the model; the decoder properties leave them out by
  name (`Unimplemented`).
* A negative position for `linked_list_replace_at` and `linked_list_get_at`, whose parameter is an `int`: nobody passes
  one, and the first would take it for 1.
* What a write to an empty device hits: the model keeps the byte with the device, in the program it lands somewhere in
  the heap.
* Reserved encodings: slliw, srliw and sraiw with bit 25 set execute as if it were clear, because
  `hack_func7` clears it for them too. `Manual` in `MCDecode` says so.
* What is logged, dumped and printed; the bounds of the dump are modelled, since they can end the program.
* The tests.

## 6. Where the project stands

Modelled, checked and proved about: the machine and its refinement, the bus and its refinement, the arithmetic, the
decoder, their composition, the linked list and its refinement, the command line and the life cycle of everything
`main` allocates. Two things would follow next:

1. `Emulator` with `SysBusMap` in the place of the flat memory, which `FlatMemoryImplemented` prepares.
2. The bounds of the logged dumps beyond the one `LifeCycle` has, should more of them be able to end the program.
