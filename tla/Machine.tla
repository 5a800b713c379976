------------------------------- MODULE Machine -------------------------------
(***************************************************************************)
(* The emulated machine, cycle by cycle: machine_mainloop fetching one     *)
(* byte per cycle, step_rv64_cpu calling one execute_* handler, and        *)
(* sysbus_step serving the bus after each.                                 *)
(*                                                                         *)
(* What makes it hard is that a load, a store or a fetch takes several     *)
(* calls of the same handler.  Its progress lives in i_flags.stall, in the *)
(* function-static current_offset of read_mem and of write_mem and in the  *)
(* handler's static accumulator, while the operands (rs1, pc, the          *)
(* instruction word) are read again at every call.                         *)
(***************************************************************************)
EXTENDS Rv64Words

VARIABLES
    at,         \* where machine_mainloop is
    regs,       \* cpu->regs
    stall,      \* cpu->i_flags.stall
    pcUpdated,  \* cpu->i_flags.pc_updated
    bus,        \* address, memwrite, writedata and readdata of the sysbus
    mem,        \* the exposed memory of the devices, by address
    rdOff,      \* static current_offset of read_mem
    wrOff,      \* static current_offset of write_mem
    ins,        \* current_instruction
    loaded      \* the handlers' static accumulator

vars == <<at, regs, stall, pcUpdated, bus, mem, rdOff, wrOff, ins, loaded>>

Cur == Decode[ins]
Operand == regs[Cur.rs1]
Effective == Wrap(Operand + Cur.imm)

------------------------------------------------------------------------------
\* The bus and the two memory routines.

\* sysbus_step: the device at the address takes the byte of a write and then
\* puts the byte it holds on readdata; nobody answers an unmapped address and
\* readdata keeps what it had.
SysbusStep ==
    IF bus.address \in Mapped
    THEN /\ mem' = IF bus.memwrite
                   THEN [mem EXCEPT ![bus.address] = bus.writedata]
                   ELSE mem
         /\ bus' = [bus EXCEPT !.readdata = mem'[bus.address]]
    ELSE UNCHANGED <<mem, bus>>

\* read_mem takes the bus for a read of one byte.
AskKeepsMemwrite(address) == [bus EXCEPT !.address = address]
Ask(address) == [bus EXCEPT !.address = address, !.memwrite = FALSE]

\* read_mem's current_offset after the call.
NextOffsetNoReset == rdOff + 1
NextOffsetNoIncrement == IF stall THEN rdOff ELSE 1
NextOffset == IF stall THEN rdOff + 1 ELSE 1

\* The call that takes the last of the bytes off the bus.
LastByteEarly(length) == stall /\ rdOff + 1 = length
LastByte(length) == stall /\ rdOff = length

\* One call of read_mem: the first call asks for the first byte and stalls, each
\* later one asks for the next byte while the one before it is on the bus.
ReadMem(address, length) ==
    /\ bus' = Ask(IF stall THEN Wrap(address + rdOff) ELSE address)
    /\ rdOff' = NextOffset
    /\ stall' = ~LastByte(length)

\* What that call leaves in *ret: zero, then one more byte lane each time.  The code
\* ors the byte into its lane, which the first call has cleared; each load handler
\* has an accumulator of its own, and one stands for all as its first call clears it.
AccumulatedNoReset(ret) ==
    IF stall THEN [ret EXCEPT ![rdOff - 1] = bus.readdata] ELSE ret
Accumulated(ret) ==
    IF stall THEN [ret EXCEPT ![rdOff - 1] = bus.readdata]
             ELSE [k \in DOMAIN ret |-> 0]

\* One call of write_mem: the next byte of value, the last one ends the stall.
WriteMem(address, length, value) ==
    LET offset == IF stall THEN wrOff ELSE 0
    IN  /\ bus' = [bus EXCEPT !.address = Wrap(address + offset),
                              !.memwrite = TRUE,
                              !.writedata = ByteOf(value, offset)]
        /\ wrOff' = offset + 1
        /\ stall' = (offset + 1 # length)

------------------------------------------------------------------------------
\* Registers and the program counter.

\* set_general_purpose_register: x0 stays zero.
SetReg(r, i, value) == IF i = 0 THEN r ELSE [r EXCEPT ![i] = value]

\* i_flags.pc_updated after the instruction that set it.
FlagAfterJumpKept == TRUE
FlagAfterJump == FALSE

\* advance_pc_or_update_i_flags, after a handler that left the registers r;
\* jumped says that pc_updated is set.
Advance(r, jumped) ==
    \/ stall' /\ regs' = r /\ pcUpdated' = jumped
    \/ ~stall' /\ jumped /\ regs' = r /\ pcUpdated' = FlagAfterJump
    \/ ~stall' /\ ~jumped /\ regs' = [r EXCEPT ![PC] = Wrap(@ + 4)]
       /\ pcUpdated' = FALSE

\* A handler that writes rd and leaves the pc to Advance.
Retire(value) == Advance(SetReg(regs, Cur.rd, value), pcUpdated)

------------------------------------------------------------------------------
\* The loop.

Init ==
    /\ at = "fetch"
    /\ regs = [r \in 0..PC |-> 0]
    /\ stall = FALSE /\ pcUpdated = FALSE
    /\ bus = [address |-> 0, memwrite |-> FALSE, writedata |-> 0, readdata |-> 0]
    /\ mem \in Images
    /\ rdOff = 0 /\ wrOff = 0
    /\ ins = HALT_MAGIC
    /\ loaded = NoBytes

\* stall_and_fetch: one call of fetch, whose error code nobody looks at.
FetchCycle ==
    /\ at = "fetch"
    /\ ReadMem(regs[PC], 4)
    /\ ins' = Accumulated(ins)
    /\ at' = "fetchBus"
    /\ UNCHANGED <<regs, pcUpdated, mem, wrOff, loaded>>

\* stall_and_fetch: the bus step after it; the loop ends with the stall.
FetchBus ==
    /\ at = "fetchBus"
    /\ SysbusStep
    /\ at' = IF stall THEN "fetch" ELSE "decide"
    /\ UNCHANGED <<regs, stall, pcUpdated, rdOff, wrOff, ins, loaded>>

\* The mainloop breaks on the all-zero word.
Halt ==
    /\ at = "decide" /\ ins = HALT_MAGIC
    /\ at' = "halted"
    /\ UNCHANGED <<regs, stall, pcUpdated, bus, mem, rdOff, wrOff, ins, loaded>>

\* step_rv64_cpu decodes the word again and calls the handler of its kind.
Executing(kinds) ==
    /\ at = "decide" /\ ins # HALT_MAGIC
    /\ Cur.kind \in kinds

\* The register and immediate arithmetic handlers.
ExecAlu ==
    /\ Executing({"alu", "alui"})
    /\ UNCHANGED stall
    /\ Retire(Alu(Cur.fn, Operand,
                  IF Cur.kind = "alui" THEN Cur.imm ELSE regs[Cur.rs2]))
    /\ at' = "stepBus"
    /\ UNCHANGED <<bus, mem, rdOff, wrOff, ins, loaded>>

\* execute_lui and execute_auipc.
ExecUpper ==
    /\ Executing({"lui", "auipc"})
    /\ UNCHANGED stall
    /\ Retire(IF Cur.kind = "lui" THEN Cur.imm ELSE Wrap(Cur.imm + regs[PC]))
    /\ at' = "stepBus"
    /\ UNCHANGED <<bus, mem, rdOff, wrOff, ins, loaded>>

\* execute_jal.
ExecJal ==
    /\ Executing({"jal"})
    /\ UNCHANGED stall
    /\ LET linked == SetReg(regs, Cur.rd, Wrap(regs[PC] + 4))
       IN  Advance([linked EXCEPT ![PC] = Wrap(linked[PC] + Cur.imm)], TRUE)
    /\ at' = "stepBus"
    /\ UNCHANGED <<bus, mem, rdOff, wrOff, ins, loaded>>

\* execute_jalr: the link register is written before rs1 is read.
JalrTarget(r) ==
    LET t == Wrap(r[Cur.rs1] + Cur.imm) IN t - (t % 2)
ExecJalr ==
    /\ Executing({"jalr"})
    /\ UNCHANGED stall
    /\ LET linked == SetReg(regs, Cur.rd, Wrap(regs[PC] + 4))
       IN  Advance([linked EXCEPT ![PC] = JalrTarget(linked)], TRUE)
    /\ at' = "stepBus"
    /\ UNCHANGED <<bus, mem, rdOff, wrOff, ins, loaded>>

\* The branch handlers: pc_updated is set only when the branch is taken.
ExecBranch ==
    /\ Executing({"branch"})
    /\ UNCHANGED stall
    /\ IF Taken(Cur.cond, Operand, regs[Cur.rs2])
       THEN Advance([regs EXCEPT ![PC] = Wrap(@ + Cur.imm)], TRUE)
       ELSE Advance(regs, pcUpdated)
    /\ at' = "stepBus"
    /\ UNCHANGED <<bus, mem, rdOff, wrOff, ins, loaded>>

\* The load handlers.  Each of their calls, not only the last, writes rd with
\* the bytes accumulated so far; lb and lh extend the 32-bit sign as lw does.
LoadResult(lanes) ==
    IF Cur.sext THEN SignExtendU32(Value(lanes)) ELSE Value(lanes)
ExecLoad ==
    /\ Executing({"load"})
    /\ ReadMem(Effective, Cur.len)
    /\ loaded' = Accumulated(loaded)
    /\ Retire(LoadResult(loaded'))
    /\ at' = "stepBus"
    /\ UNCHANGED <<mem, wrOff, ins>>

\* The store handlers.
ExecStore ==
    /\ Executing({"store"})
    /\ WriteMem(Effective, Cur.len, regs[Cur.rs2])
    /\ Advance(regs, pcUpdated)
    /\ at' = "stepBus"
    /\ UNCHANGED <<mem, rdOff, ins, loaded>>

\* illegal_instruction_handler leaves the process.
ExecIllegal ==
    /\ Executing({"illegal"})
    /\ at' = "exited"
    /\ UNCHANGED <<regs, stall, pcUpdated, bus, mem, rdOff, wrOff, ins, loaded>>

\* The bus step that ends a turn of the mainloop; a stalled handler is called
\* again without a fetch.
StepBus ==
    /\ at = "stepBus"
    /\ SysbusStep
    /\ at' = IF stall THEN "decide" ELSE "fetch"
    /\ UNCHANGED <<regs, stall, pcUpdated, rdOff, wrOff, ins, loaded>>

\* Nothing happens after the loop was left.
Done == at \in {"halted", "exited"} /\ UNCHANGED vars

Next ==
    \/ FetchCycle \/ FetchBus \/ Halt
    \/ ExecAlu \/ ExecUpper \/ ExecJal \/ ExecJalr \/ ExecBranch
    \/ ExecLoad \/ ExecStore \/ ExecIllegal
    \/ StepBus \/ Done

Spec == Init /\ [][Next]_vars

\* The loop is one thread that never blocks: it takes its next step.
FairSpec == Spec /\ WF_vars(Next)

------------------------------------------------------------------------------
\* Correctness.

TypeOK ==
    /\ at \in {"fetch", "fetchBus", "decide", "stepBus", "halted", "exited"}
    /\ regs \in [0..PC -> Word]
    /\ stall \in BOOLEAN /\ pcUpdated \in BOOLEAN
    /\ bus \in [address : Word, memwrite : BOOLEAN,
                writedata : Byte, readdata : Byte]
    /\ mem \in [Mapped -> Byte]
    /\ rdOff \in 0..9 /\ wrOff \in 0..8
    /\ ins \in [InsLane -> Byte]
    /\ loaded \in [Lane -> Byte]

(***************************************************************************)
(* The stall flag and the two static offsets are shared by every access of *)
(* the machine.  While the flag is set exactly one access owns it: the     *)
(* fetch inside stall_and_fetch, or the load or store in current_instruct- *)
(* ion, and the owner's offset is inside that access.  No flag survives an *)
(* instruction: pc_updated is clear whenever step_rv64_cpu is not running. *)
(***************************************************************************)
StallHasOwner ==
    /\ ~pcUpdated
    /\ stall =>
        \/ at \in {"fetch", "fetchBus"} /\ rdOff \in 1..4
        \/ /\ at \in {"decide", "stepBus"} /\ ins # HALT_MAGIC
           /\ \/ Cur.kind = "load" /\ rdOff \in 1..Cur.len
              \/ Cur.kind = "store" /\ wrOff \in 1..(Cur.len - 1)

\* The instruction word at the pc, as far as devices answer for it.
Fetched(k) ==
    Wrap(regs[PC] + k) \in Mapped => ins[k] = mem[Wrap(regs[PC] + k)]

(***************************************************************************)
(* When step_rv64_cpu starts an instruction, current_instruction is the    *)
(* word the memory holds at the pc, every byte of it, although fetch read  *)
(* it byte by byte over five cycles, one bus step behind its own address.  *)
(***************************************************************************)
FetchFaithful == at = "decide" /\ ~stall => \A k \in InsLane : Fetched(k)

\* The byte write k of the current store.
StoresLane(k) ==
    mem' = [mem EXCEPT ![Wrap(Effective + k)] = ByteOf(regs[Cur.rs2], k)]

(***************************************************************************)
(* The memory changes only in the bus step of a store instruction, by one  *)
(* byte of its rs2, at that byte's place in the store: the memwrite line   *)
(* of a store, which nobody clears after it, never reaches the bus steps   *)
(* of the fetch that follows it or of a later instruction.                 *)
(***************************************************************************)
OnlyStoresWrite ==
    [][mem' # mem =>
         /\ at = "stepBus" /\ ins # HALT_MAGIC /\ Cur.kind = "store"
         /\ \E k \in 0..(Cur.len - 1) : StoresLane(k)]_vars

(***************************************************************************)
(* Every access ends: a fetch delivers an instruction, and an instruction  *)
(* ends with the next fetch or with the emulation.  The loops of           *)
(* stall_and_fetch and of the stalled handler both hang on the offsets     *)
(* reaching the length exactly.                                            *)
(***************************************************************************)
AccessesEnd ==
    /\ at = "fetch" ~> at = "decide"
    /\ at = "decide" ~> at \in {"fetch", "halted", "exited"}
=============================================================================
