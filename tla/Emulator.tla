------------------------------- MODULE Emulator -------------------------------
(***************************************************************************)
(* The program with all its parts: what Machine takes as parameters is     *)
(* here the decoder of module Decode, with its tables, and the arithmetic  *)
(* of module Alu, at the widths of the program: bytes of 256 values, 32    *)
(* registers, words of 64 bits.  Only the memory map and the program in    *)
(* memory are left open.                                                   *)
(***************************************************************************)
EXTENDS Decode

CONSTANTS Mapped, Images

VARIABLES at, regs, stall, pcUpdated, bus, mem, rdOff, wrOff, ins, loaded

A == INSTANCE Alu WITH XLEN <- 64

\* A conditional operator does not take an operator of an instance for a parameter.
Compute(f, u, v) == A!Compute(f, u, v)
TakesBranch(c, u, v) == A!Holds(c, u, v)

\* current_instruction, whose bytes fetch has put into their lanes, bit by bit.
BitsOfIns(lanes) == [n \in InsBit |-> (lanes[n \div 8] \div A!Pow2[n % 8]) % 2]

RegisterForms == {"add", "sub", "sll", "slt", "sltu", "xor", "srl", "sra", "or", "and",
                  "addw", "subw", "sllw", "srlw", "sraw"}

\* The execute_* handlers of the immediate forms and the function they share
\* with a register form.
ImmediateFn ==
    [addi |-> "add", slti |-> "slt", sltiu |-> "sltu", xori |-> "xor", ori |-> "or",
     andi |-> "and", slli |-> "sll", srli |-> "srl", srai |-> "sra",
     addiw |-> "addw", slliw |-> "sllw", srliw |-> "srlw", sraiw |-> "sraw"]

\* The comparison each branch handler makes.
BranchCond ==
    [beq |-> "eq", bne |-> "ne", blt |-> "lt", bltu |-> "ltu", bge |-> "ge", bgeu |-> "geu"]

\* read_mem8, ... read_mem64 and write_mem8, ... write_mem64.
LoadLen == [lb |-> 1, lbu |-> 1, lh |-> 2, lhu |-> 2, lw |-> 4, lwu |-> 4, ld |-> 8]
StoreLen == [sb |-> 1, sh |-> 2, sw |-> 4, sd |-> 8]

\* The loads that pass what they read to sign_extend_u32_to_u64.
Extends == {"lb", "lh", "lw"}

KindOf(handler) ==
    CASE handler \in RegisterForms -> "alu"
      [] handler \in DOMAIN ImmediateFn -> "alui"
      [] handler \in DOMAIN BranchCond -> "branch"
      [] handler \in DOMAIN LoadLen -> "load"
      [] handler \in DOMAIN StoreLen -> "store"
      [] handler \in {"lui", "auipc", "jal", "jalr", "illegal"} -> handler

\* What step_rv64_cpu calls for a word, and with which operands; a field that the
\* kind of the handler does not use has some value.
InstrOf(word) ==
    LET decoded == DecodedIns(word)
        handler == decoded.handler
    IN  [kind |-> KindOf(handler),
         rd |-> decoded.rd, rs1 |-> decoded.rs1, rs2 |-> decoded.rs2,
         imm |-> A!FromBits(decoded.imm),
         fn |-> IF handler \in DOMAIN ImmediateFn THEN ImmediateFn[handler]
                ELSE IF handler \in RegisterForms THEN handler ELSE "add",
         cond |-> IF handler \in DOMAIN BranchCond THEN BranchCond[handler] ELSE "eq",
         len |-> IF handler \in DOMAIN LoadLen THEN LoadLen[handler]
                 ELSE IF handler \in DOMAIN StoreLen THEN StoreLen[handler] ELSE 1,
         sext |-> handler \in Extends]

Decoded == [lanes \in [0..3 -> 0..255] |-> InstrOf(BitsOfIns(lanes))]
===============================================================================
