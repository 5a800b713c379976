-------------------------------- MODULE Decode --------------------------------
(***************************************************************************)
(* The decoder: decode_opcode picks one of the decode_ins_* functions, it  *)
(* extracts the fields of its format and looks the handler up in the table *)
(* execution_handlers, which init_execution_handlers filled before main.   *)
(* Instruction words and immediates are functions from bit positions to    *)
(* {0, 1}: all 32 and 64 bits, as in the program.                          *)
(***************************************************************************)
EXTENDS Integers, Sequences, FiniteSetsExt

InsBit == 0..31
ImmBit == 0..63

\* extract_bits_from_uint64 with the mask of a field of size bits, from its top bit on.
Extract(ins, pos, size) ==
    LET top[n \in 0..size] ==
            IF n = 0 THEN 0 ELSE 2 * top[n - 1] + ins[pos + size - n]
    IN  top[size]

decode_opcode(ins) == Extract(ins, 0, 7)
decode_rd(ins) == Extract(ins, 7, 5)
decode_func3(ins) == Extract(ins, 12, 3)
decode_rs1(ins) == Extract(ins, 15, 5)
decode_rs2(ins) == Extract(ins, 20, 5)
decode_func7(ins) == Extract(ins, 25, 7)

------------------------------------------------------------------------------
\* Immediates.

\* The pieces of an immediate, <<size, encoded position, real position>>, and the
\* position from which repeat_bit_in_num fills it with bit 31 of the word.
Pieces == [i |-> {<<12, 20, 0>>},
           s |-> {<<5, 7, 0>>, <<7, 25, 5>>},
           b |-> {<<1, 7, 11>>, <<4, 8, 1>>, <<6, 25, 5>>, <<1, 31, 12>>},
           u |-> {<<20, 12, 12>>},
           j |-> {<<8, 12, 12>>, <<1, 20, 11>>, <<10, 21, 1>>, <<1, 31, 20>>}]
FillFrom == [i |-> 12, s |-> 12, b |-> 12, u |-> 32, j |-> 20]

\* The immediate bit n that the pieces place; no two of a format overlap, so that
\* their sum is their union.
PieceBit(fmt, ins, n) ==
    LET holding == {p \in Pieces[fmt] : n \in p[3]..(p[3] + p[1] - 1)}
    IN  IF holding = {} THEN 0
        ELSE LET p == CHOOSE p \in holding : TRUE IN ins[p[2] + n - p[3]]

\* decode_imm_i, _s, _b, _u and _j.
ImmUnfilled(fmt, ins) == [n \in ImmBit |-> PieceBit(fmt, ins, n)]
Imm(fmt, ins) ==
    [n \in ImmBit |-> IF n >= FillFrom[fmt] /\ ins[31] = 1 THEN 1
                      ELSE PieceBit(fmt, ins, n)]

------------------------------------------------------------------------------
\* The handler table.

LOAD == 3
MISC_MEM == 15
OP_IMM == 19
AUIPC == 23
OP_IMM_32 == 27
STORE == 35
OP == 51
LUI == 55
OP_32 == 59
BRANCH == 99
JALR == 103
JAL == 111
SYSTEM == 115

Func3 == 0..7
Func7 == 0..127

\* The aliases of generated_aliases.h that the registrations use.
FUNC3 == [
    jalr |-> 0, beq |-> 0, bne |-> 1, blt |-> 4, bge |-> 5, bltu |-> 6,
    bgeu |-> 7, lb |-> 0, lh |-> 1, lw |-> 2, lbu |-> 4, lhu |-> 5, lwu |-> 6,
    ld |-> 3, sb |-> 0, sh |-> 1, sw |-> 2, sd |-> 3, addi |-> 0, slti |-> 2,
    sltiu |-> 3, xori |-> 4, ori |-> 6, andi |-> 7, slli |-> 1, srli |-> 5,
    srai |-> 5, addiw |-> 0, slliw |-> 1, srliw |-> 5, sraiw |-> 5, add |-> 0,
    sub |-> 0, sll |-> 1, slt |-> 2, sltu |-> 3, xor |-> 4, srl |-> 5,
    sra |-> 5, or |-> 6, and |-> 7, addw |-> 0, subw |-> 0, sllw |-> 1,
    srlw |-> 5, sraw |-> 5]
FUNC7 == [
    slli |-> 0, srli |-> 0, srai |-> 32, add |-> 0, sub |-> 32, sll |-> 0,
    slt |-> 0, sltu |-> 0, xor |-> 0, srl |-> 0, sra |-> 32, or |-> 0,
    and |-> 0, slliw |-> 0, srliw |-> 0, sraiw |-> 32, addw |-> 0, subw |-> 32,
    sllw |-> 0, srlw |-> 0, sraw |-> 32]

\* register_execution_handler: a NULL func3 or func7 stands for all of them.
Row(opcode, func3s, func7s, handler) ==
    [opcode |-> opcode, func3 |-> func3s, func7 |-> func7s, handler |-> handler]
Any(opcode, handler) == Row(opcode, Func3, Func7, handler)
F3(opcode, alias) == Row(opcode, {FUNC3[alias]}, Func7, alias)
F37(opcode, alias, handler) == Row(opcode, {FUNC3[alias]}, {FUNC7[alias]}, handler)

\* init_execution_handlers, in its order.
Registrations == <<
    Any(LUI, "lui"), Any(AUIPC, "auipc"), Any(JAL, "jal"), F3(JALR, "jalr"),
    F3(BRANCH, "beq"), F3(BRANCH, "bne"), F3(BRANCH, "blt"),
    F3(BRANCH, "bge"), F3(BRANCH, "bltu"), F3(BRANCH, "bgeu"),
    F3(LOAD, "lb"), F3(LOAD, "lh"), F3(LOAD, "lw"), F3(LOAD, "ld"),
    F3(LOAD, "lbu"), F3(LOAD, "lhu"), F3(LOAD, "lwu"),
    F3(STORE, "sb"), F3(STORE, "sh"), F3(STORE, "sw"), F3(STORE, "sd"),
    F3(OP_IMM, "addi"), F3(OP_IMM, "slti"), F3(OP_IMM, "sltiu"),
    F3(OP_IMM, "xori"), F3(OP_IMM, "ori"), F3(OP_IMM, "andi"),
    F37(OP_IMM, "slli", "slli"), F37(OP_IMM, "srli", "srlai"),
    F37(OP_IMM, "srai", "srlai"),
    F3(OP_IMM_32, "addiw"), F37(OP_IMM_32, "slliw", "slliw"),
    F37(OP_IMM_32, "srliw", "srlaiw"), F37(OP_IMM_32, "sraiw", "srlaiw"),
    F37(OP, "add", "add"), F37(OP, "sub", "sub"), F37(OP, "sll", "sll"),
    F37(OP, "slt", "slt"), F37(OP, "sltu", "sltu"), F37(OP, "xor", "xor"),
    F37(OP, "srl", "srla"), F37(OP, "sra", "srla"),
    F37(OP, "or", "or"), F37(OP, "and", "and"),
    F37(OP_32, "addw", "addw"), F37(OP_32, "subw", "subw"),
    F37(OP_32, "sllw", "sllw"), F37(OP_32, "srlw", "srlaw"),
    F37(OP_32, "sraw", "srlaw")>>

\* execution_handlers: the last registration of an entry, illegal_instruction_-
\* handler in the entries nobody registered.
Entry(opcode, func3, func7) ==
    LET hits == {r \in DOMAIN Registrations :
                    /\ Registrations[r].opcode = opcode
                    /\ func3 \in Registrations[r].func3
                    /\ func7 \in Registrations[r].func7}
    IN  IF hits = {} THEN "illegal" ELSE Registrations[Max(hits)].handler

\* init_ins_decode_handlers: the format of an opcode, none for an opcode that
\* keeps default_decoder_handler.
ImmediateOpsAndOp32 == {LOAD, OP_IMM, JALR, MISC_MEM, SYSTEM, OP_32}
ImmediateOps == {LOAD, OP_IMM, JALR, MISC_MEM, SYSTEM, OP_IMM_32}
Format(opcode) ==
    CASE opcode \in ImmediateOps -> "i"
      [] opcode = STORE -> "s"
      [] opcode = BRANCH -> "b"
      [] opcode \in {LUI, AUIPC} -> "u"
      [] opcode = JAL -> "j"
      [] opcode \in {OP, OP_32} -> "r"
      [] OTHER -> "none"

\* hack_func7 of decode_ins_i: the shift amount reaches into func7's low bit.
HackFunc7Kept(ins) == decode_func7(ins)
HackFunc7(ins) == (decode_func7(ins) \div 2) * 2

\* The entry each decode_ins_* function looks up; 0 is EXECUTION_HANDLER_INX_DONTCARE.
Lookup(ins) ==
    LET opcode == decode_opcode(ins)
        fmt == Format(opcode)
    IN  CASE fmt = "i" -> Entry(opcode, decode_func3(ins), HackFunc7(ins))
          [] fmt \in {"s", "b"} -> Entry(opcode, decode_func3(ins), 0)
          [] fmt \in {"u", "j"} -> Entry(opcode, 0, 0)
          [] fmt = "r" -> Entry(opcode, decode_func3(ins), decode_func7(ins))
          [] fmt = "none" -> "illegal"

\* execute_srlai, srlaiw, srla and srlaw stand for two handlers each: bit 10 of
\* the immediate, bit 5 of func7, tells them apart.
Resolved(ins) ==
    LET h == Lookup(ins)
        arithmetic == IF Format(decode_opcode(ins)) = "r"
                      THEN (decode_func7(ins) \div 32) % 2
                      ELSE Imm("i", ins)[10]
    IN  CASE h = "srlai" -> IF arithmetic = 1 THEN "srai" ELSE "srli"
          [] h = "srlaiw" -> IF arithmetic = 1 THEN "sraiw" ELSE "srliw"
          [] h = "srla" -> IF arithmetic = 1 THEN "sra" ELSE "srl"
          [] h = "srlaw" -> IF arithmetic = 1 THEN "sraw" ELSE "srlw"
          [] OTHER -> h

\* The struct decoded_rv64_base_ins_* each handler casts its instruction to; the
\* illegal instruction handler looks at none.
Takes(handler) ==
    CASE handler \in {"addi", "slti", "sltiu", "xori", "ori", "andi", "slli", "srlai",
                      "addiw", "slliw", "srlaiw", "jalr",
                      "lb", "lh", "lw", "ld", "lbu", "lhu", "lwu"} -> "i"
      [] handler \in {"sb", "sh", "sw", "sd"} -> "s"
      [] handler \in {"beq", "bne", "blt", "bge", "bltu", "bgeu"} -> "b"
      [] handler \in {"lui", "auipc"} -> "u"
      [] handler = "jal" -> "j"
      [] handler \in {"add", "sub", "sll", "slt", "sltu", "xor", "srla", "or", "and",
                      "addw", "subw", "sllw", "srlaw"} -> "r"
      [] handler = "illegal" -> "none"

\* What step_rv64_cpu gets: the handler and the fields of the word's format.
DecodedIns(ins) ==
    LET fmt == Format(decode_opcode(ins))
    IN  [handler |-> Resolved(ins), format |-> fmt,
         rd |-> decode_rd(ins), rs1 |-> decode_rs1(ins), rs2 |-> decode_rs2(ins),
         imm |-> IF fmt \in DOMAIN Pieces THEN Imm(fmt, ins)
                 ELSE [n \in ImmBit |-> 0]]
=============================================================================
