------------------------------- MODULE Rv64Words -------------------------------
(***************************************************************************)
(* Words, bytes, registers and decoded instructions: the data of the       *)
(* emulator, shared by the cycle-level machine (Machine) and by the        *)
(* instruction-level specification it implements (Rv64Isa).                *)
(*                                                                         *)
(* Data are scaled, never dropped: a word has eight byte lanes, an         *)
(* instruction four, and a byte has Base values (256 in the program).  The *)
(* decoder, the arithmetic handlers and the branch conditions are          *)
(* parameters; the memory is the flat one that module SysBusMap shows the  *)
(* bus and its list of devices to implement.                               *)
(***************************************************************************)
EXTENDS Integers

CONSTANTS
    Base,             \* values of a byte, 256 in the program
    NReg,             \* general purpose registers, 32 in the program
    Mapped,           \* the addresses some device of the bus answers
    Images,           \* initial contents of the mapped memory
    Fn, Cond,         \* names of arithmetic functions and branch conditions
    Decode,           \* the decoded form of every instruction word
    Alu(_, _, _),     \* what an arithmetic handler computes
    Taken(_, _, _)    \* whether a branch handler takes the branch

Lane == 0..7
InsLane == 0..3
Byte == 0..(Base - 1)

\* 2^32 and 2^64, for bytes of Base values.
HALF == Base * Base * Base * Base
XMOD == HALF * HALF
Word == 0..(XMOD - 1)

\* uint64_t arithmetic wraps.
Wrap(n) == n % XMOD

Weight == [k \in Lane |->
    CASE k = 0 -> 1
      [] k = 1 -> Base
      [] k = 2 -> Base * Base
      [] k = 3 -> Base * Base * Base
      [] k = 4 -> HALF
      [] k = 5 -> HALF * Base
      [] k = 6 -> HALF * Base * Base
      [] k = 7 -> HALF * Base * Base * Base]

\* The byte of v in lane k: (uint8_t)(v >> (k * 8)).
ByteOf(v, k) == (v \div Weight[k]) % Base

\* The number whose bytes are the lanes, lane 0 the least significant.
LowHalf(lanes) ==
    lanes[0] + Base * (lanes[1] + Base * (lanes[2] + Base * lanes[3]))
HighHalf(lanes) ==
    lanes[4] + Base * (lanes[5] + Base * (lanes[6] + Base * lanes[7]))
Value(lanes) == LowHalf(lanes) + HALF * HighHalf(lanes)

\* sign_extend_u32_to_u64, whose parameter is a uint32_t.
SignExtendU32(v) ==
    LET num == v % HALF
    IN  IF num >= HALF \div 2 THEN num + (XMOD - HALF) ELSE num

NoBytes == [k \in Lane |-> 0]
HALT_MAGIC == [k \in InsLane |-> 0]

PC == NReg
Reg == 0..(NReg - 1)

Kinds == {"alu", "alui", "lui", "auipc", "jal", "jalr", "branch",
          "load", "store", "illegal"}

\* A decoded instruction; a field its kind does not use has any value.
Instr == [kind : Kinds, rd : Reg, rs1 : Reg, rs2 : Reg, imm : Word,
          fn : Fn, cond : Cond, len : {1, 2, 4, 8}, sext : BOOLEAN]

ASSUME BaseAssumption == Base \in Nat /\ Base >= 2
ASSUME NRegAssumption == NReg \in Nat /\ NReg >= 1
ASSUME MemAssumption == Mapped \subseteq Word /\ Images \subseteq [Mapped -> Byte]
ASSUME DecodeAssumption == Decode \in [[InsLane -> Byte] -> Instr]
ASSUME AluAssumption == \A f \in Fn, x, y \in Word : Alu(f, x, y) \in Word
ASSUME TakenAssumption == \A c \in Cond, x, y \in Word : Taken(c, x, y) \in BOOLEAN
=============================================================================
