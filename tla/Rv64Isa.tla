------------------------------- MODULE Rv64Isa -------------------------------
(***************************************************************************)
(* What the emulator promises a program: the registers and the memory      *)
(* change as if every instruction executed in one step.  No bus, no stall, *)
(* no partial access.  Immediates, arithmetic and branch conditions are    *)
(* those of Machine; loads and jumps are stated the way the RV64I manual   *)
(* the program refers to states them: every operand is read before any     *)
(* register is written, and lb, lh and lw extend the sign of the byte, the *)
(* half and the word they loaded.                                          *)
(***************************************************************************)
EXTENDS Rv64Words

VARIABLES regs, mem, status

isaVars == <<regs, mem, status>>

pc == regs[PC]

\* The bytes an access may find at the n addresses from address on: what the
\* memory holds, anything where nothing is mapped.
Readable(address, n) ==
    {lanes \in [0..(n - 1) -> Byte] :
        \A k \in 0..(n - 1) :
            LET a == Wrap(address + k)
            IN  a \in Mapped => lanes[k] = mem[a]}

\* The number of the n loaded bytes, sign extended from bit 8n-1 on request.
Extended(lanes, n, sext) ==
    LET sign == sext /\ n < 8 /\ 2 * lanes[n - 1] >= Base
    IN  Value([k \in Lane |-> IF k < n THEN lanes[k]
                                  ELSE IF sign THEN Base - 1 ELSE 0])

\* The memory after n bytes of value are stored at address.
Stored(address, n, value) ==
    [a \in Mapped |->
        IF \E k \in 0..(n - 1) : a = Wrap(address + k)
        THEN ByteOf(value,
                      CHOOSE k \in 0..(n - 1) : a = Wrap(address + k))
        ELSE mem[a]]

\* The registers after an instruction that writes value to rd and goes to
\* target; x0 reads zero whatever is written to it.
After(rd, value, target) ==
    [r \in 0..PC |-> CASE r = PC -> Wrap(target)
                       [] r = 0 -> 0
                       [] r = rd /\ r # 0 /\ r # PC -> value
                       [] OTHER -> regs[r]]

Write(i, value) == regs' = After(i.rd, value, pc + 4)
GoTo(target) == regs' = After(0, 0, target)

Arith(i) ==
    /\ i.kind \in {"alu", "alui"}
    /\ Write(i, Alu(i.fn, regs[i.rs1],
                    IF i.kind = "alui" THEN i.imm ELSE regs[i.rs2]))
    /\ UNCHANGED mem

Upper(i) ==
    /\ i.kind \in {"lui", "auipc"}
    /\ Write(i, IF i.kind = "lui" THEN i.imm ELSE Wrap(i.imm + pc))
    /\ UNCHANGED mem

\* The target is computed from the registers before the link is written.
Jump(i) ==
    /\ i.kind \in {"jal", "jalr"}
    /\ LET indirect == Wrap(regs[i.rs1] + i.imm)
           target == IF i.kind = "jal" THEN pc + i.imm
                     ELSE indirect - (indirect % 2)
       IN  regs' = After(i.rd, Wrap(pc + 4), target)
    /\ UNCHANGED mem

Branch(i) ==
    /\ i.kind = "branch"
    /\ GoTo(IF Taken(i.cond, regs[i.rs1], regs[i.rs2])
            THEN pc + i.imm ELSE pc + 4)
    /\ UNCHANGED mem

Load(i) ==
    /\ i.kind = "load"
    /\ \E lanes \in Readable(regs[i.rs1] + i.imm, i.len) :
           Write(i, Extended(lanes, i.len, i.sext))
    /\ UNCHANGED mem

Store(i) ==
    /\ i.kind = "store"
    /\ mem' = Stored(regs[i.rs1] + i.imm, i.len, regs[i.rs2])
    /\ GoTo(pc + 4)

IsaInit ==
    /\ regs = [r \in 0..PC |-> 0]
    /\ mem \in Images
    /\ status = "running"

\* One instruction.
Instruction ==
    /\ status = "running"
    /\ \E word \in Readable(pc, 4) :
           LET i == Decode[word]
           IN  IF word = HALT_MAGIC
               THEN status' = "halted" /\ UNCHANGED <<regs, mem>>
               ELSE IF i.kind = "illegal"
               THEN status' = "illegal" /\ UNCHANGED <<regs, mem>>
               ELSE /\ UNCHANGED status
                    /\ \/ Arith(i) \/ Upper(i) \/ Jump(i) \/ Branch(i)
                       \/ Load(i) \/ Store(i)

IsaSpec == IsaInit /\ [][Instruction]_isaVars
=============================================================================
